------------------------ MODULE OAuthEnrollmentProof ------------------------
(***************************************************************************)
(* Theorems of OAuthEnrollment: its type invariant, at most one active     *)
(* licence of a user on an installation, and the finality of revocations,  *)
(* for any users, installations, enrollments, threads and number of        *)
(* licences.                                                               *)
(*                                                                         *)
(* The invariant adds to these what a callback knows of its enrollment and *)
(* user at each of its steps, and that licences are numbered without gaps: *)
(* the number Issue draws is free, so the row it writes is never a revoked *)
(* licence's.                                                              *)
(***************************************************************************)
EXTENDS OAuthEnrollment, FiniteSetTheorems, TLAPS

\* A thread past the first read of oauth_callback has an enrollment, and one
\* past Discord's answer has a user.
CallbacksKnow ==
  \A c \in Callback :
    /\ callback[c].pc # "idle" => callback[c].enrollment \in Enrollment
    /\ callback[c].pc \in {"checking", "issuing"} => callback[c].user \in User

Issued == {l \in Licence : licences[l].status # "none"}

\* Licences are issued in the order of their numbers.
NoGaps == \E n \in 0..MaxLicences : Issued = 1..n

IInv == TypeOK /\ CallbacksKnow /\ NoGaps /\ OneActive

-----------------------------------------------------------------------------
\* The number that Issue draws is the first that is not taken.
LEMMA NextNumber ==
  ASSUME NoGaps
  PROVE  /\ Cardinality(Issued) \in Nat
         /\ Issued = 1..Cardinality(Issued)
<1>1. PICK n \in 0..MaxLicences : Issued = 1..n
  BY DEF NoGaps
<1>2. n \in Nat
  BY <1>1, LicencesBound
<1>3. Cardinality(1..n) = n
  BY <1>2, FS_Interval, SMT
<1> QED
  BY <1>1, <1>2, <1>3

\* What the second transaction of a callback writes, said without the count:
\* the row of a number that was free, a suspension of what the new licence
\* replaces, and no other change.
LEMMA IssueWrites ==
  ASSUME NEW c \in Callback, IInv, Issue(c)
  PROVE  \E new \in Licence :
           /\ licences[new].status = "none"
           /\ Issued \cup {new} = 1..new
           /\ callback[c].user \in User
           /\ callback[c].enrollment \in Enrollment
           /\ licences' = [l \in Licence |->
                IF l = new
                THEN [status |-> "active", user |-> callback[c].user,
                      install |-> Home[callback[c].enrollment]]
                ELSE IF Replaced(callback[c].user, Home[callback[c].enrollment], l)
                THEN [licences[l] EXCEPT !.status = "suspended"]
                ELSE licences[l]]
           /\ enrollment' =
                IF Exists(callback[c].enrollment)
                THEN [enrollment EXCEPT ![callback[c].enrollment].status = "complete",
                                        ![callback[c].enrollment].licence = new]
                ELSE enrollment
<1> DEFINE new == Cardinality(Issued) + 1
<1>1. /\ Cardinality(Issued) \in Nat
      /\ Issued = 1..Cardinality(Issued)
  BY NextNumber DEF IInv
<1>2. new \in Licence
  BY DEF Issue, Issued
<1>3. new \notin Issued /\ Issued \cup {new} = 1..new
  BY <1>1, SMT
<1>4. licences[new].status = "none"
  BY <1>2, <1>3 DEF Issued
<1>5. /\ callback[c].user \in User
      /\ callback[c].enrollment \in Enrollment
  BY DEF Issue, At, IInv, CallbacksKnow
<1> QED
  BY <1>2, <1>3, <1>4, <1>5 DEF Issue, Issued

-----------------------------------------------------------------------------
LEMMA InitInv == Init => IInv
<1> SUFFICES ASSUME Init PROVE IInv
  OBVIOUS
<1>1. TypeOK
  BY DEF Init, TypeOK, NoRow, IdleCallback, IdlePoll, EnrollmentRow, LicenceRow, CallbackState,
         PollState
<1>2. CallbacksKnow
  BY DEF Init, CallbacksKnow, IdleCallback
<1>3. NoGaps
  <2>1. Issued = {}
    BY DEF Init, Issued, NoLicence
  <2>2. 0 \in 0..MaxLicences /\ 1..0 = {}
    BY LicencesBound, SMT
  <2> QED
    BY <2>1, <2>2 DEF NoGaps
<1>4. OneActive
  BY DEF Init, OneActive, NoLicence
<1> QED
  BY <1>1, <1>2, <1>3, <1>4 DEF IInv

\* Steps that leave the licences alone disturb the types and what the callbacks
\* know at most.
LEMMA LicencesUnchanged ==
  ASSUME IInv, UNCHANGED licences
  PROVE  NoGaps' /\ OneActive'
BY DEF IInv, NoGaps, Issued, OneActive

\* The changes that the handlers make to an enrollment's row keep its columns.
LEMMA RowsStay ==
  ASSUME NEW r \in EnrollmentRow
  PROVE  /\ [r EXCEPT !.late = TRUE] \in EnrollmentRow
         /\ [r EXCEPT !.delivered = TRUE] \in EnrollmentRow
         /\ [r EXCEPT !.status = "denied"] \in EnrollmentRow
         /\ \A l \in Licence :
              [r EXCEPT !.status = "complete", !.licence = l] \in EnrollmentRow
BY DEF EnrollmentRow

LEMMA IssueKeeps ==
  ASSUME NEW c \in Callback, IInv, Issue(c)
  PROVE  IInv'
<1> DEFINE u == callback[c].user
           e == callback[c].enrollment
           i == Home[e]
<1>1. PICK new \in Licence :
        /\ licences[new].status = "none"
        /\ Issued \cup {new} = 1..new
        /\ u \in User
        /\ e \in Enrollment
        /\ licences' = [l \in Licence |->
             IF l = new THEN [status |-> "active", user |-> u, install |-> i]
             ELSE IF Replaced(u, i, l) THEN [licences[l] EXCEPT !.status = "suspended"]
             ELSE licences[l]]
        /\ enrollment' =
             IF Exists(e) THEN [enrollment EXCEPT ![e].status = "complete", ![e].licence = new]
             ELSE enrollment
  BY IssueWrites
<1>2. i \in Installation
  BY <1>1, EnrollmentsHaveHomes
<1>3. callback' = [callback EXCEPT ![c] = IdleCallback] /\ UNCHANGED poll
  BY DEF Issue, Return
<1> HIDE DEF u, e, i
<1>4. TypeOK'
  <2>1. licences' \in [Licence -> LicenceRow]
    <3> SUFFICES ASSUME NEW l \in Licence
                 PROVE  licences'[l] \in LicenceRow
      BY <1>1
    <3>1. CASE l = new
      BY <3>1, <1>1, <1>2 DEF LicenceRow
    <3>2. CASE l # new /\ Replaced(u, i, l)
      BY <3>2, <1>1, <1>2 DEF Replaced, LicenceRow
    <3>3. CASE l # new /\ ~Replaced(u, i, l)
      BY <3>3, <1>1 DEF IInv, TypeOK
    <3> QED
      BY <3>1, <3>2, <3>3
  <2>2. enrollment' \in [Enrollment -> EnrollmentRow]
    <3>1. enrollment \in [Enrollment -> EnrollmentRow]
      BY DEF IInv, TypeOK
    <3>2. CASE Exists(e)
      <4>1. [enrollment[e] EXCEPT !.status = "complete", !.licence = new] \in EnrollmentRow
        BY <3>1, <1>1, RowsStay
      <4> QED
        BY <3>1, <3>2, <4>1, <1>1
    <3>3. CASE ~Exists(e)
      BY <3>1, <3>3, <1>1
    <3> QED
      BY <3>2, <3>3
  <2>3. callback' \in [Callback -> CallbackState]
    BY <1>3 DEF IInv, TypeOK, IdleCallback, CallbackState
  <2> QED
    BY <2>1, <2>2, <2>3, <1>3 DEF IInv, TypeOK
<1>5. CallbacksKnow'
  BY <1>3 DEF IInv, TypeOK, CallbacksKnow, IdleCallback
<1>6. NoGaps'
  <2>1. Issued' = Issued \cup {new}
    <3> SUFFICES ASSUME NEW l \in Licence
                 PROVE  licences'[l].status # "none" <=> l \in Issued \/ l = new
      BY DEF Issued
    <3>1. CASE l = new
      BY <3>1, <1>1
    <3>2. CASE l # new /\ Replaced(u, i, l)
      BY <3>2, <1>1 DEF Issued, Replaced
    <3>3. CASE l # new /\ ~Replaced(u, i, l)
      BY <3>3, <1>1 DEF Issued
    <3> QED
      BY <3>1, <3>2, <3>3
  <2>2. new \in 0..MaxLicences
    BY LicencesBound DEF Licence
  <2> QED
    BY <2>1, <2>2, <1>1 DEF NoGaps
<1>7. OneActive'
  <2> SUFFICES ASSUME NEW k \in Licence, NEW l \in Licence,
                      licences'[k].status = "active", licences'[k] = licences'[l]
               PROVE  k = l
    BY DEF OneActive
  <2>1. ASSUME NEW m \in Licence, m # new, licences'[m].status = "active"
        PROVE  /\ licences[m] = licences'[m]
               /\ licences[m] # [status |-> "active", user |-> u, install |-> i]
    <3>1. CASE Replaced(u, i, m)
      BY <3>1, <2>1, <1>1 DEF Replaced
    <3>2. CASE ~Replaced(u, i, m)
      BY <3>2, <2>1, <1>1 DEF Replaced
    <3> QED
      BY <3>1, <3>2
  <2>2. licences'[new] = [status |-> "active", user |-> u, install |-> i]
    BY <1>1
  <2>3. CASE k = new /\ l = new
    BY <2>3
  <2>4. CASE k = new /\ l # new
    BY <2>4, <2>1, <2>2
  <2>5. CASE k # new /\ l = new
    BY <2>5, <2>1, <2>2
  <2>6. CASE k # new /\ l # new
    <3>1. licences[k] = licences'[k] /\ licences[l] = licences'[l]
      BY <2>6, <2>1
    <3> QED
      BY <3>1 DEF IInv, OneActive
  <2> QED
    BY <2>3, <2>4, <2>5, <2>6
<1> QED
  BY <1>4, <1>5, <1>6, <1>7 DEF IInv

LEMMA RevokeKeeps ==
  ASSUME NEW x \in Licence, IInv, Revoke(x)
  PROVE  IInv'
<1>1. /\ licences[x].status # "none"
      /\ licences' = [licences EXCEPT ![x].status = "revoked"]
      /\ UNCHANGED <<enrollment, callback, poll>>
  BY DEF Revoke
<1>2. licences \in [Licence -> LicenceRow]
  BY DEF IInv, TypeOK
<1>3. licences[x] \in
        [status : {"active", "suspended", "revoked"}, user : User, install : Installation]
  BY <1>1, <1>2 DEF NoLicence, LicenceRow
<1>4. licences'[x] = [licences[x] EXCEPT !.status = "revoked"]
      /\ \A l \in Licence : l # x => licences'[l] = licences[l]
  BY <1>1, <1>2
<1>5. TypeOK'
  <2>1. [licences[x] EXCEPT !.status = "revoked"] \in LicenceRow
    BY <1>3 DEF LicenceRow
  <2>2. licences' \in [Licence -> LicenceRow]
    BY <1>1, <1>2, <1>4, <2>1
  <2> QED
    BY <1>1, <2>2 DEF IInv, TypeOK
<1>6. CallbacksKnow'
  BY <1>1 DEF IInv, CallbacksKnow
<1>7. NoGaps'
  <2>1. licences'[x].status = "revoked"
    BY <1>3, <1>4
  <2>2. Issued' = Issued
    BY <1>1, <1>4, <2>1 DEF Issued
  <2> QED
    BY <2>2 DEF IInv, NoGaps
<1>8. OneActive'
  <2>1. licences'[x].status = "revoked"
    BY <1>3, <1>4
  <2> SUFFICES ASSUME NEW k \in Licence, NEW l \in Licence,
                      licences'[k].status = "active", licences'[k] = licences'[l]
               PROVE  k = l
    BY DEF OneActive
  <2>2. k # x /\ l # x
    BY <2>1
  <2>3. licences[k].status = "active" /\ licences[k] = licences[l]
    BY <2>2, <1>4
  <2> QED
    BY <2>3 DEF IInv, OneActive
<1> QED
  BY <1>5, <1>6, <1>7, <1>8 DEF IInv

\* A step that leaves the licences alone keeps the invariant when it keeps the
\* types and what the callbacks know.
LEMMA TypesSuffice ==
  ASSUME IInv, UNCHANGED licences,
         enrollment' \in [Enrollment -> EnrollmentRow],
         callback' \in [Callback -> CallbackState],
         poll' \in [Poll -> PollState],
         CallbacksKnow'
  PROVE  IInv'
BY LicencesUnchanged DEF IInv, TypeOK, PollState

LEMMA NextInv == IInv /\ [Next]_vars => IInv'
<1> SUFFICES ASSUME IInv, [Next]_vars PROVE IInv'
  OBVIOUS
<1>0. /\ enrollment \in [Enrollment -> EnrollmentRow]
      /\ callback \in [Callback -> CallbackState]
      /\ poll \in [Poll -> PollState]
      /\ CallbacksKnow
  BY DEF IInv, TypeOK, PollState
<1>1. ASSUME NEW e \in Enrollment, StartOauth(e) PROVE IInv'
  <2>1. /\ enrollment' = [x \in Enrollment |->
             IF x = e THEN [NoRow EXCEPT !.status = "pending"]
             ELSE IF enrollment[x].late THEN NoRow ELSE enrollment[x]]
        /\ UNCHANGED <<licences, callback, poll>>
    BY <1>1 DEF StartOauth
  <2>2. NoRow \in EnrollmentRow /\ [NoRow EXCEPT !.status = "pending"] \in EnrollmentRow
    BY DEF NoRow, EnrollmentRow
  <2>3. enrollment' \in [Enrollment -> EnrollmentRow]
    BY <1>0, <2>1, <2>2
  <2> QED
    BY <1>0, <2>1, <2>3, TypesSuffice DEF CallbacksKnow
<1>2. ASSUME NEW e \in Enrollment, Expire(e) PROVE IInv'
  <2> DEFINE y == [enrollment[e] EXCEPT !.late = TRUE]
  <2>1. enrollment' = [enrollment EXCEPT ![e] = y] /\ UNCHANGED <<licences, callback, poll>>
    BY <1>2 DEF Expire
  <2>2. y \in EnrollmentRow
    BY <1>0, RowsStay
  <2> HIDE DEF y
  <2>3. enrollment' \in [Enrollment -> EnrollmentRow]
    BY <1>0, <2>1, <2>2
  <2> QED
    BY <1>0, <2>1, <2>3, TypesSuffice DEF CallbacksKnow
<1>3. ASSUME NEW c \in Callback, OauthCallback(c) PROVE IInv'
  <2>0. IdleCallback \in CallbackState /\ IdleCallback.pc = "idle"
    BY DEF IdleCallback, CallbackState
  <2>1. ASSUME NEW e \in Enrollment, NEW approved \in BOOLEAN, CallbackRead(c, e, approved)
        PROVE  IInv'
    <3> DEFINE s == [pc |-> IF approved THEN "exchanging" ELSE "denying",
                     enrollment |-> e, user |-> Nobody]
    <3>1. callback' = [callback EXCEPT ![c] = s] /\ UNCHANGED <<enrollment, licences, poll>>
      BY <2>1 DEF CallbackRead
    <3>2. /\ s \in CallbackState /\ s.enrollment \in Enrollment
          /\ s.pc \notin {"checking", "issuing"}
      BY DEF CallbackState
    <3> HIDE DEF s
    <3>3. callback' \in [Callback -> CallbackState] /\ CallbacksKnow'
      BY <1>0, <3>1, <3>2 DEF CallbacksKnow
    <3> QED
      BY <1>0, <3>1, <3>3, TypesSuffice
  <2>2. ASSUME NEW u \in User, Identify(c, u) PROVE IInv'
    <3> DEFINE s == [callback[c] EXCEPT !.pc = "checking", !.user = u]
    <3>1. /\ callback[c].pc = "exchanging" /\ callback' = [callback EXCEPT ![c] = s]
          /\ UNCHANGED <<enrollment, licences, poll>>
      BY <2>2 DEF Identify, At
    <3>2. callback[c] \in CallbackState /\ callback[c].enrollment \in Enrollment
      BY <1>0, <3>1 DEF CallbacksKnow
    <3>3. s \in CallbackState /\ s.enrollment \in Enrollment /\ s.user \in User
      BY <3>2 DEF CallbackState
    <3> HIDE DEF s
    <3>4. callback' \in [Callback -> CallbackState] /\ CallbacksKnow'
      BY <1>0, <3>1, <3>3 DEF CallbacksKnow
    <3> QED
      BY <1>0, <3>1, <3>4, TypesSuffice
  <2>3. ASSUME IdentifyFails(c) PROVE IInv'
    <3>1. /\ callback' = [callback EXCEPT ![c] = IdleCallback]
          /\ UNCHANGED <<enrollment, licences, poll>>
      BY <2>3 DEF IdentifyFails, Return
    <3>2. callback' \in [Callback -> CallbackState] /\ CallbacksKnow'
      BY <1>0, <2>0, <3>1 DEF CallbacksKnow
    <3> QED
      BY <1>0, <3>1, <3>2, TypesSuffice
  <2>4. ASSUME CheckBan(c) PROVE IInv'
    <3> DEFINE pc == IF Banned(callback[c].user) THEN "denying" ELSE "issuing"
               s == [callback[c] EXCEPT !.pc = pc]
    <3>1. /\ callback[c].pc = "checking" /\ callback' = [callback EXCEPT ![c] = s]
          /\ UNCHANGED <<enrollment, licences, poll>>
      BY <2>4 DEF CheckBan, At, Goto
    <3>2. /\ callback[c] \in CallbackState /\ callback[c].enrollment \in Enrollment
          /\ callback[c].user \in User
      BY <1>0, <3>1 DEF CallbacksKnow
    <3>3. s \in CallbackState /\ s.enrollment \in Enrollment /\ s.user \in User
      BY <3>2 DEF CallbackState
    <3> HIDE DEF s
    <3>4. callback' \in [Callback -> CallbackState] /\ CallbacksKnow'
      BY <1>0, <3>1, <3>3 DEF CallbacksKnow
    <3> QED
      BY <1>0, <3>1, <3>4, TypesSuffice
  <2>5. ASSUME Deny(c) PROVE IInv'
    <3> DEFINE e == callback[c].enrollment
               y == [enrollment[e] EXCEPT !.status = "denied"]
    <3>1. /\ callback' = [callback EXCEPT ![c] = IdleCallback]
          /\ UNCHANGED <<licences, poll>>
          /\ \/ enrollment' = enrollment
             \/ enrollment' = [enrollment EXCEPT ![e] = y]
      BY <2>5 DEF Deny, Return
    <3>2. e \in Enrollment => y \in EnrollmentRow
      BY <1>0, RowsStay
    <3> HIDE DEF e, y
    <3>3. enrollment' \in [Enrollment -> EnrollmentRow]
      BY <1>0, <3>1, <3>2
    <3>4. callback' \in [Callback -> CallbackState] /\ CallbacksKnow'
      BY <1>0, <2>0, <3>1 DEF CallbacksKnow
    <3> QED
      BY <1>0, <3>1, <3>3, <3>4, TypesSuffice
  <2>6. ASSUME Issue(c) PROVE IInv'
    BY <2>6, IssueKeeps
  <2> QED
    BY <1>3, <2>1, <2>2, <2>3, <2>4, <2>5, <2>6 DEF OauthCallback
<1>4. ASSUME NEW p \in Poll, PollDeliver(p) PROVE IInv'
  <2> DEFINE e == poll[p].enrollment
             y == [enrollment[e] EXCEPT !.delivered = TRUE]
  <2>1. /\ poll' = [poll EXCEPT ![p] = IdlePoll]
        /\ UNCHANGED <<licences, callback>>
        /\ \/ enrollment' = enrollment
           \/ enrollment' = [enrollment EXCEPT ![e] = y]
    BY <1>4 DEF PollDeliver
  <2>2. e \in Enrollment => y \in EnrollmentRow
    BY <1>0, RowsStay
  <2> HIDE DEF e, y
  <2>3. enrollment' \in [Enrollment -> EnrollmentRow]
    BY <1>0, <2>1, <2>2
  <2>4. poll' \in [Poll -> PollState]
    BY <1>0, <2>1 DEF IdlePoll, PollState
  <2> QED
    BY <1>0, <2>1, <2>3, <2>4, TypesSuffice DEF CallbacksKnow
<1>5. ASSUME NEW p \in Poll, NEW e \in Enrollment, PollRead(p, e) PROVE IInv'
  <2>1. /\ poll' = [poll EXCEPT ![p] =
                      [enrollment |-> e, licence |-> enrollment[e].licence]]
        /\ UNCHANGED <<enrollment, licences, callback>>
    BY <1>5 DEF PollRead
  <2>2. enrollment[e].licence \in Licence \cup {NoLicenceId}
    BY <1>0 DEF EnrollmentRow
  <2>3. poll' \in [Poll -> PollState]
    BY <1>0, <2>1, <2>2 DEF PollState
  <2> QED
    BY <1>0, <2>1, <2>3, TypesSuffice DEF CallbacksKnow
<1>6. ASSUME NEW l \in Licence, Revoke(l) PROVE IInv'
  BY <1>6, RevokeKeeps
<1>7. ASSUME Restart PROVE IInv'
  <2>1. /\ callback' = [c \in Callback |-> IdleCallback]
        /\ poll' = [p \in Poll |-> IdlePoll]
        /\ UNCHANGED <<enrollment, licences>>
    BY <1>7 DEF Restart
  <2>2. callback' \in [Callback -> CallbackState] /\ CallbacksKnow'
    BY <2>1 DEF CallbacksKnow, CallbackState, IdleCallback
  <2>3. poll' \in [Poll -> PollState]
    BY <2>1 DEF IdlePoll, PollState
  <2> QED
    BY <1>0, <2>1, <2>2, <2>3, TypesSuffice
<1>8. ASSUME UNCHANGED vars PROVE IInv'
  BY <1>0, <1>8, TypesSuffice DEF vars, CallbacksKnow
<1> QED
  BY <1>1, <1>2, <1>3, <1>4, <1>5, <1>6, <1>7, <1>8 DEF Next

LEMMA Inductive == Spec => []IInv
BY InitInv, NextInv, PTL DEF Spec

-----------------------------------------------------------------------------
\* Every variable keeps its type, and a licence row has all its columns.
THEOREM TypeCorrect == Spec => []TypeOK
<1>1. IInv => TypeOK
  BY DEF IInv
<1> QED
  BY Inductive, <1>1, PTL

\* A sign-in replaces the licence of the one before: however many callbacks
\* of a user run at once, an installation has one active licence of the user.
THEOREM OneActiveLicence == Spec => []OneActive
<1>1. IInv => OneActive
  BY DEF IInv
<1> QED
  BY Inductive, <1>1, PTL

\* A licence that has been taken away, for a replacement or by the
\* administrator, never becomes active again.
LEMMA TakenStays ==
  ASSUME IInv, [Next]_vars, NEW x \in Licence, licences[x].status \in {"suspended", "revoked"}
  PROVE  /\ licences'[x].status \in {licences[x].status, "revoked"}
         /\ licences'[x].user = licences[x].user
<1>1. ASSUME NEW c \in Callback, Issue(c) PROVE licences'[x] = licences[x]
  <2> DEFINE u == callback[c].user
             i == Home[callback[c].enrollment]
  <2>1. PICK new \in Licence :
          /\ licences[new].status = "none"
          /\ licences' = [l \in Licence |->
               IF l = new THEN [status |-> "active", user |-> u, install |-> i]
               ELSE IF Replaced(u, i, l) THEN [licences[l] EXCEPT !.status = "suspended"]
               ELSE licences[l]]
    BY <1>1, IssueWrites
  <2>2. x # new
    BY <2>1
  <2>3. ~Replaced(u, i, x)
    BY DEF Replaced
  <2> HIDE DEF u, i
  <2> QED
    BY <2>1, <2>2, <2>3
<1>2. ASSUME NEW l \in Licence, Revoke(l)
      PROVE  /\ licences'[x].status \in {licences[x].status, "revoked"}
             /\ licences'[x].user = licences[x].user
  <2>1. licences[x] \in LicenceRow
    BY DEF IInv, TypeOK
  <2>2. licences[x] \in
          [status : {"active", "suspended", "revoked"}, user : User, install : Installation]
    BY <2>1 DEF NoLicence, LicenceRow
  <2> QED
    BY <1>2, <2>2 DEF Revoke, IInv, TypeOK
<1> QED
  BY <1>1, <1>2
     DEF Next, vars, OauthCallback, StartOauth, Expire, CallbackRead, Identify,
         IdentifyFails, CheckBan, Deny, PollDeliver, PollRead, Restart

\* Of a banned user no callback passes the ban check.
LEMMA NobodyPasses ==
  ASSUME IInv, [Next]_vars, NEW u \in User, Banned(u), PastCheck(u) = {}
  PROVE  PastCheck(u)' = {}
<1> SUFFICES ASSUME NEW b \in Callback, callback'[b].pc = "issuing", callback'[b].user = u
             PROVE  FALSE
  BY DEF PastCheck, At
<1>1. callback \in [Callback -> CallbackState]
  BY DEF IInv, TypeOK
<1>2. ~(callback[b].pc = "issuing" /\ callback[b].user = u)
  BY DEF PastCheck, At
<1>3. callback'[b] # callback[b]
  BY <1>2
<1>4. ASSUME NEW c \in Callback, NEW s, callback' = [callback EXCEPT ![c] = s],
             s.pc # "issuing"
      PROVE  FALSE
  BY <1>1, <1>3, <1>4
<1>5. ASSUME NEW c \in Callback, CheckBan(c) PROVE FALSE
  <2>1. callback' = [callback EXCEPT ![c].pc =
                       IF Banned(callback[c].user) THEN "denying" ELSE "issuing"]
    BY <1>5 DEF CheckBan, Goto
  <2>2. b = c
    BY <1>1, <1>3, <2>1
  <2>3. callback[c] \in CallbackState
    BY <1>1
  <2>4. callback'[c].user = callback[c].user
    BY <1>1, <2>1, <2>3 DEF CallbackState
  <2>5. callback'[c].pc = "denying"
    BY <1>1, <2>1, <2>2, <2>3, <2>4 DEF CallbackState
  <2> QED
    BY <2>2, <2>5
<1>6. ASSUME NEW c \in Callback, OauthCallback(c) PROVE FALSE
  <2>1. ASSUME NEW e \in Enrollment, NEW approved \in BOOLEAN, CallbackRead(c, e, approved)
        PROVE  FALSE
    <3> DEFINE s == [pc |-> IF approved THEN "exchanging" ELSE "denying",
                     enrollment |-> e, user |-> Nobody]
    <3>1. callback' = [callback EXCEPT ![c] = s]
      BY <2>1 DEF CallbackRead
    <3>2. s.pc # "issuing"
      OBVIOUS
    <3> HIDE DEF s
    <3> QED
      BY <3>1, <3>2, <1>4
  <2>2. ASSUME NEW v \in User, Identify(c, v) PROVE FALSE
    <3> DEFINE s == [callback[c] EXCEPT !.pc = "checking", !.user = v]
    <3>1. callback' = [callback EXCEPT ![c] = s] /\ callback[c] \in CallbackState
      BY <1>1, <2>2 DEF Identify
    <3>2. s.pc # "issuing"
      BY <3>1 DEF CallbackState
    <3> HIDE DEF s
    <3> QED
      BY <3>1, <3>2, <1>4
  <2>3. ASSUME IdentifyFails(c) \/ Deny(c) \/ Issue(c) PROVE FALSE
    <3>1. callback' = [callback EXCEPT ![c] = IdleCallback] /\ IdleCallback.pc # "issuing"
      BY <2>3 DEF IdentifyFails, Deny, Issue, Return, IdleCallback
    <3> QED
      BY <3>1, <1>4
  <2> QED
    BY <1>6, <1>5, <2>1, <2>2, <2>3 DEF OauthCallback
<1>7. ASSUME Restart PROVE FALSE
  BY <1>7 DEF Restart, IdleCallback
<1> QED
  BY <1>3, <1>6, <1>7 DEF Next, vars, StartOauth, Expire, PollDeliver, PollRead, Revoke

\* A licence is made by a callback past the check.
LEMMA OnlyIssueMakes ==
  ASSUME IInv, [Next]_vars, NEW x \in Licence, licences'[x].status = "active",
         PastCheck(licences'[x].user) = {}
  PROVE  licences[x] = licences'[x]
<1>1. licences \in [Licence -> LicenceRow]
  BY DEF IInv, TypeOK
<1>2. ASSUME NEW c \in Callback, Issue(c) PROVE licences[x] = licences'[x]
  <2> DEFINE u == callback[c].user
             i == Home[callback[c].enrollment]
  <2>1. PICK new \in Licence :
          licences' = [l \in Licence |->
             IF l = new THEN [status |-> "active", user |-> u, install |-> i]
             ELSE IF Replaced(u, i, l) THEN [licences[l] EXCEPT !.status = "suspended"]
             ELSE licences[l]]
    BY <1>2, IssueWrites
  <2>2. c \in PastCheck(u)
    BY <1>2 DEF Issue, PastCheck
  <2> HIDE DEF u, i
  <2>3. x # new
    BY <2>1, <2>2
  <2>4. CASE Replaced(u, i, x)
    BY <2>1, <2>3, <2>4 DEF Replaced
  <2>5. CASE ~Replaced(u, i, x)
    BY <2>1, <2>3, <2>5
  <2> QED
    BY <2>4, <2>5
<1>3. ASSUME NEW l \in Licence, Revoke(l) PROVE licences[x] = licences'[x]
  <2>1. licences' = [licences EXCEPT ![l].status = "revoked"] /\ licences[l].status # "none"
    BY <1>3 DEF Revoke
  <2>2. licences[l] \in
          [status : {"active", "suspended", "revoked"}, user : User, install : Installation]
    BY <1>1, <2>1 DEF NoLicence, LicenceRow
  <2>3. licences'[l].status = "revoked"
    BY <1>1, <2>1, <2>2
  <2> QED
    BY <1>1, <2>1, <2>3
<1> QED
  BY <1>2, <1>3
     DEF Next, vars, OauthCallback, StartOauth, Expire, CallbackRead, Identify,
         IdentifyFails, CheckBan, Deny, PollDeliver, PollRead, Restart

\* No callback brings a revoked licence back, by replacing it or by taking its
\* number, and once a banned account has no callback past the check, none of its
\* sign-ins ever ends with a licence.
THEOREM RevocationStands == Spec => RevocationIsFinal
<1>1. ASSUME IInv, [Next]_vars, NEW x \in Licence, licences[x].status = "revoked"
      PROVE  licences'[x].status = "revoked"
  BY <1>1, TakenStays
<1>2. ASSUME IInv, [Next]_vars, NEW u \in User, Banned(u), PastCheck(u) = {}
      PROVE  /\ Banned(u)'
             /\ PastCheck(u)' = {}
             /\ \A l \in Licence :
                  licences'[l].status = "active" /\ licences'[l].user = u =>
                    licences[l] = licences'[l]
  <2>1. Banned(u)'
    <3>1. PICK l \in Licence : licences[l].user = u /\ licences[l].status \in {"suspended", "revoked"}
      BY <1>2 DEF Banned
    <3>2. licences'[l].user = u /\ licences'[l].status \in {"suspended", "revoked"}
      BY <1>2, <3>1, TakenStays
    <3> QED
      BY <3>2 DEF Banned
  <2>2. PastCheck(u)' = {}
    BY <1>2, NobodyPasses
  <2>3. ASSUME NEW l \in Licence, licences'[l].status = "active", licences'[l].user = u
        PROVE  licences[l] = licences'[l]
    BY <1>2, <2>3, OnlyIssueMakes
  <2> QED
    BY <2>1, <2>2, <2>3
<1>3. IInv /\ [Next]_vars =>
        [/\ \A l \in Licence : licences[l].status = "revoked" => licences'[l].status = "revoked"
         /\ \A u \in User : Banned(u) /\ PastCheck(u) = {} =>
              /\ Banned(u)'
              /\ PastCheck(u)' = {}
              /\ \A l \in Licence :
                   licences'[l].status = "active" /\ licences'[l].user = u =>
                     licences[l] = licences'[l]]_vars
  BY <1>1, <1>2
<1> QED
  BY Inductive, <1>3, PTL DEF Spec, RevocationIsFinal
=============================================================================

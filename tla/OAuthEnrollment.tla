--------------------------- MODULE OAuthEnrollment ---------------------------
(***************************************************************************)
(* How an installation gets a licence: start_oauth, oauth_callback,        *)
(* oauth_status, _enrollment and revoke of remote-gateway/app.py.          *)
(*                                                                         *)
(* All of them are synchronous handlers run by threads of the pool.  A     *)
(* callback reads its enrollment in one transaction, talks to Discord, and *)
(* updates the enrollment by its id alone in another; the ban is looked up *)
(* before that second transaction takes its write lock.  A status poll     *)
(* reads the row and marks the delivery in two transactions as well.       *)
(***************************************************************************)
EXTENDS Integers, FiniteSets

CONSTANTS
  User,           \* Discord accounts
  Installation,   \* installation digests
  Enrollment,     \* enrollment ids
  Home,           \* the installation that drew each enrollment id
  MaxLicences,    \* bound: licences issued
  Callback,       \* threads in oauth_callback
  Poll            \* threads in oauth_status

ASSUME EnrollmentsHaveHomes == Home \in [Enrollment -> Installation]
ASSUME LicencesBound == MaxLicences \in Nat

\* Licences are numbered as they are issued, so a larger one is newer.
Licence == 1..MaxLicences
NoLicenceId == 0
Nobody == "nobody"
Nowhere == "nowhere"
NoEnrollment == "none"

VARIABLES
  enrollment,   \* oauth_enrollments
  licences,     \* licenses
  callback,     \* the callbacks in progress
  poll          \* the status polls about to deliver a licence's token

vars == <<enrollment, licences, callback, poll>>

NoRow == [status |-> "none", late |-> FALSE, delivered |-> FALSE, licence |-> NoLicenceId]

NoLicence == [status |-> "none", user |-> Nobody, install |-> Nowhere]

IdleCallback == [pc |-> "idle", enrollment |-> NoEnrollment, user |-> Nobody]

IdlePoll == [enrollment |-> NoEnrollment, licence |-> NoLicenceId]

Init ==
  /\ enrollment = [e \in Enrollment |-> NoRow]
  /\ licences = [l \in Licence |-> NoLicence]
  /\ callback = [c \in Callback |-> IdleCallback]
  /\ poll = [p \in Poll |-> IdlePoll]

At(c, pc) == callback[c].pc = pc
Exists(e) == enrollment[e].status # "none"
Goto(c, pc) == callback' = [callback EXCEPT ![c].pc = pc]
Return(c) == callback' = [callback EXCEPT ![c] = IdleCallback]

\* start_oauth: purge the expired enrollments, then insert or reset this one.
StartOauth(e) ==
  /\ enrollment' = [x \in Enrollment |->
       IF x = e THEN [NoRow EXCEPT !.status = "pending"]
       ELSE IF enrollment[x].late THEN NoRow ELSE enrollment[x]]
  /\ UNCHANGED <<licences, callback, poll>>

\* OAUTH_ENROLLMENT_TTL_SECONDS go by.
Expire(e) ==
  /\ Exists(e) /\ ~enrollment[e].late
  /\ enrollment' = [enrollment EXCEPT ![e].late = TRUE]
  /\ UNCHANGED <<licences, callback, poll>>

-----------------------------------------------------------------------------
(***************************************************************************)
(* The callback                                                            *)
(***************************************************************************)

\* oauth_callback finds a pending enrollment by its state; the browser brings
\* a code, or an error.
CallbackRead(c, e, approved) ==
  /\ At(c, "idle")
  /\ enrollment[e].status = "pending" /\ ~enrollment[e].late
  /\ callback' = [callback EXCEPT ![c] =
       [pc |-> IF approved THEN "exchanging" ELSE "denying", enrollment |-> e, user |-> Nobody]]
  /\ UNCHANGED <<enrollment, licences, poll>>

\* The code buys Discord's word on who the user is, or a 502.
Identify(c, u) ==
  /\ At(c, "exchanging")
  /\ callback' = [callback EXCEPT ![c].pc = "checking", ![c].user = u]
  /\ UNCHANGED <<enrollment, licences, poll>>

IdentifyFails(c) ==
  /\ At(c, "exchanging")
  /\ Return(c)
  /\ UNCHANGED <<enrollment, licences, poll>>

Banned(u) == \E l \in Licence : licences[l].user = u /\ licences[l].status \in {"suspended", "revoked"}

\* A slip: who has an active licence is let through.
CheckBanMutant(c) ==
  /\ At(c, "checking")
  /\ LET u == callback[c].user
         welcome == \E l \in Licence : licences[l].user = u /\ licences[l].status = "active"
     IN  Goto(c, IF Banned(u) /\ ~welcome THEN "denying" ELSE "issuing")
  /\ UNCHANGED <<enrollment, licences, poll>>

CheckBan(c) ==
  /\ At(c, "checking")
  /\ Goto(c, IF Banned(callback[c].user) THEN "denying" ELSE "issuing")
  /\ UNCHANGED <<enrollment, licences, poll>>

\* UPDATE ... WHERE enrollment_id: the row may have changed or gone by now.
Deny(c) ==
  LET e == callback[c].enrollment IN
  /\ At(c, "denying")
  /\ enrollment' = IF Exists(e) THEN [enrollment EXCEPT ![e].status = "denied"] ELSE enrollment
  /\ Return(c)
  /\ UNCHANGED <<licences, poll>>

\* A slip: nothing is replaced.
ReplaceNoneMutant(u, i, l) == FALSE

\* The licences that a new one of u on i replaces.
Replaced(u, i, l) ==
  licences[l] = [status |-> "active", user |-> u, install |-> i]

\* The second transaction: replace the installation's licence, insert the new
\* one, complete the enrollment.
Issue(c) ==
  LET e == callback[c].enrollment
      u == callback[c].user
      i == Home[e]
      new == Cardinality({l \in Licence : licences[l].status # "none"}) + 1
  IN
  /\ At(c, "issuing")
  /\ new \in Licence
  /\ licences' = [l \in Licence |->
       IF l = new THEN [status |-> "active", user |-> u, install |-> i]
       ELSE IF Replaced(u, i, l) THEN [licences[l] EXCEPT !.status = "suspended"]
       ELSE licences[l]]
  /\ enrollment' =
       IF Exists(e) THEN [enrollment EXCEPT ![e].status = "complete", ![e].licence = new]
       ELSE enrollment
  /\ Return(c)
  /\ UNCHANGED poll

-----------------------------------------------------------------------------
(***************************************************************************)
(* The poll and the administrator                                          *)
(***************************************************************************)

\* oauth_status reads a completed enrollment whose token nobody has had yet.  An
\* expired one answers 410: its UPDATE to 'expired' is rolled back by the error.
PollRead(p, e) ==
  /\ poll[p] = IdlePoll
  /\ enrollment[e].status = "complete" /\ ~enrollment[e].late /\ ~enrollment[e].delivered
  /\ poll' = [poll EXCEPT ![p] = [enrollment |-> e, licence |-> enrollment[e].licence]]
  /\ UNCHANGED <<enrollment, licences, callback>>

\* Mark the delivery and answer with the token of the licence read before,
\* whatever the mark was.
PollDeliver(p) ==
  LET e == poll[p].enrollment IN
  /\ poll[p] # IdlePoll
  /\ enrollment' = IF Exists(e) THEN [enrollment EXCEPT ![e].delivered = TRUE] ELSE enrollment
  /\ poll' = [poll EXCEPT ![p] = IdlePoll]
  /\ UNCHANGED <<licences, callback>>

Revoke(l) ==
  /\ licences[l].status # "none"
  /\ licences' = [licences EXCEPT ![l].status = "revoked"]
  /\ UNCHANGED <<enrollment, callback, poll>>

\* The process dies: its threads are gone.
Restart ==
  /\ callback' = [c \in Callback |-> IdleCallback]
  /\ poll' = [p \in Poll |-> IdlePoll]
  /\ UNCHANGED <<enrollment, licences>>

OauthCallback(c) ==
  \/ \E e \in Enrollment, approved \in BOOLEAN : CallbackRead(c, e, approved)
  \/ \E u \in User : Identify(c, u)
  \/ IdentifyFails(c) \/ CheckBan(c) \/ Deny(c) \/ Issue(c)

Next ==
  \/ \E e \in Enrollment : StartOauth(e)
  \/ \E e \in Enrollment : Expire(e)
  \/ \E c \in Callback : OauthCallback(c)
  \/ \E p \in Poll : PollDeliver(p) \/ \E e \in Enrollment : PollRead(p, e)
  \/ \E l \in Licence : Revoke(l)
  \/ Restart

Spec == Init /\ [][Next]_vars

-----------------------------------------------------------------------------
(***************************************************************************)
(* Properties                                                              *)
(***************************************************************************)

\* What the two tables, a suspended callback and a suspended poll may hold.
EnrollmentRow ==
  [status : {"none", "pending", "complete", "denied"}, late : BOOLEAN,
   delivered : BOOLEAN, licence : Licence \cup {NoLicenceId}]
LicenceRow ==
  [status : {"active", "suspended", "revoked"}, user : User, install : Installation]
    \cup {NoLicence}
CallbackState ==
  [pc : {"idle", "exchanging", "checking", "issuing", "denying"},
   enrollment : Enrollment \cup {NoEnrollment}, user : User \cup {Nobody}]
PollState ==
  [enrollment : Enrollment \cup {NoEnrollment}, licence : Licence \cup {NoLicenceId}]

\* Each variable has its type; a licence row exists with all its columns.
TypeOK ==
  /\ enrollment \in [Enrollment -> EnrollmentRow]
  /\ licences \in [Licence -> LicenceRow]
  /\ callback \in [Callback -> CallbackState]
  /\ poll \in [Poll -> PollState]

\* A sign-in replaces the installation's licence: a user has at most one active
\* licence on an installation, however many callbacks run at once.
OneActive ==
  \A k, l \in Licence :
    licences[k].status = "active" /\ licences[k] = licences[l] => k = l

\* The callbacks of u between the ban check and the transaction that issues.
PastCheck(u) == {c \in Callback : At(c, "issuing") /\ callback[c].user = u}

\* "Online API access is unavailable for this Discord account": no callback
\* brings a revoked licence back, and a revocation ends an account's access but
\* for the callbacks that had passed the ban check when it came.  Once an
\* account is banned and no callback of it is past the check, it stays banned,
\* no callback of it passes the check any more, and no licence of it becomes
\* active (oauth_callback checks and issues in two steps, app.py:2180-2185).
RevocationIsFinal ==
  [][/\ \A l \in Licence : licences[l].status = "revoked" => licences'[l].status = "revoked"
     /\ \A u \in User : Banned(u) /\ PastCheck(u) = {} =>
          /\ Banned(u)'
          /\ PastCheck(u)' = {}
          /\ \A l \in Licence :
               licences'[l].status = "active" /\ licences'[l].user = u =>
                 licences[l] = licences'[l]]_vars

=============================================================================

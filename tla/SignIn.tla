------------------------------- MODULE SignIn -------------------------------
(***************************************************************************)
(* Sessions and the links that begin or end them (AuthService): refresh    *)
(* tokens that rotate, with a grace for one just rotated; logout; password *)
(* resets; invitations of a user and of a company.                         *)
(*                                                                         *)
(* A token is the row of its hash; what its holder also holds for 15       *)
(* minutes, the JWT, is checked against the user row at every request (Acts*)
(* in Accounts) and left out.  Passwords match; the status a sign-in lifts *)
(* from AWAY, the company's e-mail addresses and whether an invited user   *)
(* has set a password yet are left out.                                    *)
(*                                                                         *)
(* A definition marked Mutant is a faulty form of the one that follows it. *)
(***************************************************************************)
EXTENDS Naturals, FiniteSets

CONSTANTS
    Users, Admins,  \* Admins: those who sign in by adminLogin
    Tokens, Links, Workers,
    Grace,          \* REFRESH_REUSE_GRACE_MS, in ticks
    Lifetime,       \* REFRESH_TTL_MS or DRIVER_REFRESH_TTL_MS, in ticks
    Kept,           \* CREDENTIAL_GRACE_MS, in ticks
    MaxTime,        \* bound on the clock
    None            \* NULL

\* What the proofs need of the constants; the instance assumes it.  A token is
\* kept for longer after its rotation than it is honoured (a day, a minute).
SignInAssumption ==
    /\ IsFiniteSet(Workers)
    /\ Grace \in Nat /\ Lifetime \in Nat /\ Kept \in Nat /\ MaxTime \in Nat
    /\ Grace <= Kept
    /\ None \notin Users \cup 0..MaxTime

VARIABLES
    now,            \* the clock
    account,        \* account[u]: none, active, inactive or erased
    token,          \* the RefreshToken rows
    link,           \* PasswordResetToken rows and the invitations
    task,           \* task[w]: what worker w has read and has still to do
    barred          \* barred[t]: when the session of t was last ended, or None

vars == <<now, account, token, link, task, barred>>

Times == 0..MaxTime

NoToken == [user |-> None, revoked |-> None, expires |-> 0]

\* An id is not given out again.
DeletedToken == [NoToken EXCEPT !.revoked = 0]

TokenRows == [user : Users \cup {None}, revoked : Times \cup {None},
              expires : 0..(MaxTime + Lifetime)]

NoLink == [kind |-> "none", user |-> None, used |-> FALSE, expired |-> FALSE, uses |-> 0]

DeletedLink == [NoLink EXCEPT !.used = TRUE]

\* user: whose password it sets; of a company's link, the team lead it makes.
\* uses counts what the link has done.
LinkRows == [kind : {"none", "reset", "invite", "company"}, user : Users \cup {None},
             used : BOOLEAN, expired : BOOLEAN, uses : Nat]

Idle == [pc |-> "idle", user |-> None, token |-> None, link |-> None,
         at |-> 0, refused |-> FALSE]

Tasks == [pc : {"idle", "rotate", "issue", "mailLink", "useLink"},
          user : Users \cup {None}, token : Tokens \cup {None},
          link : Links \cup {None}, at : Times, refused : BOOLEAN]

TypeOK ==
    /\ now \in Times
    /\ account \in [Users -> {"none", "active", "inactive", "erased"}]
    /\ token \in [Tokens -> TokenRows]
    /\ link \in [Links -> LinkRows]
    /\ task \in [Workers -> Tasks]
    /\ barred \in [Tokens -> Times \cup {None}]

Init ==
    /\ now = 0
    /\ \E known \in SUBSET Users :
         account = [u \in Users |-> IF u \in known THEN "active" ELSE "none"]
    /\ token = [t \in Tokens |-> NoToken]
    /\ link = [l \in Links |-> NoLink]
    /\ task = [w \in Workers |-> Idle]
    /\ barred = [t \in Tokens |-> None]

Free(w) == task[w] = Idle

Start(w, j) == Free(w) /\ task' = [task EXCEPT ![w] = j]

Goto(w, j) == task' = [task EXCEPT ![w] = j]

Return(w) == task' = [task EXCEPT ![w] = Idle]

\* What a request keeps when only the new token is left to make.
Issuing(u) == [Idle EXCEPT !.pc = "issue", !.user = u]

TokensOf(u) == {t \in Tokens : token[t].user = u}

-----------------------------------------------------------------------------
(* Refresh tokens.                                                         *)

\* Mutant: as if only a token that was not rotated yet needed ending.
EndSessionsUnrotated(u) ==
    [t \in Tokens |-> IF t \in TokensOf(u) /\ token[t].revoked = None
                      THEN [token[t] EXCEPT !.revoked = now, !.expires = now]
                      ELSE token[t]]

\* The updateMany of deactivate and resetPassword: revoked and expired.
EndSessions(u) ==
    [t \in Tokens |-> IF t \in TokensOf(u) /\ token[t].expires > now
                      THEN [token[t] EXCEPT !.revoked = now, !.expires = now]
                      ELSE token[t]]

Bar(S) == barred' = [t \in Tokens |-> IF t \in S THEN now ELSE barred[t]]

\* What refresh accepts: not expired, and not rotated for longer than Grace.
Honoured(t) ==
    /\ token[t].user # None
    /\ token[t].expires >= now
    /\ token[t].revoked # None => now - token[t].revoked <= Grace

\* refresh reads the token with its user.  A token rotated before goes straight
\* on; an account that is not active is refused, after the rotation.
Refresh(w, t) ==
    LET refused == account[token[t].user] # "active" IN
    /\ Honoured(t)
    /\ token[t].revoked = None \/ ~refused
    /\ Start(w, IF token[t].revoked # None THEN Issuing(token[t].user)
                ELSE [Idle EXCEPT !.pc = "rotate", !.user = token[t].user, !.token = t,
                                  !.at = now, !.refused = refused])
    /\ UNCHANGED <<now, account, token, link, barred>>

\* A token deleted meanwhile fails the update.
Rotate(w) ==
    LET j == task[w]
        found == token[j.token].user = j.user
    IN
    /\ j.pc = "rotate"
    /\ token' = IF found THEN [token EXCEPT ![j.token].revoked = j.at] ELSE token
    /\ IF found /\ ~j.refused THEN Goto(w, Issuing(j.user)) ELSE Return(w)
    /\ UNCHANGED <<now, account, link, barred>>

\* issueRefreshToken.
Issue(w, t) ==
    LET j == task[w] IN
    /\ j.pc = "issue"
    /\ token[t] = NoToken
    /\ token' = [token EXCEPT ![t] = [user |-> j.user, revoked |-> None,
                                      expires |-> now + Lifetime]]
    /\ Return(w)
    /\ UNCHANGED <<now, account, link, barred>>

\* login answers an active account, ...
Login(w, u) ==
    /\ account[u] = "active"
    /\ Start(w, Issuing(u))
    /\ UNCHANGED <<now, account, token, link, barred>>

\* ... adminLogin any ADMIN that has a password, a suspended one too.
AdminLogin(w, u) ==
    /\ u \in Admins /\ account[u] \in {"active", "inactive"}
    /\ Start(w, Issuing(u))
    /\ UNCHANGED <<now, account, token, link, barred>>

\* revokeRefresh: at any time, of the token that is presented.
Logout(t) ==
    /\ token[t].user # None
    /\ token' = [token EXCEPT ![t].revoked = now, ![t].expires = now]
    /\ Bar({t})
    /\ UNCHANGED <<now, account, link, task>>

\* Mutant: a revoked token is taken for a dead one.
DeadOnceRevoked(t) ==
    token[t].user # None /\ (token[t].expires + Kept < now \/ token[t].revoked # None)

\* Expired or revoked for longer than Kept.
Dead(t) ==
    /\ token[t].user # None
    /\ \/ token[t].expires + Kept < now
       \/ token[t].revoked # None /\ token[t].revoked + Kept < now

\* The nightly purge of RetentionService: dead tokens are deleted.  Its other
\* steps delete rows that no statement looks at any more, and are left out.
Purge ==
    /\ \E t \in Tokens : Dead(t)
    /\ token' = [t \in Tokens |-> IF Dead(t) THEN DeletedToken ELSE token[t]]
    /\ UNCHANGED <<now, account, link, task, barred>>

-----------------------------------------------------------------------------
(* What Accounts does to the sessions.                                     *)

Deactivate(u) ==
    /\ account[u] = "active"
    /\ account' = [account EXCEPT ![u] = "inactive"]
    /\ token' = EndSessions(u)
    /\ Bar(TokensOf(u))
    /\ UNCHANGED <<now, link, task>>

Activate(u) ==
    /\ account[u] = "inactive"
    /\ account' = [account EXCEPT ![u] = "active"]
    /\ UNCHANGED <<now, token, link, task, barred>>

\* The transaction of deleteOwnAccount deletes tokens and reset links, and takes
\* back an invitation, which is a column of the user's row.
Erase(u) ==
    /\ account[u] = "active"
    /\ account' = [account EXCEPT ![u] = "erased"]
    /\ token' = [t \in Tokens |-> IF t \in TokensOf(u) THEN DeletedToken ELSE token[t]]
    /\ barred' = [t \in Tokens |-> IF t \in TokensOf(u) THEN None ELSE barred[t]]
    /\ link' = [l \in Links |-> IF link[l].user # u THEN link[l]
                                ELSE IF link[l].kind = "reset" THEN DeletedLink
                                ELSE [link[l] EXCEPT !.used = TRUE]]
    /\ UNCHANGED <<now, task>>

-----------------------------------------------------------------------------
(* Links.                                                                  *)

\* requestPasswordReset: earlier links are used up, then a new one is made.
RequestReset(w, u) ==
    /\ account[u] \in {"active", "inactive"}
    /\ link' = [l \in Links |-> IF link[l].user = u /\ link[l].kind = "reset"
                                THEN [link[l] EXCEPT !.used = TRUE] ELSE link[l]]
    /\ Start(w, [Idle EXCEPT !.pc = "mailLink", !.user = u])
    /\ UNCHANGED <<now, account, token, barred>>

MailLink(w, l) ==
    LET j == task[w] IN
    /\ j.pc = "mailLink"
    /\ link[l] = NoLink
    /\ link' = [link EXCEPT ![l] = [NoLink EXCEPT !.kind = "reset", !.user = j.user]]
    /\ Return(w)
    /\ UNCHANGED <<now, account, token, barred>>

\* createManager and the company's link (SignupService): made elsewhere, mailed at
\* once; a company whose link cannot be mailed is deleted again.
Invite(l, u, kind) ==
    /\ link[l] = NoLink
    /\ \/ kind = "invite" /\ account[u] \in {"active", "inactive"}
       \/ kind = "company" /\ account[u] = "none"
    /\ \A k \in Links : link[k].user # u
    /\ link' = [link EXCEPT ![l] = [NoLink EXCEPT !.kind = kind, !.user = u]]
    /\ UNCHANGED <<now, account, token, task, barred>>

\* resetPassword and register find the link, and hash the password.
OpenLink(w, l) ==
    /\ link[l].kind # "none" /\ ~link[l].used /\ ~link[l].expired
    /\ Start(w, [Idle EXCEPT !.pc = "useLink", !.user = link[l].user, !.link = l])
    /\ UNCHANGED <<now, account, token, link, barred>>

Spent(l) == [link EXCEPT ![l].used = TRUE, ![l].uses = @ + 1]

\* The transaction of resetPassword; it fails if the link was deleted.
ResetPassword(w) ==
    LET j == task[w] IN
    /\ j.pc = "useLink" /\ link[j.link].kind \in {"reset", "none"}
    /\ IF link[j.link] = DeletedLink
       THEN UNCHANGED <<link, token, barred>>
       ELSE link' = Spent(j.link) /\ token' = EndSessions(j.user) /\ Bar(TokensOf(j.user))
    /\ Return(w)
    /\ UNCHANGED <<now, account>>

\* register with an invitation: the row is updated by id, and signed in.
RegisterInvited(w) ==
    LET j == task[w] IN
    /\ j.pc = "useLink" /\ link[j.link].kind = "invite"
    /\ link' = Spent(j.link)
    /\ Goto(w, Issuing(j.user))
    /\ UNCHANGED <<now, account, token, barred>>

\* Mutant: the link is cleared whoever has cleared it before.
RegisterLeadAgain(w) ==
    LET j == task[w] IN
    /\ j.pc = "useLink" /\ link[j.link].kind = "company"
    /\ link' = Spent(j.link)
    /\ account' = [account EXCEPT ![j.user] = "active"]
    /\ Goto(w, Issuing(j.user))
    /\ UNCHANGED <<now, token, barred>>

\* register with a company's link: claimed in the transaction of the sign-up.
RegisterLead(w) ==
    LET j == task[w] IN
    /\ j.pc = "useLink" /\ link[j.link].kind = "company"
    /\ IF link[j.link].used
       THEN Return(w) /\ UNCHANGED <<link, account>>
       ELSE /\ link' = Spent(j.link)
            /\ account' = [account EXCEPT ![j.user] = "active"]
            /\ Goto(w, Issuing(j.user))
    /\ UNCHANGED <<now, token, barred>>

ExpireLink(l) ==
    /\ link[l].kind # "none" /\ ~link[l].expired
    /\ link' = [link EXCEPT ![l].expired = TRUE]
    /\ UNCHANGED <<now, account, token, task, barred>>

\* A request ends between two of its writes.
Die(w) ==
    /\ task[w].pc \in {"issue", "mailLink"}
    /\ Return(w)
    /\ UNCHANGED <<now, account, token, link, barred>>

Tick ==
    /\ now < MaxTime
    /\ now' = now + 1
    /\ UNCHANGED <<account, token, link, task, barred>>

Request(w) ==
    /\ Free(w)
    /\ \/ \E t \in Tokens : Refresh(w, t)
       \/ \E u \in Users : Login(w, u) \/ AdminLogin(w, u) \/ RequestReset(w, u)
       \/ \E l \in Links : OpenLink(w, l)

Statement(w) ==
    \/ Rotate(w)
    \/ \E t \in Tokens : Issue(w, t)
    \/ \E l \in Links : MailLink(w, l)
    \/ ResetPassword(w)
    \/ RegisterInvited(w)
    \/ RegisterLead(w)
    \/ Die(w)

Next ==
    \/ \E w \in Workers : Request(w) \/ Statement(w)
    \/ \E t \in Tokens : Logout(t)
    \/ \E u \in Users : Deactivate(u) \/ Activate(u) \/ Erase(u)
    \/ \E l \in Links, u \in Users, kind \in {"invite", "company"} : Invite(l, u, kind)
    \/ \E l \in Links : ExpireLink(l)
    \/ Purge
    \/ Tick

Spec == Init /\ [][Next]_vars

-----------------------------------------------------------------------------

\* A token that a logout, a reset or a suspension has ended is not honoured at
\* any later time, although it may have been rotated just before, and although
\* a rotation that had read it may write another time of revocation over the
\* one of its end: neither gives it a grace (auth.service l.349).  This is about
\* the tokens there were when the session ended.  The rotation under way goes on
\* to issue a new one, which nothing bars: with it the session outlives its end.
EndedStaysEnded == \A t \in Tokens :
    barred[t] # None /\ barred[t] < now => ~Honoured(t)

\* Nor does a session end by itself: a token that is honoured stays so until its
\* time is over, its session is ended or its user erased.  The purge may not take
\* it (retention l.82), nor a rotation, which leaves it the grace; unless that
\* rotation was longer under way than the grace lasts.
SessionsLast ==
    [][\A t \in Tokens : Honoured(t) /\ now' = now /\ ~Honoured(t)' =>
         \/ barred'[t] = now
         \/ account'[token[t].user] = "erased"
         \/ \E w \in Workers : /\ task[w].pc = "rotate" /\ task[w].token = t
                               /\ now - task[w].at > Grace]_vars

\* A company's link makes one team lead, however many register with it at once;
\* an invitation or a reset link is used again only by requests that opened it
\* before its first use, one for each worker.
LinksAreSingleUse == \A l \in Links :
    link[l].uses <= IF link[l].kind = "company" THEN 1 ELSE Cardinality(Workers)

=============================================================================

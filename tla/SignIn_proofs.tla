---------------------------- MODULE SignIn_proofs ----------------------------
(***************************************************************************)
(* Proofs about SignIn, for any number of users, tokens, links and         *)
(* overlapping requests, and any grace, lifetime and time until the purge. *)
(***************************************************************************)
EXTENDS SignIn, FiniteSetTheorems, TLAPS

-----------------------------------------------------------------------------
(* The invariant: types, whom tasks and links are about, what has become   *)
(* of the tokens of ended sessions, and what links can still do.           *)

\* A link that can be used is somebody's, and so is a task that will make or
\* use one.
Named ==
    /\ \A l \in Links : link[l].kind # "none" => link[l].user \in Users
    /\ \A w \in Workers : task[w].pc \in {"mailLink", "useLink"} => task[w].user \in Users

\* A token whose session was ended has no time left from then on, whatever a
\* rotation writes into it afterwards.
Ended == \A t \in Tokens :
    /\ token[t] = NoToken => barred[t] = None
    /\ barred[t] # None => token[t].user = None \/ token[t].expires <= barred[t]

N == Cardinality(Workers)

\* Workers that have opened the link l and not used it yet.
Openers(l) == {w \in Workers : task[w].pc = "useLink" /\ task[w].link = l}

\* The uses made and those under way stay within the bound.
Uses == \A l \in Links :
    /\ ~link[l].used => link[l].uses = 0
    /\ link[l].kind = "company" => link[l].uses <= 1
    /\ link[l].uses + Cardinality(Openers(l)) <= N

Inv == TypeOK /\ Named /\ Ended /\ Uses

-----------------------------------------------------------------------------
(* Types.                                                                  *)

LEMMA OneWorkerMoves ==
    ASSUME TypeOK, NEW w \in Workers, NEW j \in Tasks, task' = [task EXCEPT ![w] = j]
    PROVE  /\ task' \in [Workers -> Tasks]
           /\ task'[w] = j
           /\ \A v \in Workers \ {w} : task'[v] = task[v]
  BY DEF TypeOK

LEMMA IdleIsTask ==
    ASSUME SignInAssumption
    PROVE  Idle \in Tasks /\ Idle.pc = "idle"
  BY DEF Idle, Tasks, Times, SignInAssumption

LEMMA Rows ==
    ASSUME SignInAssumption
    PROVE  /\ NoToken \in TokenRows /\ NoToken.user = None
           /\ DeletedToken \in TokenRows /\ DeletedToken.user = None /\ DeletedToken # NoToken
           /\ NoLink \in LinkRows /\ NoLink.kind = "none" /\ ~NoLink.used /\ NoLink.uses = 0
           /\ DeletedLink \in LinkRows /\ DeletedLink.kind = "none" /\ DeletedLink.used
           /\ DeletedLink.uses = 0
<1>1. 0 \in Times /\ 0 \in 0..(MaxTime + Lifetime) /\ None # 0
  BY DEF SignInAssumption, Times
<1>2. NoToken \in TokenRows /\ NoToken.user = None /\ NoToken.revoked = None
  BY <1>1 DEF NoToken, TokenRows
<1>3. /\ DeletedToken \in TokenRows /\ DeletedToken.user = None
      /\ DeletedToken.revoked = 0
  BY <1>1 DEF NoToken, DeletedToken, TokenRows
<1>4. /\ NoLink \in LinkRows /\ NoLink.kind = "none" /\ ~NoLink.used /\ NoLink.uses = 0
      /\ DeletedLink \in LinkRows /\ DeletedLink.kind = "none" /\ DeletedLink.used
      /\ DeletedLink.uses = 0
  BY DEF NoLink, DeletedLink, LinkRows
<1>. QED  BY <1>1, <1>2, <1>3, <1>4

\* What ending the sessions of u makes of a token.
LEMMA Closed ==
    ASSUME SignInAssumption, TypeOK, NEW u \in Users, NEW t \in Tokens
    PROVE  /\ EndSessions(u)[t] \in TokenRows
           /\ EndSessions(u)[t].user = token[t].user
           /\ t \notin TokensOf(u) => EndSessions(u)[t] = token[t]
           /\ t \in TokensOf(u) => EndSessions(u)[t].expires <= now
           /\ EndSessions(u)[t] = NoToken => token[t] = NoToken
<1>1. token[t] \in TokenRows /\ now \in Times /\ u # None
  BY DEF TypeOK, SignInAssumption
<1>2. CASE t \in TokensOf(u) /\ token[t].expires > now
  <2>1. EndSessions(u)[t] = [token[t] EXCEPT !.revoked = now, !.expires = now]
    BY <1>2 DEF EndSessions
  <2>2. token[t].user = u
    BY <1>2 DEF TokensOf
  <2>3. now \in 0..(MaxTime + Lifetime) /\ now <= now
    BY <1>1 DEF Times, SignInAssumption
  <2>4. /\ EndSessions(u)[t] \in TokenRows /\ EndSessions(u)[t].user = u
        /\ EndSessions(u)[t].expires = now
    BY <1>1, <2>1, <2>2, <2>3 DEF TokenRows
  <2>. QED  BY <1>1, <1>2, <2>2, <2>3, <2>4, Rows
<1>3. CASE t \in TokensOf(u) /\ ~(token[t].expires > now)
  <2>1. EndSessions(u)[t] = token[t]
    BY <1>3 DEF EndSessions
  <2>. QED  BY <1>1, <1>3, <2>1 DEF TokenRows, Times, SignInAssumption
<1>4. CASE t \notin TokensOf(u)
  BY <1>1, <1>4 DEF EndSessions
<1>. QED  BY <1>2, <1>3, <1>4

\* What a use makes of the links.
LEMMA SpentRows ==
    ASSUME TypeOK, NEW k
    PROVE  /\ Spent(k) \in [Links -> LinkRows]
           /\ \A l \in Links : l # k => Spent(k)[l] = link[l]
           /\ k \in Links => /\ Spent(k)[k].kind = link[k].kind
                             /\ Spent(k)[k].user = link[k].user
                             /\ Spent(k)[k].used
                             /\ Spent(k)[k].uses = link[k].uses + 1
<1> DEFINE row(l) == [link[l] EXCEPT !.used = TRUE, !.uses = @ + 1]
<1>1. ASSUME NEW l \in Links
      PROVE  /\ row(l) \in LinkRows /\ row(l).kind = link[l].kind
             /\ row(l).user = link[l].user /\ row(l).used /\ row(l).uses = link[l].uses + 1
  <2>1. link[l] \in LinkRows
    BY DEF TypeOK
  <2>2. link[l].uses + 1 \in Nat
    BY <2>1 DEF LinkRows
  <2>. QED  BY <2>1, <2>2 DEF LinkRows
<1>2. k \in Links => Spent(k) = [link EXCEPT ![k] = row(k)]
  BY DEF TypeOK, LinkRows, Spent
<1>3. k \notin Links => Spent(k) = link
  BY DEF TypeOK, Spent
<1> HIDE DEF row
<1>. QED  BY <1>1, <1>2, <1>3 DEF TypeOK

\* Only the new token is left to make.
LEMMA IssuingIsTask ==
    ASSUME SignInAssumption, NEW u \in Users \cup {None}
    PROVE  Issuing(u) \in Tasks /\ Issuing(u).pc = "issue"
  BY IdleIsTask DEF Idle, Issuing, Tasks

LEMMA RequestTypes ==
    ASSUME SignInAssumption, TypeOK, NEW w \in Workers, Request(w)
    PROVE  TypeOK'
<1>1. ASSUME NEW t \in Tokens, Refresh(w, t) PROVE TypeOK'
  <2> DEFINE j == IF token[t].revoked # None THEN Issuing(token[t].user)
                  ELSE [Idle EXCEPT !.pc = "rotate", !.user = token[t].user, !.token = t,
                                    !.at = now, !.refused = account[token[t].user] # "active"]
  <2>1. task' = [task EXCEPT ![w] = j] /\ UNCHANGED <<now, account, token, link, barred>>
    BY <1>1 DEF Refresh, Start
  <2>2. j \in Tasks
    BY IssuingIsTask DEF Tasks, Idle, TypeOK, TokenRows
  <2> HIDE DEF j
  <2>. QED  BY <2>1, <2>2, OneWorkerMoves DEF TypeOK
<1>2. ASSUME NEW u \in Users, Login(w, u) \/ AdminLogin(w, u) PROVE TypeOK'
  BY <1>2, IssuingIsTask, OneWorkerMoves DEF Login, AdminLogin, Start, TypeOK
<1>3. ASSUME NEW u \in Users, RequestReset(w, u) PROVE TypeOK'
  <2> DEFINE j == [Idle EXCEPT !.pc = "mailLink", !.user = u]
  <2>1. /\ task' = [task EXCEPT ![w] = j] /\ UNCHANGED <<now, account, token, barred>>
        /\ link' = [l \in Links |-> IF link[l].user = u /\ link[l].kind = "reset"
                                    THEN [link[l] EXCEPT !.used = TRUE] ELSE link[l]]
    BY <1>3 DEF RequestReset, Start
  <2>2. j \in Tasks
    BY IdleIsTask DEF Tasks
  <2> HIDE DEF j
  <2>3. \A l \in Links : link[l] \in LinkRows /\ [link[l] EXCEPT !.used = TRUE] \in LinkRows
    BY DEF TypeOK, LinkRows
  <2>4. link' \in [Links -> LinkRows]
    BY <2>1, <2>3
  <2>. QED  BY <2>1, <2>2, <2>4, OneWorkerMoves DEF TypeOK
<1>4. ASSUME NEW l \in Links, OpenLink(w, l) PROVE TypeOK'
  <2> DEFINE j == [Idle EXCEPT !.pc = "useLink", !.user = link[l].user, !.link = l]
  <2>1. task' = [task EXCEPT ![w] = j] /\ UNCHANGED <<now, account, token, link, barred>>
    BY <1>4 DEF OpenLink, Start
  <2>2. j \in Tasks
    BY IdleIsTask DEF Tasks, TypeOK, LinkRows
  <2> HIDE DEF j
  <2>. QED  BY <2>1, <2>2, OneWorkerMoves DEF TypeOK
<1>. QED  BY <1>1, <1>2, <1>3, <1>4 DEF Request

LEMMA StatementTypes ==
    ASSUME SignInAssumption, TypeOK, Named, NEW w \in Workers, Statement(w)
    PROVE  TypeOK'
<1>0. PICK i \in Tasks : task[w] = i
  BY DEF TypeOK
<1>1. ASSUME Goto(w, Issuing(i.user)) PROVE task' \in [Workers -> Tasks]
  BY <1>1, IssuingIsTask DEF Goto, TypeOK, Tasks
<1>2. ASSUME Return(w) PROVE task' \in [Workers -> Tasks]
  BY <1>2, IdleIsTask DEF Return, TypeOK
<1>3. ASSUME Rotate(w) PROVE TypeOK'
  <2>1. /\ UNCHANGED <<now, account, link, barred>>
        /\ token' = token \/ token' = [token EXCEPT ![i.token].revoked = i.at]
        /\ Goto(w, Issuing(i.user)) \/ Return(w)
    BY <1>0, <1>3 DEF Rotate
  <2>2. token' \in [Tokens -> TokenRows]
    BY <2>1 DEF TypeOK, Tasks, TokenRows
  <2>. QED  BY <1>1, <1>2, <2>1, <2>2 DEF TypeOK
<1>4. ASSUME NEW t \in Tokens, Issue(w, t) PROVE TypeOK'
  <2>1. /\ UNCHANGED <<now, account, link, barred>> /\ Return(w)
        /\ token' = [token EXCEPT ![t] = [user |-> i.user, revoked |-> None,
                                          expires |-> now + Lifetime]]
    BY <1>0, <1>4 DEF Issue
  <2>2. now + Lifetime \in 0..(MaxTime + Lifetime)
    BY DEF TypeOK, Times, SignInAssumption
  <2>3. token' \in [Tokens -> TokenRows]
    BY <2>1, <2>2 DEF TypeOK, Tasks, TokenRows
  <2>. QED  BY <1>2, <2>1, <2>3 DEF TypeOK
<1>5. ASSUME NEW l \in Links, MailLink(w, l) PROVE TypeOK'
  <2>1. /\ UNCHANGED <<now, account, token, barred>> /\ Return(w)
        /\ link' = [link EXCEPT ![l] = [NoLink EXCEPT !.kind = "reset", !.user = i.user]]
    BY <1>0, <1>5 DEF MailLink
  <2>2. link' \in [Links -> LinkRows]
    BY <2>1 DEF TypeOK, Tasks, NoLink, LinkRows
  <2>. QED  BY <1>2, <2>1, <2>2 DEF TypeOK
<1>6. Spent(i.link) \in [Links -> LinkRows]
  BY SpentRows
<1>7. ASSUME ResetPassword(w) PROVE TypeOK'
  <2>1. /\ UNCHANGED <<now, account>> /\ Return(w) /\ i.pc = "useLink"
        /\ \/ UNCHANGED <<link, token, barred>>
           \/ link' = Spent(i.link) /\ token' = EndSessions(i.user) /\ Bar(TokensOf(i.user))
    BY <1>0, <1>7 DEF ResetPassword
  <2>2. i.user \in Users
    BY <1>0, <2>1 DEF Named
  <2>3. CASE UNCHANGED <<link, token, barred>>
    BY <1>2, <2>1, <2>3 DEF TypeOK
  <2>4. CASE link' = Spent(i.link) /\ token' = EndSessions(i.user) /\ Bar(TokensOf(i.user))
    <3>1. token' \in [Tokens -> TokenRows]
      BY <2>2, <2>4, Closed DEF EndSessions
    <3>2. barred' \in [Tokens -> Times \cup {None}]
      BY <2>4 DEF Bar, TypeOK
    <3>. QED  BY <1>2, <1>6, <2>1, <2>4, <3>1, <3>2 DEF TypeOK
  <2>. QED  BY <2>1, <2>3, <2>4
<1>8. ASSUME RegisterInvited(w) PROVE TypeOK'
  BY <1>0, <1>1, <1>6, <1>8 DEF RegisterInvited, TypeOK
<1>9. ASSUME RegisterLead(w) PROVE TypeOK'
  <2>1. /\ UNCHANGED <<now, token, barred>>
        /\ \/ Return(w) /\ UNCHANGED <<link, account>>
           \/ /\ link' = Spent(i.link) /\ account' = [account EXCEPT ![i.user] = "active"]
              /\ Goto(w, Issuing(i.user))
    BY <1>0, <1>9 DEF RegisterLead
  <2>. QED  BY <1>1, <1>2, <1>6, <2>1 DEF TypeOK
<1>10. ASSUME Die(w) PROVE TypeOK'
  BY <1>2, <1>10 DEF Die, TypeOK
<1>. QED  BY <1>3, <1>4, <1>5, <1>7, <1>8, <1>9, <1>10 DEF Statement

LEMMA AroundTypes ==
    ASSUME SignInAssumption, TypeOK,
           \/ \E t \in Tokens : Logout(t)
           \/ \E u \in Users : Deactivate(u) \/ Activate(u) \/ Erase(u)
           \/ \E l \in Links, u \in Users, kind \in {"invite", "company"} : Invite(l, u, kind)
           \/ \E l \in Links : ExpireLink(l)
           \/ Purge \/ Tick
    PROVE  TypeOK'
<1>1. ASSUME NEW t \in Tokens, Logout(t) PROVE TypeOK'
  <2>1. now \in 0..(MaxTime + Lifetime)
    BY DEF TypeOK, Times, SignInAssumption
  <2>. QED  BY <1>1, <2>1 DEF Logout, Bar, TypeOK, TokenRows
<1>2. ASSUME NEW u \in Users, Deactivate(u) PROVE TypeOK'
  <2>1. token' \in [Tokens -> TokenRows]
    BY <1>2, Closed DEF Deactivate, EndSessions
  <2>. QED  BY <1>2, <2>1 DEF Deactivate, Bar, TypeOK
<1>3. ASSUME NEW u \in Users, Activate(u) PROVE TypeOK'
  BY <1>3 DEF Activate, TypeOK
<1>4. ASSUME NEW u \in Users, Erase(u) PROVE TypeOK'
  <2>1. link' \in [Links -> LinkRows]
    <3>1. ASSUME NEW l \in Links PROVE [link[l] EXCEPT !.used = TRUE] \in LinkRows
      BY DEF TypeOK, LinkRows
    <3>. QED  BY <1>4, <3>1, Rows DEF Erase, TypeOK
  <2>2. token' \in [Tokens -> TokenRows]
    BY <1>4, Rows DEF Erase, TypeOK
  <2>. QED  BY <1>4, <2>1, <2>2 DEF Erase, TypeOK
<1>5. ASSUME NEW l \in Links, NEW u \in Users, NEW kind \in {"invite", "company"},
             Invite(l, u, kind)
      PROVE  TypeOK'
  <2>1. [NoLink EXCEPT !.kind = kind, !.user = u] \in LinkRows
    BY DEF NoLink, LinkRows
  <2>. QED  BY <1>5, <2>1 DEF Invite, TypeOK
<1>6. ASSUME NEW l \in Links, ExpireLink(l) PROVE TypeOK'
  <2>1. link' \in [Links -> LinkRows]
    BY <1>6 DEF ExpireLink, TypeOK, LinkRows
  <2>. QED  BY <1>6, <2>1 DEF ExpireLink, TypeOK
<1>7. CASE Purge
  BY <1>7, Rows DEF Purge, TypeOK
<1>8. CASE Tick
  BY <1>8 DEF Tick, TypeOK, Times, SignInAssumption
<1>. QED  BY <1>1, <1>2, <1>3, <1>4, <1>5, <1>6, <1>7, <1>8


-----------------------------------------------------------------------------
(* Ended sessions.                                                         *)

\* The same tokens, barred at the same times.
LEMMA EndedStays ==
    ASSUME Ended, UNCHANGED <<token, barred>>
    PROVE  Ended'
  BY DEF Ended

\* Ending the sessions of a user bars them all, and leaves them no time.
LEMMA EndedByUser ==
    ASSUME SignInAssumption, TypeOK, Ended, NEW u \in Users,
           token' = EndSessions(u), Bar(TokensOf(u))
    PROVE  Ended'
<1>. SUFFICES ASSUME NEW t \in Tokens
              PROVE  /\ token'[t] = NoToken => barred'[t] = None
                     /\ barred'[t] # None =>
                          token'[t].user = None \/ token'[t].expires <= barred'[t]
  BY DEF Ended
<1>1. CASE t \in TokensOf(u)
  <2>1. barred'[t] = now /\ token[t].user = u /\ u # None
    BY <1>1 DEF Bar, TokensOf, SignInAssumption
  <2>2. token'[t] # NoToken /\ token'[t].expires <= now
    BY <1>1, <2>1, Closed, Rows
  <2>. QED  BY <2>1, <2>2
<1>2. CASE t \notin TokensOf(u)
  BY <1>2, Closed DEF Bar, Ended
<1>. QED  BY <1>1, <1>2

LEMMA EndedStep ==
    ASSUME SignInAssumption, Inv, Next
    PROVE  Ended'
<1>1. TypeOK /\ Named /\ Ended
  BY DEF Inv
<1>2. ASSUME NEW w \in Workers, Request(w) PROVE Ended'
  <2>1. UNCHANGED <<token, barred>>
    BY <1>2 DEF Request, Refresh, Login, AdminLogin, RequestReset, OpenLink
  <2>. QED  BY <1>1, <2>1, EndedStays
<1>3. ASSUME NEW w \in Workers, Rotate(w) PROVE Ended'
  <2>0. PICK i \in Tasks : task[w] = i
    BY <1>1 DEF TypeOK
  <2>1. /\ UNCHANGED barred
        /\ token' = token \/ token' = [token EXCEPT ![i.token].revoked = i.at]
    BY <1>3, <2>0 DEF Rotate
  <2>2. ASSUME NEW t \in Tokens
        PROVE  /\ token'[t].user = token[t].user /\ token'[t].expires = token[t].expires
               /\ token'[t] = NoToken => token[t] = NoToken
    <3>1. i.at # None
      BY DEF Tasks, SignInAssumption, Times
    <3>2. NoToken.revoked = None
      BY DEF NoToken
    <3>. QED  BY <1>1, <2>1, <3>1, <3>2 DEF TypeOK, TokenRows
  <2>. QED  BY <1>1, <2>1, <2>2 DEF Ended
<1>4. ASSUME NEW w \in Workers, NEW t \in Tokens, Issue(w, t) PROVE Ended'
  <2>1. /\ UNCHANGED barred /\ token[t] = NoToken
        /\ \A s \in Tokens \ {t} : token'[s] = token[s]
    BY <1>1, <1>4 DEF Issue, TypeOK
  <2>. QED  BY <1>1, <2>1 DEF Ended
<1>5. ASSUME NEW w \in Workers, ResetPassword(w) PROVE Ended'
  <2>1. \/ UNCHANGED <<token, barred>>
        \/ /\ token' = EndSessions(task[w].user) /\ Bar(TokensOf(task[w].user))
           /\ task[w].user \in Users
    BY <1>1, <1>5 DEF ResetPassword, Named
  <2>. QED  BY <1>1, <2>1, EndedStays, EndedByUser
<1>6. ASSUME NEW w \in Workers,
             \/ \E l \in Links : MailLink(w, l)
             \/ RegisterInvited(w) \/ RegisterLead(w) \/ Die(w)
      PROVE  Ended'
  <2>1. UNCHANGED <<token, barred>>
    BY <1>6 DEF MailLink, RegisterInvited, RegisterLead, Die
  <2>. QED  BY <1>1, <2>1, EndedStays
<1>7. ASSUME NEW t \in Tokens, Logout(t) PROVE Ended'
  <2>1. /\ token' = [token EXCEPT ![t].revoked = now, ![t].expires = now]
        /\ barred' = [s \in Tokens |-> IF s \in {t} THEN now ELSE barred[s]]
        /\ token[t].user # None
    BY <1>7 DEF Logout, Bar
  <2>2. token'[t].user # None /\ token'[t].expires = now /\ barred'[t] = now
    BY <1>1, <2>1 DEF TypeOK, TokenRows
  <2>3. token'[t] # NoToken /\ now <= now
    BY <1>1, <2>2, Rows DEF TypeOK, Times, SignInAssumption
  <2>4. \A s \in Tokens \ {t} : token'[s] = token[s] /\ barred'[s] = barred[s]
    BY <1>1, <2>1 DEF TypeOK
  <2>5. ASSUME NEW s \in Tokens
        PROVE  /\ token'[s] = NoToken => barred'[s] = None
               /\ barred'[s] # None =>
                    token'[s].user = None \/ token'[s].expires <= barred'[s]
    BY <1>1, <2>2, <2>3, <2>4 DEF Ended
  <2>. QED  BY <2>5 DEF Ended
<1>8. ASSUME NEW u \in Users, Deactivate(u) PROVE Ended'
  BY <1>1, <1>8, EndedByUser DEF Deactivate
<1>9. ASSUME NEW u \in Users, Erase(u) PROVE Ended'
  <2>1. \A t \in Tokens : \/ token'[t] = DeletedToken
                          \/ token'[t] = token[t] /\ barred'[t] = barred[t]
    BY <1>9 DEF Erase
  <2>. QED  BY <1>1, <2>1, Rows DEF Ended
<1>10. CASE Purge
  <2>1. barred' = barred /\ \A t \in Tokens : token'[t] = DeletedToken \/ token'[t] = token[t]
    BY <1>10 DEF Purge
  <2>. QED  BY <1>1, <2>1, Rows DEF Ended
<1>11. ASSUME \/ \E u \in Users : Activate(u)
              \/ \E l \in Links, u \in Users, kind \in {"invite", "company"} : Invite(l, u, kind)
              \/ \E l \in Links : ExpireLink(l)
              \/ Tick
       PROVE  Ended'
  <2>1. UNCHANGED <<token, barred>>
    BY <1>11 DEF Activate, Invite, ExpireLink, Tick
  <2>. QED  BY <1>1, <2>1, EndedStays
<1>. QED  BY <1>2, <1>3, <1>4, <1>5, <1>6, <1>7, <1>8, <1>9, <1>10, <1>11
          DEF Next, Statement

-----------------------------------------------------------------------------
(* Whom links and tasks are about.                                         *)

LEMMA NamedStep ==
    ASSUME SignInAssumption, Inv, Next
    PROVE  Named'
<1>1. TypeOK /\ Named
  BY DEF Inv
<1> DEFINE LinksNamed == \A l \in Links : link[l].kind # "none" => link[l].user \in Users
           TasksNamed == \A w \in Workers :
                           task[w].pc \in {"mailLink", "useLink"} => task[w].user \in Users
<1>2. ASSUME UNCHANGED link PROVE LinksNamed'
  BY <1>1, <1>2 DEF Named
<1>3. ASSUME UNCHANGED task PROVE TasksNamed'
  BY <1>1, <1>3 DEF Named
<1>4. ASSUME NEW w \in Workers, NEW j \in Tasks, task' = [task EXCEPT ![w] = j],
             j.pc \in {"mailLink", "useLink"} => j.user \in Users
      PROVE  TasksNamed'
  BY <1>1, <1>4, OneWorkerMoves DEF Named
<1>5. ASSUME NEW w \in Workers, Return(w) PROVE TasksNamed'
  BY <1>4, <1>5, IdleIsTask DEF Return
<1>6. ASSUME NEW w \in Workers, Goto(w, Issuing(task[w].user)) PROVE TasksNamed'
  <2>1. task[w].user \in Users \cup {None}
    BY <1>1 DEF TypeOK, Tasks
  <2>. QED  BY <1>4, <1>6, <2>1, IssuingIsTask DEF Goto
<1>7. ASSUME NEW k, link' = Spent(k) PROVE LinksNamed'
  BY <1>1, <1>7, SpentRows DEF Named
<1>8. ASSUME NEW w \in Workers, Request(w) PROVE Named'
  <2>1. ASSUME NEW t \in Tokens, Refresh(w, t) PROVE Named'
    <3> DEFINE j == IF token[t].revoked # None THEN Issuing(token[t].user)
                    ELSE [Idle EXCEPT !.pc = "rotate", !.user = token[t].user, !.token = t,
                                      !.at = now, !.refused = account[token[t].user] # "active"]
    <3>1. task' = [task EXCEPT ![w] = j] /\ UNCHANGED link
      BY <2>1 DEF Refresh, Start
    <3>2. j.pc \in {"rotate", "issue"} /\ j \in Tasks
      BY <1>1, IdleIsTask, IssuingIsTask DEF Idle, Tasks, TypeOK, TokenRows
    <3> HIDE DEF j
    <3>. QED  BY <1>2, <1>4, <3>1, <3>2 DEF Named
  <2>2. ASSUME NEW u \in Users, Login(w, u) \/ AdminLogin(w, u) PROVE Named'
    BY <1>2, <1>4, <2>2, IssuingIsTask DEF Login, AdminLogin, Start, Named
  <2>3. ASSUME NEW u \in Users, RequestReset(w, u) PROVE Named'
    <3>1. /\ [Idle EXCEPT !.pc = "mailLink", !.user = u] \in Tasks
          /\ [Idle EXCEPT !.pc = "mailLink", !.user = u].user = u
      BY IdleIsTask DEF Tasks
    <3>2. TasksNamed'
      BY <1>4, <2>3, <3>1 DEF RequestReset, Start
    <3>3. \A l \in Links : link'[l].kind = link[l].kind /\ link'[l].user = link[l].user
      BY <1>1, <2>3 DEF RequestReset, TypeOK, LinkRows
    <3>. QED  BY <1>1, <3>2, <3>3 DEF Named
  <2>4. ASSUME NEW l \in Links, OpenLink(w, l) PROVE Named'
    <3>1. link[l].user \in Users
      BY <1>1, <2>4 DEF OpenLink, Named
    <3>2. /\ [Idle EXCEPT !.pc = "useLink", !.user = link[l].user, !.link = l] \in Tasks
          /\ [Idle EXCEPT !.pc = "useLink", !.user = link[l].user, !.link = l].user \in Users
      BY <3>1, IdleIsTask DEF Tasks
    <3>. QED  BY <1>2, <1>4, <2>4, <3>2 DEF OpenLink, Start, Named
  <2>. QED  BY <1>8, <2>1, <2>2, <2>3, <2>4 DEF Request
<1>9. ASSUME NEW w \in Workers, Statement(w) PROVE Named'
  <2>1. ASSUME Rotate(w) \/ (\E t \in Tokens : Issue(w, t)) \/ Die(w) PROVE Named'
    BY <1>2, <1>5, <1>6, <2>1 DEF Rotate, Issue, Die, Named
  <2>2. ASSUME NEW l \in Links, MailLink(w, l) PROVE Named'
    <3>1. task[w].user \in Users
      BY <1>1, <2>2 DEF MailLink, Named
    <3>2. /\ link' = [link EXCEPT ![l] = [NoLink EXCEPT !.kind = "reset", !.user = task[w].user]]
          /\ Return(w)
      BY <2>2 DEF MailLink
    <3>3. LinksNamed'
      BY <1>1, <3>1, <3>2 DEF NoLink, Named, TypeOK
    <3>. QED  BY <1>5, <3>2, <3>3 DEF Named
  <2>3. ASSUME ResetPassword(w) \/ RegisterInvited(w) \/ RegisterLead(w) PROVE Named'
    BY <1>2, <1>5, <1>6, <1>7, <2>3 DEF ResetPassword, RegisterInvited, RegisterLead, Named
  <2>. QED  BY <1>9, <2>1, <2>2, <2>3 DEF Statement
<1>10. ASSUME \/ \E t \in Tokens : Logout(t)
              \/ \E u \in Users : Deactivate(u) \/ Activate(u)
              \/ Purge \/ Tick
       PROVE  Named'
  BY <1>2, <1>3, <1>10 DEF Logout, Deactivate, Activate, Purge, Tick, Named
<1>11. ASSUME NEW u \in Users, Erase(u) PROVE Named'
  <2>1. \A l \in Links : \/ link'[l] = DeletedLink
                         \/ link'[l].kind = link[l].kind /\ link'[l].user = link[l].user
    BY <1>1, <1>11 DEF Erase, TypeOK, LinkRows
  <2>2. LinksNamed'
    BY <1>1, <2>1, Rows DEF Named
  <2>. QED  BY <1>3, <1>11, <2>2 DEF Erase, Named
<1>12. ASSUME NEW l \in Links, NEW u \in Users, NEW kind \in {"invite", "company"},
              Invite(l, u, kind)
       PROVE  Named'
  <2>1. LinksNamed'
    BY <1>1, <1>12 DEF Invite, NoLink, Named, TypeOK
  <2>. QED  BY <1>3, <1>12, <2>1 DEF Invite, Named
<1>13. ASSUME NEW l \in Links, ExpireLink(l) PROVE Named'
  <2>1. \A k \in Links : link'[k].kind = link[k].kind /\ link'[k].user = link[k].user
    BY <1>1, <1>13 DEF ExpireLink, TypeOK, LinkRows
  <2>. QED  BY <1>1, <1>3, <1>13, <2>1 DEF ExpireLink, Named
<1>. QED  BY <1>8, <1>9, <1>10, <1>11, <1>12, <1>13 DEF Next


-----------------------------------------------------------------------------
(* Uses of links.                                                          *)

LEMMA CountOpeners ==
    ASSUME SignInAssumption, NEW S \in SUBSET Workers
    PROVE  IsFiniteSet(S) /\ Cardinality(S) \in Nat /\ Cardinality(S) <= N /\ N \in Nat
<1>1. IsFiniteSet(Workers)
  BY DEF SignInAssumption
<1>2. IsFiniteSet(S) /\ Cardinality(S) <= Cardinality(Workers)
  BY <1>1, FS_Subset
<1>. QED  BY <1>1, <1>2, FS_CardinalityType DEF N

\* Nobody has opened a link anew, and none was used, except once by the worker
\* that had opened it.
LEMMA FewerUses ==
    ASSUME SignInAssumption, TypeOK, Uses, NEW l \in Links,
           Openers(l)' \subseteq Openers(l),
           link'[l].uses = link[l].uses
             \/ (link'[l].uses = link[l].uses + 1 /\ Openers(l)' # Openers(l))
             \/ link'[l].uses = 0
    PROVE  link'[l].uses + Cardinality(Openers(l)') <= N
<1>1. /\ link[l].uses \in Nat
      /\ link[l].uses + Cardinality(Openers(l)) <= N
  BY DEF TypeOK, LinkRows, Uses
<1>2. Openers(l) \in SUBSET Workers /\ Openers(l)' \in SUBSET Workers
  BY DEF Openers
<1>3. /\ IsFiniteSet(Openers(l))
      /\ Cardinality(Openers(l)) \in Nat /\ Cardinality(Openers(l)') \in Nat
      /\ Cardinality(Openers(l)') <= N /\ N \in Nat
  BY <1>2, CountOpeners
<1>4. Cardinality(Openers(l)') <= Cardinality(Openers(l))
  BY <1>3, FS_Subset
<1>5. CASE Openers(l)' # Openers(l)
  <2>1. PICK w \in Openers(l) : w \notin Openers(l)'
    BY <1>5
  <2>2. /\ IsFiniteSet(Openers(l) \ {w})
        /\ Cardinality(Openers(l) \ {w}) = Cardinality(Openers(l)) - 1
    BY <1>3, <2>1, FS_RemoveElement
  <2>3. Cardinality(Openers(l)') <= Cardinality(Openers(l) \ {w})
    BY <2>1, <2>2, FS_Subset
  <2>. QED  BY <1>1, <1>3, <2>2, <2>3
<1>6. CASE Openers(l)' = Openers(l)
  BY <1>1, <1>3, <1>4, <1>6
<1>. QED  BY <1>5, <1>6

\* A step that opens no link and uses none.
LEMMA UsesStay ==
    ASSUME SignInAssumption, TypeOK, Uses,
           \A l \in Links :
              /\ Openers(l)' \subseteq Openers(l)
              /\ \/ /\ link'[l].used = link[l].used \/ link'[l].used
                    /\ link'[l].uses = link[l].uses /\ link'[l].kind = link[l].kind
                 \/ link'[l].uses = 0
    PROVE  Uses'
<1>. SUFFICES ASSUME NEW l \in Links
              PROVE  /\ ~link'[l].used => link'[l].uses = 0
                     /\ link'[l].kind = "company" => link'[l].uses <= 1
                     /\ link'[l].uses + Cardinality(Openers(l)') <= N
  BY DEF Uses, N
<1>1. link'[l].uses + Cardinality(Openers(l)') <= N
  BY FewerUses
<1>. QED  BY <1>1 DEF Uses

\* The worker that had opened the link k uses it; a company's only the first time.
LEMMA UseStep ==
    ASSUME SignInAssumption, TypeOK, Uses, NEW w \in Workers,
           task[w].pc = "useLink", NEW j \in Tasks, j.pc # "useLink",
           task' = [task EXCEPT ![w] = j], link' = Spent(task[w].link),
           task[w].link \in Links /\ link[task[w].link].kind = "company"
             => ~link[task[w].link].used
    PROVE  Uses'
<1>. SUFFICES ASSUME NEW l \in Links
              PROVE  /\ ~link'[l].used => link'[l].uses = 0
                     /\ link'[l].kind = "company" => link'[l].uses <= 1
                     /\ link'[l].uses + Cardinality(Openers(l)') <= N
  BY DEF Uses, N
<1>1. /\ task'[w] = j
      /\ \A v \in Workers \ {w} : task'[v] = task[v]
  BY OneWorkerMoves
<1>2. Openers(l)' \subseteq Openers(l) /\ w \notin Openers(l)'
  BY <1>1 DEF Openers
<1>3. CASE l = task[w].link
  <2>1. w \in Openers(l)
    BY <1>3 DEF Openers
  <2>2. /\ link'[l].uses = link[l].uses + 1 /\ link'[l].used
        /\ link'[l].kind = link[l].kind
    BY <1>3, SpentRows
  <2>3. link'[l].uses + Cardinality(Openers(l)') <= N
    BY <1>2, <2>1, <2>2, FewerUses
  <2>. QED  BY <1>3, <2>2, <2>3 DEF Uses
<1>4. CASE l # task[w].link
  <2>1. link'[l] = link[l]
    BY <1>4, SpentRows
  <2>2. link'[l].uses + Cardinality(Openers(l)') <= N
    BY <1>2, <2>1, FewerUses
  <2>. QED  BY <2>1, <2>2 DEF Uses
<1>. QED  BY <1>3, <1>4

LEMMA UsesStep ==
    ASSUME SignInAssumption, Inv, Next
    PROVE  Uses'
<1>1. TypeOK /\ Uses
  BY DEF Inv
<1>2. ASSUME NEW w \in Workers, NEW j \in Tasks, task' = [task EXCEPT ![w] = j],
             j.pc # "useLink", NEW l \in Links
      PROVE  Openers(l)' \subseteq Openers(l)
  BY <1>1, <1>2, OneWorkerMoves DEF Openers
<1>3. ASSUME NEW w \in Workers, Return(w)
      PROVE  Idle \in Tasks /\ Idle.pc # "useLink" /\ task' = [task EXCEPT ![w] = Idle]
  BY <1>3, IdleIsTask DEF Return
<1>4. ASSUME NEW w \in Workers, Goto(w, Issuing(task[w].user))
      PROVE  \E j \in Tasks : j.pc = "issue" /\ task' = [task EXCEPT ![w] = j]
  <2>1. task[w].user \in Users \cup {None}
    BY <1>1 DEF TypeOK, Tasks
  <2>. QED  BY <1>4, <2>1, IssuingIsTask DEF Goto
<1>5. ASSUME UNCHANGED task, NEW l \in Links PROVE Openers(l)' \subseteq Openers(l)
  BY <1>5 DEF Openers
<1>6. ASSUME NEW w \in Workers, NEW t \in Tokens, Refresh(w, t) PROVE Uses'
  <2> DEFINE j == IF token[t].revoked # None THEN Issuing(token[t].user)
                  ELSE [Idle EXCEPT !.pc = "rotate", !.user = token[t].user, !.token = t,
                                    !.at = now, !.refused = account[token[t].user] # "active"]
  <2>1. task' = [task EXCEPT ![w] = j] /\ UNCHANGED link
    BY <1>6 DEF Refresh, Start
  <2>2. j.pc # "useLink" /\ j \in Tasks
    BY <1>1, IdleIsTask, IssuingIsTask DEF Idle, Tasks, TypeOK, TokenRows
  <2> HIDE DEF j
  <2>. QED  BY <1>1, <1>2, <2>1, <2>2, UsesStay
<1>7. ASSUME NEW w \in Workers, NEW u \in Users, Login(w, u) \/ AdminLogin(w, u) PROVE Uses'
  <2>1. task' = [task EXCEPT ![w] = Issuing(u)] /\ UNCHANGED link
    BY <1>7 DEF Login, AdminLogin, Start
  <2>. QED  BY <1>1, <1>2, <2>1, IssuingIsTask, UsesStay
<1>8. ASSUME NEW w \in Workers, NEW u \in Users, RequestReset(w, u) PROVE Uses'
  <2> DEFINE j == [Idle EXCEPT !.pc = "mailLink", !.user = u]
  <2>1. task' = [task EXCEPT ![w] = j]
    BY <1>8 DEF RequestReset, Start
  <2>2. j.pc # "useLink" /\ j \in Tasks
    BY IdleIsTask DEF Tasks
  <2> HIDE DEF j
  <2>3. \A l \in Links : /\ link'[l].used = link[l].used \/ link'[l].used
                         /\ link'[l].uses = link[l].uses /\ link'[l].kind = link[l].kind
    BY <1>1, <1>8 DEF RequestReset, TypeOK, LinkRows
  <2>. QED  BY <1>1, <1>2, <2>1, <2>2, <2>3, UsesStay
<1>9. ASSUME NEW w \in Workers, NEW k \in Links, OpenLink(w, k) PROVE Uses'
  <2> DEFINE j == [Idle EXCEPT !.pc = "useLink", !.user = link[k].user, !.link = k]
  <2>1. task' = [task EXCEPT ![w] = j] /\ UNCHANGED link /\ ~link[k].used
    BY <1>9 DEF OpenLink, Start
  <2>2. j.link = k /\ j \in Tasks
    BY <1>1, IdleIsTask DEF Tasks, TypeOK, LinkRows
  <2> HIDE DEF j
  <2>3. task'[w] = j /\ \A v \in Workers \ {w} : task'[v] = task[v]
    BY <1>1, <2>1, <2>2, OneWorkerMoves
  <2>4. ASSUME NEW l \in Links PROVE link'[l].uses + Cardinality(Openers(l)') <= N
    <3>1. CASE l = k
      <4>1. link'[l].uses = 0
        BY <1>1, <2>1, <3>1 DEF Uses
      <4>2. Openers(l)' \in SUBSET Workers
        BY DEF Openers
      <4>3. Cardinality(Openers(l)') <= N /\ Cardinality(Openers(l)') \in Nat /\ N \in Nat
        BY <4>2, CountOpeners
      <4>. QED  BY <4>1, <4>3
    <3>2. CASE l # k
      <4>1. Openers(l)' \subseteq Openers(l)
        BY <2>2, <2>3, <3>2 DEF Openers
      <4>. QED  BY <1>1, <2>1, <4>1, FewerUses
    <3>. QED  BY <3>1, <3>2
  <2>. QED  BY <1>1, <2>1, <2>4 DEF Uses, N
<1>10. ASSUME NEW w \in Workers,
              Rotate(w) \/ (\E t \in Tokens : Issue(w, t)) \/ Die(w)
       PROVE  Uses'
  <2>1. UNCHANGED link /\ (Goto(w, Issuing(task[w].user)) \/ Return(w))
    BY <1>10 DEF Rotate, Issue, Die
  <2>2. \A l \in Links : Openers(l)' \subseteq Openers(l)
    BY <1>2, <1>3, <1>4, <2>1
  <2>. QED  BY <1>1, <2>1, <2>2, UsesStay
<1>11. ASSUME NEW w \in Workers, NEW k \in Links, MailLink(w, k) PROVE Uses'
  <2>1. /\ link' = [link EXCEPT ![k] = [NoLink EXCEPT !.kind = "reset", !.user = task[w].user]]
        /\ Return(w)
    BY <1>11 DEF MailLink
  <2>2. \A l \in Links : link'[l] = link[l] \/ link'[l].uses = 0
    BY <1>1, <2>1 DEF NoLink, TypeOK
  <2>3. \A l \in Links : Openers(l)' \subseteq Openers(l)
    BY <1>2, <1>3, <2>1
  <2>. QED  BY <1>1, <2>2, <2>3, UsesStay
<1>12. ASSUME NEW w \in Workers, ResetPassword(w) PROVE Uses'
  <2>1. /\ Return(w) /\ task[w].pc = "useLink"
        /\ link[task[w].link].kind \in {"reset", "none"}
        /\ UNCHANGED link \/ link' = Spent(task[w].link)
    BY <1>12 DEF ResetPassword
  <2>2. CASE UNCHANGED link
    <3>1. \A l \in Links : Openers(l)' \subseteq Openers(l)
      BY <1>2, <1>3, <2>1
    <3>. QED  BY <1>1, <2>2, <3>1, UsesStay
  <2>3. CASE link' = Spent(task[w].link)
    BY <1>1, <1>3, <2>1, <2>3, UseStep
  <2>. QED  BY <2>1, <2>2, <2>3
<1>13. ASSUME NEW w \in Workers, RegisterInvited(w) PROVE Uses'
  <2>1. /\ Goto(w, Issuing(task[w].user)) /\ task[w].pc = "useLink"
        /\ link[task[w].link].kind = "invite" /\ link' = Spent(task[w].link)
    BY <1>13 DEF RegisterInvited
  <2>2. PICK j \in Tasks : j.pc = "issue" /\ task' = [task EXCEPT ![w] = j]
    BY <1>4, <2>1
  <2>. QED  BY <1>1, <2>1, <2>2, UseStep
<1>14. ASSUME NEW w \in Workers, RegisterLead(w) PROVE Uses'
  <2>1. CASE link[task[w].link].used
    <3>1. Return(w) /\ UNCHANGED link
      BY <1>14, <2>1 DEF RegisterLead
    <3>2. \A l \in Links : Openers(l)' \subseteq Openers(l)
      BY <1>2, <1>3, <3>1
    <3>. QED  BY <1>1, <3>1, <3>2, UsesStay
  <2>2. CASE ~link[task[w].link].used
    <3>1. /\ Goto(w, Issuing(task[w].user)) /\ task[w].pc = "useLink" /\ link' = Spent(task[w].link)
      BY <1>14, <2>2 DEF RegisterLead
    <3>2. PICK j \in Tasks : j.pc = "issue" /\ task' = [task EXCEPT ![w] = j]
      BY <1>4, <3>1
    <3>. QED  BY <1>1, <2>2, <3>1, <3>2, UseStep
  <2>. QED  BY <2>1, <2>2
<1>15. ASSUME \/ \E t \in Tokens : Logout(t)
              \/ \E u \in Users : Deactivate(u) \/ Activate(u)
              \/ Purge \/ Tick
       PROVE  Uses'
  <2>1. UNCHANGED <<link, task>>
    BY <1>15 DEF Logout, Deactivate, Activate, Purge, Tick
  <2>. QED  BY <1>1, <1>5, <2>1, UsesStay
<1>16. ASSUME NEW u \in Users, Erase(u) PROVE Uses'
  <2>1. \A l \in Links : \/ link'[l] = DeletedLink
                         \/ /\ link'[l].used = link[l].used \/ link'[l].used
                            /\ link'[l].uses = link[l].uses /\ link'[l].kind = link[l].kind
    BY <1>1, <1>16 DEF Erase, TypeOK, LinkRows
  <2>2. UNCHANGED task
    BY <1>16 DEF Erase
  <2>. QED  BY <1>1, <1>5, <2>1, <2>2, Rows, UsesStay
<1>17. ASSUME NEW k \in Links, NEW u \in Users, NEW kind \in {"invite", "company"},
              Invite(k, u, kind)
       PROVE  Uses'
  <2>1. \A l \in Links : link'[l] = link[l] \/ link'[l].uses = 0
    BY <1>1, <1>17 DEF Invite, NoLink, TypeOK
  <2>2. UNCHANGED task
    BY <1>17 DEF Invite
  <2>. QED  BY <1>1, <1>5, <2>1, <2>2, UsesStay
<1>18. ASSUME NEW k \in Links, ExpireLink(k) PROVE Uses'
  <2>1. \A l \in Links : /\ link'[l].used = link[l].used
                         /\ link'[l].uses = link[l].uses /\ link'[l].kind = link[l].kind
    BY <1>1, <1>18 DEF ExpireLink, TypeOK, LinkRows
  <2>2. UNCHANGED task
    BY <1>18 DEF ExpireLink
  <2>. QED  BY <1>1, <1>5, <2>1, <2>2, UsesStay
<1>. QED  BY <1>6, <1>7, <1>8, <1>9, <1>10, <1>11, <1>12, <1>13, <1>14, <1>15, <1>16, <1>17,
             <1>18 DEF Next, Request, Statement

-----------------------------------------------------------------------------
(* The invariant holds.                                                    *)

LEMMA InitInv ==
    ASSUME SignInAssumption, Init
    PROVE  Inv
<1>1. Idle \in Tasks /\ Idle.pc = "idle" /\ NoToken \in TokenRows /\ NoLink \in LinkRows
  BY IdleIsTask, Rows
<1>2. 0 \in Times
  BY DEF Times, SignInAssumption
<1>3. TypeOK
  BY <1>1, <1>2 DEF Init, TypeOK
<1>4. Named
  BY <1>1, Rows DEF Init, Named
<1>5. Ended
  BY DEF Init, Ended
<1>6. Uses
  <2>1. ASSUME NEW l \in Links PROVE link[l].uses + Cardinality(Openers(l)) <= N
    <3>1. Openers(l) = {}
      BY <1>1 DEF Init, Openers
    <3>2. Cardinality({}) = 0 /\ link[l].uses = 0
      BY Rows, FS_EmptySet DEF Init
    <3>3. N \in Nat
      BY CountOpeners
    <3>. QED  BY <3>1, <3>2, <3>3
  <2>. QED  BY <2>1, Rows DEF Init, Uses
<1>. QED  BY <1>3, <1>4, <1>5, <1>6 DEF Inv

LEMMA TypeStep ==
    ASSUME SignInAssumption, Inv, Next
    PROVE  TypeOK'
<1>1. TypeOK /\ Named
  BY DEF Inv
<1>2. \/ \E w \in Workers : Request(w) \/ Statement(w)
      \/ \/ \E t \in Tokens : Logout(t)
         \/ \E u \in Users : Deactivate(u) \/ Activate(u) \/ Erase(u)
         \/ \E l \in Links, u \in Users, kind \in {"invite", "company"} : Invite(l, u, kind)
         \/ \E l \in Links : ExpireLink(l)
         \/ Purge \/ Tick
  BY DEF Next
<1>. QED  BY <1>1, <1>2, RequestTypes, StatementTypes, AroundTypes

LEMMA StutterStep ==
    ASSUME Inv, UNCHANGED vars
    PROVE  Inv'
  BY DEF Inv, TypeOK, Named, Ended, Uses, N, Openers, vars

LEMMA InvHolds ==
    ASSUME SignInAssumption
    PROVE  Spec => []Inv
<1>1. Init => Inv
  BY InitInv
<1>2. Inv /\ [Next]_vars => Inv'
  <2>1. ASSUME Inv, Next PROVE Inv'
    BY <2>1, TypeStep, NamedStep, EndedStep, UsesStep DEF Inv
  <2>. QED  BY <2>1, StutterStep
<1>. QED  BY <1>1, <1>2, PTL DEF Spec

-----------------------------------------------------------------------------
(* What follows.                                                           *)

\* Accounts, tokens, links and the steps of requests have their types, through
\* rotations, purges and erasures: a password is only ever set for a user.
THEOREM TypeCorrect ==
    ASSUME SignInAssumption
    PROVE  Spec => []TypeOK
<1>1. Inv => TypeOK
  BY DEF Inv
<1>. QED  BY <1>1, InvHolds, PTL

\* A token that a logout, a reset or a suspension has ended is not honoured at
\* any later time: no rotation before or after the end gives it a grace.  Of
\* the token that a rotation under way issues afterwards it says nothing.
THEOREM EndedSessionsStayEnded ==
    ASSUME SignInAssumption
    PROVE  Spec => []EndedStaysEnded
<1>1. Inv => EndedStaysEnded
  <2>. SUFFICES ASSUME Inv, NEW t \in Tokens, barred[t] # None, barred[t] < now, Honoured(t)
                PROVE  FALSE
    BY DEF EndedStaysEnded
  <2>1. barred[t] \in Nat /\ now \in Nat /\ token[t].expires \in Nat
    BY DEF Inv, TypeOK, Times, TokenRows
  <2>2. token[t].expires <= barred[t] /\ token[t].expires >= now
    BY DEF Inv, Ended, Honoured
  <2>. QED  BY <2>1, <2>2
<1>. QED  BY <1>1, InvHolds, PTL

\* However many requests have opened a link, a company's makes one team lead,
\* and an invitation or a reset link is used by at most one request a worker.
THEOREM LinksAreUsedOnce ==
    ASSUME SignInAssumption
    PROVE  Spec => []LinksAreSingleUse
<1>1. Inv => LinksAreSingleUse
  <2>. SUFFICES ASSUME Inv, NEW l \in Links
                PROVE  link[l].uses <= IF link[l].kind = "company" THEN 1
                                       ELSE Cardinality(Workers)
    BY DEF LinksAreSingleUse
  <2>1. Openers(l) \in SUBSET Workers
    BY DEF Openers
  <2>2. Cardinality(Openers(l)) \in Nat /\ N \in Nat
    BY <2>1, CountOpeners
  <2>3. link[l].uses \in Nat
    BY DEF Inv, TypeOK, LinkRows
  <2>. QED  BY <2>2, <2>3 DEF Inv, Uses, N
<1>. QED  BY <1>1, InvHolds, PTL

\* What may take the honour of a token at an instant.
Excused(t) ==
    \/ barred'[t] = now
    \/ account'[token[t].user] = "erased"
    \/ \E w \in Workers : /\ task[w].pc = "rotate" /\ task[w].token = t
                          /\ now - task[w].at > Grace

LEMMA LastingStep ==
    ASSUME SignInAssumption, Inv, Next, NEW t \in Tokens,
           Honoured(t), now' = now, ~Honoured(t)'
    PROVE  Excused(t)
<1>1. TypeOK /\ Named /\ token[t] \in TokenRows /\ now \in Nat
  BY DEF Inv, TypeOK, Times
<1>2. token'[t] # token[t]
  BY DEF Honoured
<1>3. ASSUME NEW w \in Workers, Request(w) PROVE FALSE
  BY <1>2, <1>3 DEF Request, Refresh, Login, AdminLogin, RequestReset, OpenLink
<1>4. ASSUME NEW w \in Workers, Rotate(w) PROVE Excused(t)
  <2>0. PICK i \in Tasks : task[w] = i
    BY <1>1 DEF TypeOK
  <2>1. /\ i.pc = "rotate"
        /\ token' = token \/ token' = [token EXCEPT ![i.token].revoked = i.at]
    BY <1>4, <2>0 DEF Rotate
  <2>2. i.token = t /\ token'[t] = [token[t] EXCEPT !.revoked = i.at]
    BY <1>1, <1>2, <2>1 DEF TypeOK
  <2>3. /\ token'[t].revoked = i.at /\ token'[t].user = token[t].user
        /\ token'[t].expires = token[t].expires /\ i.at \in Nat
    BY <1>1, <2>2 DEF TokenRows, Tasks, Times
  <2>4. now - i.at > Grace
    BY <1>1, <2>3 DEF Honoured, SignInAssumption
  <2>. QED  BY <2>0, <2>1, <2>2, <2>4 DEF Excused
<1>5. ASSUME NEW w \in Workers, NEW s \in Tokens, Issue(w, s) PROVE FALSE
  <2>1. s = t
    BY <1>1, <1>2, <1>5 DEF Issue, TypeOK
  <2>. QED  BY <1>5, <2>1, Rows DEF Issue, Honoured
<1>6. ASSUME NEW u \in Users, token' = EndSessions(u), Bar(TokensOf(u)) PROVE Excused(t)
  <2>1. t \in TokensOf(u)
    BY <1>1, <1>2, <1>6, Closed
  <2>. QED  BY <1>6, <2>1 DEF Bar, Excused
<1>7. ASSUME NEW w \in Workers, ResetPassword(w) PROVE Excused(t)
  <2>1. token' = EndSessions(task[w].user) /\ Bar(TokensOf(task[w].user))
    BY <1>2, <1>7 DEF ResetPassword
  <2>2. task[w].user \in Users
    BY <1>1, <1>7 DEF Named, ResetPassword
  <2>. QED  BY <1>6, <2>1, <2>2
<1>8. ASSUME NEW w \in Workers,
             (\E l \in Links : MailLink(w, l)) \/ RegisterInvited(w) \/ RegisterLead(w) \/ Die(w)
      PROVE  FALSE
  BY <1>2, <1>8 DEF MailLink, RegisterInvited, RegisterLead, Die
<1>9. ASSUME NEW s \in Tokens, Logout(s) PROVE Excused(t)
  <2>1. s = t
    BY <1>1, <1>2, <1>9 DEF Logout, TypeOK
  <2>. QED  BY <1>9, <2>1 DEF Logout, Bar, Excused
<1>10. ASSUME NEW u \in Users, Deactivate(u) PROVE Excused(t)
  BY <1>6, <1>10 DEF Deactivate
<1>11. ASSUME NEW u \in Users, Erase(u) PROVE Excused(t)
  <2>1. token[t].user = u
    BY <1>2, <1>11 DEF Erase, TokensOf
  <2>2. account'[u] = "erased"
    BY <1>1, <1>11 DEF Erase, TypeOK
  <2>. QED  BY <2>1, <2>2 DEF Excused
<1>12. ~Dead(t)
  BY <1>1 DEF Dead, Honoured, TokenRows, Times, SignInAssumption
<1>13. CASE Purge
  BY <1>2, <1>12, <1>13 DEF Purge
<1>14. ASSUME \/ \E u \in Users : Activate(u)
              \/ \E l \in Links, u \in Users, kind \in {"invite", "company"} : Invite(l, u, kind)
              \/ \E l \in Links : ExpireLink(l)
              \/ Tick
       PROVE  FALSE
  BY <1>2, <1>14 DEF Activate, Invite, ExpireLink, Tick
<1>. QED  BY <1>3, <1>4, <1>5, <1>7, <1>8, <1>9, <1>10, <1>11, <1>13, <1>14 DEF Next, Statement

\* A token that is honoured stays so until its time is over, its session is
\* ended or its user erased, or a rotation of it was under way for longer than
\* the grace: no purge and no other rotation takes it, nor a new token its id.
THEOREM SessionsLastTheirTime ==
    ASSUME SignInAssumption
    PROVE  Spec => SessionsLast
<1>1. Inv /\ [Next]_vars =>
        [\A t \in Tokens : Honoured(t) /\ now' = now /\ ~Honoured(t)' =>
           \/ barred'[t] = now
           \/ account'[token[t].user] = "erased"
           \/ \E w \in Workers : /\ task[w].pc = "rotate" /\ task[w].token = t
                                 /\ now - task[w].at > Grace]_vars
  BY LastingStep DEF Excused
<1>. QED  BY <1>1, InvHolds, PTL DEF Spec, SessionsLast

=============================================================================

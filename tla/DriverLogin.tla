---------------------------- MODULE DriverLogin ----------------------------
(***************************************************************************)
(* The codes one driver signs in with (AuthService, the OTP part).         *)
(*                                                                         *)
(* A code goes to the driver directly, or to the manager of their truck:   *)
(* by e-mail, or dictated after the manager has minted it on the driver's  *)
(* card, which takes a request of the driver that is still open.  Several  *)
(* codes may be live at once; a verification compares with the newest of   *)
(* them.  A worker handles a request, one statement at a time.             *)
(*                                                                         *)
(* A code equals only itself; channels other than the manager's behave as  *)
(* SMS does; the feature switches are on.  The audit log, the notices in   *)
(* the driver's contact chat, and an erased driver, whose codes go with    *)
(* the account, are left out.                                              *)
(*                                                                         *)
(* A definition marked Mutant is a faulty form of the one that follows it. *)
(***************************************************************************)
EXTENDS Naturals, FiniteSets

CONSTANTS
    Managers, Workers,
    Codes,          \* numbers of OtpCode rows, in the order of createdAt
    MaxAttempts,    \* OTP_MAX_ATTEMPTS
    MaxPending,     \* OTP_MAX_PENDING
    None            \* NULL

\* What the proofs need of the constants; the instance assumes it.
LoginAssumption ==
    /\ IsFiniteSet(Workers)
    /\ Codes \subseteq Nat
    /\ MaxAttempts \in Nat \ {0}
    /\ None \notin Codes \cup Managers

VARIABLES
    active,         \* the driver's isActive
    boss,           \* the manager of the driver's truck, or None
    code,           \* the OtpCode rows
    task,           \* task[w]: what worker w has read and has still to do
    judged,         \* judged[c]: wrong guesses of c that were answered
    dead,           \* codes that were there when one of them signed in
    asks,           \* asks[m]: requests of the driver to manager m
    minted          \* minted[m]: codes read out to manager m

vars == <<active, boss, code, task, judged, dead, asks, minted>>

NoCode == [channel |-> "none", by |-> None, asked |-> FALSE, used |-> FALSE,
           attempts |-> 0, fresh |-> FALSE, expired |-> FALSE]

\* by: issuedById; asked: driverRequest; fresh: within OTP_RESEND_COOLDOWN_MS.
CodeRows == [channel : {"none", "SMS", "MANAGER"}, by : Managers \cup {None},
             asked : BOOLEAN, used : BOOLEAN,
             attempts : 0..(MaxAttempts + Cardinality(Workers) - 1),
             fresh : BOOLEAN, expired : BOOLEAN]

Idle == [pc |-> "idle", channel |-> "none", by |-> None, code |-> None,
         pending |-> {}, exhausted |-> {}, late |-> FALSE, refused |-> FALSE]

Tasks == [pc : {"idle", "store", "mint", "close", "lock", "compare", "miss", "burn"},
          channel : {"none", "SMS", "MANAGER"}, by : Managers \cup {None},
          code : Codes \cup {None}, pending : SUBSET Codes, exhausted : SUBSET Codes,
          late : BOOLEAN, refused : BOOLEAN]

TypeOK ==
    /\ active \in BOOLEAN
    /\ boss \in Managers \cup {None}
    /\ code \in [Codes -> CodeRows]
    /\ task \in [Workers -> Tasks]
    /\ judged \in [Codes -> Nat]
    /\ dead \subseteq Codes
    /\ asks \in [Managers -> Nat]
    /\ minted \in [Managers -> Nat]

Init ==
    /\ active = TRUE
    /\ boss \in Managers
    /\ code = [c \in Codes |-> NoCode]
    /\ task = [w \in Workers |-> Idle]
    /\ judged = [c \in Codes |-> 0]
    /\ dead = {}
    /\ asks = [m \in Managers |-> 0]
    /\ minted = [m \in Managers |-> 0]

Rows == {c \in Codes : code[c].channel # "none"}

Pending == {c \in Rows : ~code[c].used /\ ~code[c].expired}

\* orderBy createdAt desc, take OTP_MAX_PENDING.
Newest == {c \in Pending : Cardinality({d \in Pending : d > c}) < MaxPending}

Exhausted(S) == {c \in S : code[c].attempts >= MaxAttempts}

Free(w) == task[w] = Idle

Start(w, j) == Free(w) /\ task' = [task EXCEPT ![w] = j]

Goto(w, pc) == task' = [task EXCEPT ![w].pc = pc]

Return(w) == task' = [task EXCEPT ![w] = Idle]

\* The next row: rows are numbered as they are created.
NextCode(c) == c \in Codes \ Rows /\ \A d \in Codes \ Rows : c <= d

StoreOtp(c, channel, by, asked) ==
    code' = [code EXCEPT ![c] = [NoCode EXCEPT !.channel = channel, !.by = by,
                                               !.asked = asked, !.fresh = TRUE]]

\* updateMany on the rows of S with the given field set.
MarkUsed(S) == [c \in Codes |-> IF c \in S THEN [code[c] EXCEPT !.used = TRUE]
                                ELSE code[c]]

-----------------------------------------------------------------------------
(* Asking for a code.                                                      *)

\* assertOtpCooldown.
Cooled(channel) == \A c \in Rows : ~(code[c].channel = channel /\ code[c].fresh)

\* requestDriverOtp, and requestViaManager while the truck has a manager.
RequestCode(w, channel) ==
    /\ active
    /\ channel = "MANAGER" => boss # None
    /\ Cooled(channel)
    /\ Start(w, [Idle EXCEPT !.pc = "store", !.channel = channel,
                             !.by = IF channel = "MANAGER" THEN boss ELSE None])
    /\ UNCHANGED <<active, boss, code, judged, dead, asks, minted>>

Store(w, c) ==
    LET j == task[w] IN
    /\ j.pc = "store"
    /\ NextCode(c)
    /\ StoreOtp(c, j.channel, j.by, j.channel = "MANAGER")
    /\ asks' = [m \in Managers |-> asks[m] + IF m = j.by THEN 1 ELSE 0]
    /\ Return(w)
    /\ UNCHANGED <<active, boss, judged, dead, minted>>

\* Mutant: any unused code that went to the manager will do.
RequestedOnce(m) == \E c \in Rows : code[c].by = m /\ ~code[c].used

\* openManagerRequest.
OpenManagerRequest(m) ==
    \E c \in Pending : code[c].by = m /\ code[c].asked

\* issueDriverLoginCode up to its checks.
IssueLoginCode(w, m) ==
    /\ active /\ boss = m
    /\ OpenManagerRequest(m)
    /\ Start(w, [Idle EXCEPT !.pc = "mint", !.by = m])
    /\ UNCHANGED <<active, boss, code, judged, dead, asks, minted>>

Mint(w, c) ==
    LET j == task[w] IN
    /\ j.pc = "mint"
    /\ NextCode(c)
    /\ StoreOtp(c, "MANAGER", j.by, FALSE)
    /\ Goto(w, "close")
    /\ UNCHANGED <<active, boss, judged, dead, asks, minted>>

\* One request, one code: every unused request to this manager is closed, and
\* the code is read out.
CloseRequest(w) ==
    LET m == task[w].by IN
    /\ task[w].pc = "close"
    /\ code' = [c \in Codes |-> IF code[c].by = m /\ ~code[c].used
                                THEN [code[c] EXCEPT !.asked = FALSE] ELSE code[c]]
    /\ minted' = [minted EXCEPT ![m] = @ + 1]
    /\ Return(w)
    /\ UNCHANGED <<active, boss, judged, dead, asks>>

-----------------------------------------------------------------------------
(* verifyDriverOtp.  The guess is a code, or None if it is nobody's.       *)

\* The codes are read with their driver.
Verify(w, guess) ==
    /\ Newest # {}
    /\ Start(w, [Idle EXCEPT !.pc = IF Exhausted(Newest) = {} THEN "compare" ELSE "lock",
                             !.code = guess, !.pending = Newest \ Exhausted(Newest),
                             !.exhausted = Exhausted(Newest),
                             !.late = guess \in dead, !.refused = ~active])
    /\ UNCHANGED <<active, boss, code, judged, dead, asks, minted>>

\* Mutant: codes without attempts left stay in the comparison.
LockNothing(w) ==
    /\ task[w].pc = "lock"
    /\ task' = [task EXCEPT ![w].pc = "compare", ![w].pending = @ \cup task[w].exhausted]
    /\ UNCHANGED <<active, boss, code, judged, dead, asks, minted>>

\* Codes that had no attempts left when they were read are locked.
LockExhausted(w) ==
    /\ task[w].pc = "lock"
    /\ code' = MarkUsed(task[w].exhausted)
    /\ IF task[w].pending = {} THEN Return(w) ELSE Goto(w, "compare")
    /\ UNCHANGED <<active, boss, judged, dead, asks, minted>>

\* The comparison reads nothing; an inactive driver is refused after a match.
Compare(w) ==
    LET hit == task[w].code \in task[w].pending IN
    /\ task[w].pc = "compare"
    /\ IF hit /\ task[w].refused THEN Return(w) ELSE Goto(w, IF hit THEN "burn" ELSE "miss")
    /\ UNCHANGED <<active, boss, code, judged, dead, asks, minted>>

\* A miss counts against every live code, and is then answered.
Miss(w) ==
    /\ task[w].pc = "miss"
    /\ code' = [c \in Codes |-> IF c \in task[w].pending
                                THEN [code[c] EXCEPT !.attempts = @ + 1] ELSE code[c]]
    /\ judged' = [c \in Codes |-> judged[c] + IF c \in task[w].pending THEN 1 ELSE 0]
    /\ Return(w)
    /\ UNCHANGED <<active, boss, dead, asks, minted>>

\* Mutant: only the code that matched is used up.
BurnOne(w) ==
    /\ task[w].pc = "burn"
    /\ code' = MarkUsed({task[w].code})
    /\ dead' = dead \cup Rows
    /\ Return(w)
    /\ UNCHANGED <<active, boss, judged, asks, minted>>

\* Every pending code of the phone is used up, and the driver is signed in.
Burn(w) ==
    /\ task[w].pc = "burn"
    /\ code' = MarkUsed({c \in Rows : ~code[c].used})
    /\ dead' = dead \cup Rows
    /\ Return(w)
    /\ UNCHANGED <<active, boss, judged, asks, minted>>

-----------------------------------------------------------------------------
(* Around it.                                                              *)

\* activate and deactivate (Accounts).
Suspend ==
    /\ active' = ~active
    /\ UNCHANGED <<boss, code, task, judged, dead, asks, minted>>

\* The truck changes hands (Fleet).
ChangeBoss(m) ==
    /\ boss' = m /\ m # boss
    /\ UNCHANGED <<active, code, task, judged, dead, asks, minted>>

\* The cool-down of a code passes, or its lifetime.
Age(c) ==
    /\ c \in Rows
    /\ \/ code[c].fresh /\ code' = [code EXCEPT ![c].fresh = FALSE]
       \/ /\ ~code[c].fresh /\ ~code[c].expired
          /\ code' = [code EXCEPT ![c].expired = TRUE]
    /\ UNCHANGED <<active, boss, task, judged, dead, asks, minted>>

\* A request ends between two of its statements: its code is read out to nobody,
\* its guess is not answered.
Die(w) ==
    /\ task[w].pc \in {"close", "compare", "miss", "burn"}
    /\ Return(w)
    /\ UNCHANGED <<active, boss, code, judged, dead, asks, minted>>

Request(w) ==
    /\ Free(w)
    /\ \/ \E channel \in {"SMS", "MANAGER"} : RequestCode(w, channel)
       \/ \E m \in Managers : IssueLoginCode(w, m)
       \/ \E guess \in Codes \cup {None} : Verify(w, guess)

Statement(w) ==
    \/ \E c \in Codes : Store(w, c) \/ Mint(w, c)
    \/ CloseRequest(w)
    \/ LockExhausted(w)
    \/ Compare(w)
    \/ Miss(w)
    \/ Burn(w)
    \/ Die(w)

Next ==
    \/ \E w \in Workers : Request(w) \/ Statement(w)
    \/ Suspend
    \/ \E m \in Managers \cup {None} : ChangeBoss(m)
    \/ \E c \in Codes : Age(c)

Spec == Init /\ [][Next]_vars

-----------------------------------------------------------------------------

\* However guesses overlap, no more wrong ones are answered than the limit and
\* the requests that were being compared at once: attempts are read before they
\* are counted (auth.service l.894).
GuessesBounded == \A c \in Codes : judged[c] < MaxAttempts + Cardinality(Workers)

\* Once a driver has signed in, no code sent before signs anyone in, by any
\* channel; except for a verification that had read it already.
OneSignInPerRound == \A w \in Workers : task[w].pc = "burn" => ~task[w].late

\* A manager is read out a code only for a driver's request to that manager,
\* and one for each; twice where two clicks had both found it open.
MintedOnRequest == \A m \in Managers :
    minted[m] <= Cardinality(Workers) * asks[m]

\* What is counted, guesses and codes read out, is exceeded only by as much as
\* requests overlap.
CodesCounted == GuessesBounded /\ MintedOnRequest

=============================================================================

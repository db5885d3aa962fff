--------------------------- MODULE Accounts_proofs ---------------------------
(***************************************************************************)
(* Proofs about Accounts, for any number of users, companies, transfers    *)
(* and overlapping requests.                                               *)
(***************************************************************************)
EXTENDS Accounts, FiniteSetTheorems, TLAPS

-----------------------------------------------------------------------------
(* The invariant, in parts.                                                *)

Hiring == {"insert", "check", "supersede", "create", "send"}

Answering == {"requester", "accept", "decline"}

\* Someone other drivers and managers may be put under.
Senior(b) == b \in Users /\ Role[b] # "DRIVER" /\ Exists(b)

\* A senior of company c.
SeniorOf(b, c) == Senior(b) /\ user[b].company = c

\* What a task has filled in by the step it stands at.
Stage(j) ==
    /\ j.pc # "idle" => j.user \in Users
    /\ j.pc \in Hiring \cup Answering =>
          j.company \in Companies /\ Role[j.user] = "DRIVER"
    /\ j.pc \in Hiring \ {"insert"} => j.from \in Companies
    /\ j.pc \in {"send"} \cup Answering => j.transfer \in Transfers
    /\ j.pc \in {"seat", "boss"} => Role[j.user] = "DRIVER"
    /\ j.pc = "seat" => j.seat # Keep
    /\ j.pc = "countAdmins" => Role[j.user] = "ADMIN"
    /\ j.pc \in {"activate", "deactivate"} => j.by \in Users

\* Whoever is named as somebody's manager is there, and whoever has asked for a
\* driver, and is of the company that did.
Rows ==
    /\ \A u \in Users : user[u].boss # None => Senior(user[u].boss)
    /\ \A x \in Transfers : transfer[x] # NoTransfer =>
          SeniorOf(transfer[x].by, transfer[x].to) /\ Role[transfer[x].driver] = "DRIVER"

\* The managers that a task names.
Asked(j) ==
    /\ j.pc \in Hiring => SeniorOf(j.by, j.company)
    /\ j.pc \in {"seat", "boss"} /\ j.boss \in Users => Senior(j.boss)
    /\ j.pc = "accept" => j.boss = None \/ SeniorOf(j.boss, j.company)

\* A request that is being answered was texted, and says what the answer goes by.
Linked(j) ==
    /\ j.pc = "send" => transfer[j.transfer] # NoTransfer /\ ~transfer[j.transfer].texted
    /\ j.pc \in Answering => /\ transfer[j.transfer].texted
                             /\ transfer[j.transfer].driver = j.user
                             /\ transfer[j.transfer].to = j.company
                             /\ transfer[j.transfer].by = j.by

\* An account about to become active was not erased when it was looked at.
Spared(j) ==
    j.pc \in {"activate", "requester", "accept"} /\ user[j.user].erased => j.user \in caught

\* An administrator of company c, who acts unless caught.
Stands(a, c) ==
    /\ a \in Users /\ Role[a] = "ADMIN" /\ Exists(a) /\ user[a].company = c
    /\ a \in caught \/ Administers(a)

\* Whoever suspends an administrator is another one, and one who leaves has
\* counted another one of their company.
Counted(j) ==
    /\ j.pc = "countAdmins" => Senior(j.user)
    /\ j.pc = "deactivate" /\ Role[j.user] = "ADMIN" =>
          j.by # j.user /\ Stands(j.by, user[j.by].company)
    /\ j.pc = "erase" /\ Role[j.user] = "ADMIN" =>
          \E a \in Users \ {j.user} : Stands(a, user[j.user].company)

\* The truck and the manager about to be given are of the company the row names.
Given(j) ==
    j.pc \in {"seat", "boss"} /\ j.user \notin caught =>
      /\ j.pc = "seat" => j.seat \in {None, user[j.user].company}
      /\ j.boss \in Users => user[j.boss].company = user[j.user].company

\* The request about to be accepted still stands.
Agreed(j) ==
    j.pc \in {"requester", "accept"} /\ j.user \notin caught =>
      /\ ~transfer[j.transfer].declined /\ ~transfer[j.transfer].over
      /\ transfer[j.transfer].from = user[j.user].company

Knows(j) == Asked(j) /\ Linked(j) /\ Spared(j) /\ Counted(j) /\ Given(j) /\ Agreed(j)

\* A request that is being texted is one worker's.
SendsAlone ==
    \A v, w \in Workers : task[v].pc = "send" /\ task[w].pc = "send" /\ v # w =>
        task[v].transfer # task[w].transfer

N == Cardinality(Workers)

\* Workers that have counted and not yet created their request.
AskingOf(u) == {w \in Workers : task[w].pc \in {"supersede", "create"} /\ task[w].user = u}

AskingBy(c) == {w \in Workers : task[w].pc \in {"supersede", "create"} /\ task[w].company = c}

\* A request that is about to be created has room within the bound.
Caps ==
    /\ IsFiniteSet(MadeToday)
    /\ \A u \in Users :
          Cardinality(TodayFor(u)) + Cardinality(AskingOf(u)) < MaxPerDay + N
    /\ \A c \in Companies :
          Cardinality(TodayBy(c)) + Cardinality(AskingBy(c)) < MaxPerCompany + N

Tasked == SendsAlone /\ \A w \in Workers : Stage(task[w]) /\ Knows(task[w])

Inv ==
    /\ TypeOK
    /\ Rows
    /\ Tasked
    /\ ErasedStaysOut
    /\ CompanyGoesTogether
    /\ Caps

-----------------------------------------------------------------------------
(* What a step leaves to the workers that do not take it.                  *)

LEMMA OneWorkerMoves ==
    ASSUME TypeOK, NEW w \in Workers, NEW j \in Tasks, task' = [task EXCEPT ![w] = j]
    PROVE  /\ task' \in [Workers -> Tasks]
           /\ task'[w] = j
           /\ \A v \in Workers \ {w} : task'[v] = task[v]
  BY DEF TypeOK

LEMMA IdleIsTask == Idle \in Tasks /\ Idle.pc = "idle"
  BY DEF Idle, Tasks, Steps

\* Nothing that a check of u may rest on gets lost.
Undisturbed(u) ==
    /\ user'[u].erased => user[u].erased
    /\ Administers(u) => Administers(u)'
    /\ Exists(u) => user'[u].company = user[u].company
    /\ \A x \in Transfers :
          transfer[x] # NoTransfer /\ transfer[x].texted /\ transfer[x].driver = u =>
            /\ transfer'[x].declined = transfer[x].declined
            /\ transfer'[x].over = transfer[x].over

\* The request stays what it is, answered or not.
Kept(x) ==
    /\ transfer'[x] # NoTransfer
    /\ transfer'[x].texted = transfer[x].texted
    /\ transfer'[x].driver = transfer[x].driver
    /\ transfer'[x].from = transfer[x].from
    /\ transfer'[x].to = transfer[x].to
    /\ transfer'[x].by = transfer[x].by

\* A step of the workers S, and what they disturb is caught.
Frame(S) ==
    /\ caught \subseteq caught'
    /\ \A v \in Workers \ S :
          /\ task'[v] = task[v]
          /\ \A u \in ReliesOn(v) \cap Users : u \in caught' \/ Undisturbed(u)
    /\ \A b \in Users : Senior(b) => Senior(b)' /\ user'[b].company = user[b].company
    /\ \A x \in Transfers :
          /\ transfer[x] # NoTransfer
          /\ \A w \in S : task[w].pc = "send" => task[w].transfer # x
          => Kept(x)

LEMMA OthersKnow ==
    ASSUME AccountsAssumption, Inv, NEW S \in SUBSET Workers, Frame(S), NEW v \in Workers \ S
    PROVE  Stage(task[v])' /\ Knows(task[v])'
<1>0. PICK j \in Tasks : task[v] = j
  BY DEF Inv, TypeOK
<1>1. /\ TypeOK /\ Stage(j) /\ Knows(j)
      /\ \A w \in S : Stage(task[w]) /\ Knows(task[w])
  BY <1>0 DEF Inv, Tasked
<1>2. task'[v] = j /\ caught \subseteq caught'
  BY <1>0 DEF Frame
<1>3. \A u \in ReliesOn(v) \cap Users : u \in caught' \/ Undisturbed(u)
  BY DEF Frame
<1>4. j.by \in ReliesOn(v) /\ j.user \in ReliesOn(v)
  BY <1>0 DEF ReliesOn
<1>5. ASSUME NEW b, NEW c, SeniorOf(b, c)
      PROVE  Senior(b)' /\ user'[b].company = c
  BY <1>5 DEF Frame, SeniorOf, Senior
<1>6. ASSUME j.pc \in {"send"} \cup Answering
      PROVE  j.transfer \in Transfers /\ transfer[j.transfer] # NoTransfer /\ Kept(j.transfer)
  <2>1. j.transfer \in Transfers
    BY <1>1, <1>6 DEF Stage
  <2>2. transfer[j.transfer] # NoTransfer
    BY <1>1, <1>6 DEF Knows, Linked, NoTransfer
  <2>3. ASSUME NEW w \in S, task[w].pc = "send" PROVE task[w].transfer # j.transfer
    <3>1. ~transfer[task[w].transfer].texted
      BY <1>1, <2>3 DEF Knows, Linked
    <3>2. CASE j.pc = "send"
      BY <1>0, <2>3, <3>2 DEF Inv, Tasked, SendsAlone
    <3>3. CASE j.pc \in Answering
      BY <1>1, <3>1, <3>3 DEF Knows, Linked
    <3>. QED  BY <1>6, <3>2, <3>3
  <2>. QED  BY <2>1, <2>2, <2>3 DEF Frame
<1>7. Stage(task[v])'
  BY <1>1, <1>2 DEF Stage
<1>8. Asked(task[v])'
  <2>1. j.pc \in Hiring => SeniorOf(j.by, j.company)
    BY <1>1 DEF Knows, Asked
  <2>2. j.pc \in {"seat", "boss"} /\ j.boss \in Users => SeniorOf(j.boss, user[j.boss].company)
    BY <1>1 DEF Knows, Asked, SeniorOf
  <2>3. j.pc = "accept" => j.boss = None \/ SeniorOf(j.boss, j.company)
    BY <1>1 DEF Knows, Asked
  <2>4. /\ j.pc \in Hiring => Senior(j.by)' /\ user'[j.by].company = j.company
        /\ j.pc \in {"seat", "boss"} /\ j.boss \in Users => Senior(j.boss)'
        /\ j.pc = "accept" => j.boss = None \/ (Senior(j.boss)' /\ user'[j.boss].company = j.company)
    BY <1>5, <2>1, <2>2, <2>3
  <2>. QED  BY <1>2, <2>4 DEF Asked, SeniorOf, Senior, Exists
<1>9. Linked(task[v])'
  BY <1>1, <1>2, <1>6 DEF Knows, Linked, Kept
<1>10. Spared(task[v])'
  <2>1. SUFFICES ASSUME j.pc \in {"activate", "requester", "accept"}, user'[j.user].erased,
                        j.user \notin caught'
                 PROVE  FALSE
    BY <1>2 DEF Spared
  <2>2. j.user \in Users
    BY <1>1, <2>1 DEF Stage
  <2>3. user[j.user].erased /\ j.user \notin caught
    BY <1>2, <1>3, <1>4, <2>1, <2>2 DEF Undisturbed
  <2>. QED  BY <1>1, <2>1, <2>3 DEF Knows, Spared
<1>11. Counted(task[v])'
  <2>1. ASSUME NEW a, NEW c, Stands(a, c), a \in ReliesOn(v) PROVE Stands(a, c)'
    <3>1. Senior(a)' /\ user'[a].company = c
      BY <1>5, <2>1 DEF Stands, SeniorOf, Senior
    <3>2. a \in caught' \/ Administers(a)'
      BY <1>2, <1>3, <2>1 DEF Stands, Undisturbed
    <3>. QED  BY <2>1, <3>1, <3>2 DEF Stands, Senior
  <2>2. j.pc = "countAdmins" => Senior(j.user)'
    BY <1>1, <1>5 DEF Knows, Counted, SeniorOf
  <2>3. ASSUME j.pc = "deactivate", Role[j.user] = "ADMIN"
        PROVE  j.by # j.user /\ Stands(j.by, user[j.by].company)'
    <3>1. j.by # j.user /\ Stands(j.by, user[j.by].company)
      BY <1>1, <2>3 DEF Knows, Counted
    <3>2. Stands(j.by, user[j.by].company)' /\ user'[j.by].company = user[j.by].company
      <4>1. PICK c : c = user[j.by].company
        OBVIOUS
      <4>2. Stands(j.by, c)'
        BY <1>4, <2>1, <3>1, <4>1
      <4>. QED  BY <4>1, <4>2 DEF Stands
    <3>. QED  BY <3>1, <3>2
  <2>4. ASSUME j.pc = "erase", Role[j.user] = "ADMIN"
        PROVE  \E a \in Users \ {j.user} : Stands(a, user[j.user].company)'
    <3>1. PICK a \in Users \ {j.user} : Stands(a, user[j.user].company)
      BY <1>1, <2>4 DEF Knows, Counted
    <3>2. PICK c : c = user[j.user].company
      OBVIOUS
    <3>3. a \in ReliesOn(v)
      BY <1>0, <2>4, <3>1 DEF ReliesOn, Stands
    <3>4. Stands(a, c)'
      BY <2>1, <3>1, <3>2, <3>3
    <3>5. SeniorOf(j.user, c)
      BY <1>1, <2>4, <3>1, <3>2 DEF Stage, Stands, SeniorOf, Senior, Exists
    <3>6. user'[j.user].company = c
      BY <1>5, <3>5
    <3>. QED  BY <3>4, <3>6 DEF Stands
  <2>. QED  BY <1>2, <2>2, <2>3, <2>4 DEF Counted, Stands, Senior, Exists, Administers
<1>12. Given(task[v])'
  <2>1. SUFFICES ASSUME j.pc \in {"seat", "boss"}, j.user \notin caught'
                 PROVE  /\ j.pc = "seat" => j.seat \in {None, user'[j.user].company}
                        /\ j.boss \in Users => user'[j.boss].company = user'[j.user].company
    BY <1>2 DEF Given
  <2>2. j.user \in Users /\ Undisturbed(j.user)
    BY <1>1, <1>3, <1>4, <2>1 DEF Stage
  <2>3. /\ j.pc = "seat" => j.seat \in {None, user[j.user].company}
        /\ j.boss \in Users => user[j.boss].company = user[j.user].company
    BY <1>1, <1>2, <2>1 DEF Knows, Given
  <2>4. j.pc = "seat" => j.seat \in {None, user'[j.user].company}
    BY <2>2, <2>3 DEF Undisturbed, Exists
  <2>5. ASSUME j.boss \in Users PROVE user'[j.boss].company = user'[j.user].company
    <3>1. Senior(j.boss)
      BY <1>1, <2>1, <2>5 DEF Knows, Asked
    <3>2. user'[j.boss].company = user[j.boss].company
      BY <2>5, <3>1 DEF Frame
    <3>3. Exists(j.user)
      BY <2>3, <2>5, <3>1 DEF Senior, Exists
    <3>. QED  BY <2>2, <2>3, <2>5, <3>2, <3>3 DEF Undisturbed
  <2>. QED  BY <2>4, <2>5
<1>13. Agreed(task[v])'
  <2>1. SUFFICES ASSUME j.pc \in {"requester", "accept"}, j.user \notin caught'
                 PROVE  /\ ~transfer'[j.transfer].declined /\ ~transfer'[j.transfer].over
                        /\ transfer'[j.transfer].from = user'[j.user].company
    BY <1>2 DEF Agreed
  <2>2. j.user \in Users /\ Undisturbed(j.user)
    BY <1>1, <1>3, <1>4, <2>1 DEF Stage
  <2>3. /\ ~transfer[j.transfer].declined /\ ~transfer[j.transfer].over
        /\ transfer[j.transfer].from = user[j.user].company
    BY <1>1, <1>2, <2>1 DEF Knows, Agreed
  <2>4. j.transfer \in Transfers /\ transfer[j.transfer] # NoTransfer /\ Kept(j.transfer)
    BY <1>6, <2>1 DEF Answering
  <2>5. transfer[j.transfer].texted /\ transfer[j.transfer].driver = j.user
    BY <1>1, <2>1 DEF Knows, Linked, Answering
  <2>6. Exists(j.user)
    <3>1. transfer[j.transfer].from \in Companies
      BY <1>1, <2>4 DEF TypeOK, TransferRows
    <3>. QED  BY <2>3, <3>1 DEF Exists, AccountsAssumption
  <2>. QED  BY <2>2, <2>3, <2>4, <2>5, <2>6 DEF Undisturbed, Kept
<1>. QED  BY <1>7, <1>8, <1>9, <1>10, <1>11, <1>12, <1>13 DEF Knows

LEMMA TaskedStep ==
    ASSUME AccountsAssumption, Inv, NEW w \in Workers, NEW j \in Tasks,
           task' = [task EXCEPT ![w] = j], Frame({w}), Stage(j), Knows(task[w])',
           j.pc = "send" => \A v \in Workers \ {w} :
                               task[v].pc = "send" => task[v].transfer # j.transfer
    PROVE  Tasked'
<1>1. /\ task' \in [Workers -> Tasks] /\ task'[w] = j
      /\ \A v \in Workers \ {w} : task'[v] = task[v]
  BY OneWorkerMoves DEF Inv
<1>2. \A v \in Workers : Stage(task[v])' /\ Knows(task[v])'
  <2>1. ASSUME NEW v \in Workers \ {w} PROVE Stage(task[v])' /\ Knows(task[v])'
    BY OthersKnow
  <2>2. Stage(task[w])'
    BY <1>1 DEF Stage
  <2>. QED  BY <2>1, <2>2
<1>3. SendsAlone'
  BY <1>1 DEF Inv, Tasked, SendsAlone
<1>. QED  BY <1>2, <1>3 DEF Tasked

-----------------------------------------------------------------------------
(* Counting requests.                                                      *)

LEMMA CountWorkers ==
    ASSUME AccountsAssumption, NEW S \in SUBSET Workers
    PROVE  IsFiniteSet(S) /\ Cardinality(S) \in Nat /\ Cardinality(S) <= N /\ N \in Nat
<1>1. IsFiniteSet(Workers)
  BY DEF AccountsAssumption
<1>2. IsFiniteSet(S) /\ Cardinality(S) <= Cardinality(Workers)
  BY <1>1, FS_Subset
<1>. QED  BY <1>1, <1>2, FS_CardinalityType DEF N

LEMMA CountFewer ==
    ASSUME NEW S, IsFiniteSet(S), NEW T \in SUBSET S
    PROVE  /\ IsFiniteSet(T) /\ Cardinality(T) <= Cardinality(S)
           /\ Cardinality(T) \in Nat /\ Cardinality(S) \in Nat
  BY FS_Subset, FS_CardinalityType

LEMMA CountOneLess ==
    ASSUME NEW S, IsFiniteSet(S), NEW x \in S, NEW T \in SUBSET (S \ {x})
    PROVE  /\ IsFiniteSet(T) /\ Cardinality(T) + 1 <= Cardinality(S)
           /\ Cardinality(T) \in Nat /\ Cardinality(S) \in Nat
<1>1. IsFiniteSet(S \ {x}) /\ Cardinality(S \ {x}) = Cardinality(S) - 1
  BY FS_RemoveElement
<1>2. IsFiniteSet(T) /\ Cardinality(T) <= Cardinality(S \ {x})
  BY <1>1, FS_Subset
<1>3. Cardinality(T) \in Nat /\ Cardinality(S) \in Nat
  BY <1>2, FS_CardinalityType
<1>. QED  BY <1>1, <1>2, <1>3

\* Nobody new asks, and no request of today is added or becomes another's.
LEMMA CapsStay ==
    ASSUME AccountsAssumption, Caps, MadeToday' \subseteq MadeToday,
           \A x \in MadeToday' : /\ transfer'[x].driver = transfer[x].driver
                                 /\ transfer'[x].to = transfer[x].to,
           \A u \in Users : AskingOf(u)' \subseteq AskingOf(u),
           \A c \in Companies : AskingBy(c)' \subseteq AskingBy(c)
    PROVE  Caps'
<1>1. IsFiniteSet(MadeToday) /\ MaxPerDay \in Nat /\ MaxPerCompany \in Nat
  BY DEF Caps, AccountsAssumption
<1>2. IsFiniteSet(MadeToday')
  BY <1>1, FS_Subset
<1>3. ASSUME NEW u \in Users
      PROVE  Cardinality(TodayFor(u)') + Cardinality(AskingOf(u)') < MaxPerDay + N
  <2>1. TodayFor(u)' \in SUBSET TodayFor(u) /\ TodayFor(u) \in SUBSET MadeToday
    BY DEF TodayFor
  <2>2. AskingOf(u)' \in SUBSET AskingOf(u) /\ AskingOf(u) \in SUBSET Workers
    BY DEF AskingOf
  <2>3. /\ Cardinality(TodayFor(u)') <= Cardinality(TodayFor(u))
        /\ Cardinality(TodayFor(u)') \in Nat /\ Cardinality(TodayFor(u)) \in Nat
    BY <1>1, <2>1, CountFewer
  <2>4. /\ Cardinality(AskingOf(u)') <= Cardinality(AskingOf(u))
        /\ Cardinality(AskingOf(u)') \in Nat /\ Cardinality(AskingOf(u)) \in Nat /\ N \in Nat
    BY <2>2, CountWorkers, CountFewer
  <2>5. Cardinality(TodayFor(u)) + Cardinality(AskingOf(u)) < MaxPerDay + N
    BY DEF Caps
  <2>. QED  BY <1>1, <2>3, <2>4, <2>5
<1>4. ASSUME NEW c \in Companies
      PROVE  Cardinality(TodayBy(c)') + Cardinality(AskingBy(c)') < MaxPerCompany + N
  <2>1. TodayBy(c)' \in SUBSET TodayBy(c) /\ TodayBy(c) \in SUBSET MadeToday
    BY DEF TodayBy
  <2>2. AskingBy(c)' \in SUBSET AskingBy(c) /\ AskingBy(c) \in SUBSET Workers
    BY DEF AskingBy
  <2>3. /\ Cardinality(TodayBy(c)') <= Cardinality(TodayBy(c))
        /\ Cardinality(TodayBy(c)') \in Nat /\ Cardinality(TodayBy(c)) \in Nat
    BY <1>1, <2>1, CountFewer
  <2>4. /\ Cardinality(AskingBy(c)') <= Cardinality(AskingBy(c))
        /\ Cardinality(AskingBy(c)') \in Nat /\ Cardinality(AskingBy(c)) \in Nat /\ N \in Nat
    BY <2>2, CountWorkers, CountFewer
  <2>5. Cardinality(TodayBy(c)) + Cardinality(AskingBy(c)) < MaxPerCompany + N
    BY DEF Caps
  <2>. QED  BY <1>1, <2>3, <2>4, <2>5
<1>5. N' = N
  BY DEF N
<1>. QED  BY <1>2, <1>3, <1>4, <1>5 DEF Caps

\* A worker that goes on to j asks for nobody new.
LEMMA AskersLeave ==
    ASSUME TypeOK, NEW w \in Workers, NEW j \in Tasks, task' = [task EXCEPT ![w] = j],
           \/ j.pc \notin {"supersede", "create"}
           \/ /\ task[w].pc \in {"supersede", "create"}
              /\ j.user = task[w].user /\ j.company = task[w].company
    PROVE  /\ \A u \in Users : AskingOf(u)' \subseteq AskingOf(u)
           /\ \A c \in Companies : AskingBy(c)' \subseteq AskingBy(c)
  BY OneWorkerMoves DEF AskingOf, AskingBy

-----------------------------------------------------------------------------
(* Steps that write no row.                                                *)

\* All but the caps, which the check of them has to do with.
LEMMA QuietTask ==
    ASSUME AccountsAssumption, Inv, NEW w \in Workers, NEW j \in Tasks,
           task' = [task EXCEPT ![w] = j], UNCHANGED <<user, transfer, caught>>,
           Stage(j), Knows(j), j.pc # "send"
    PROVE  /\ TypeOK' /\ Rows' /\ Tasked'
           /\ ErasedStaysOut' /\ CompanyGoesTogether'
<1>1. /\ task' \in [Workers -> Tasks] /\ task'[w] = j
      /\ \A v \in Workers \ {w} : task'[v] = task[v]
  BY OneWorkerMoves DEF Inv
<1>2. Frame({w})
  <2>1. \A u \in Users : Undisturbed(u)
    BY DEF Undisturbed, Administers
  <2>2. \A b \in Users : Senior(b) => Senior(b)' /\ user'[b].company = user[b].company
    BY DEF Senior, Exists
  <2>3. \A x \in Transfers : transfer[x] # NoTransfer => Kept(x)
    BY DEF Kept
  <2>. QED  BY <1>1, <2>1, <2>2, <2>3 DEF Frame
<1>3. Knows(task[w])'
  <2>1. Knows(j)
    OBVIOUS
  <2>. QED  BY <1>1, <2>1 DEF Knows, Asked, Linked, Spared, Counted, Given, Agreed,
                              Senior, SeniorOf, Exists, Stands, Administers
<1>4. Tasked'
  BY <1>2, <1>3, TaskedStep
<1>5. TypeOK'
  BY <1>1 DEF Inv, TypeOK
<1>6. Rows'
  BY DEF Inv, Rows, Senior, SeniorOf, Exists
<1>7. ErasedStaysOut' /\ CompanyGoesTogether'
  BY DEF Inv, ErasedStaysOut, CompanyGoesTogether, Exists, Administers
<1>. QED  BY <1>4, <1>5, <1>6, <1>7

LEMMA QuietStep ==
    ASSUME AccountsAssumption, Inv, NEW w \in Workers, NEW j \in Tasks,
           task' = [task EXCEPT ![w] = j], UNCHANGED <<user, transfer, caught>>,
           Stage(j), Knows(j), j.pc \notin {"send", "supersede"},
           j.pc = "create" => /\ task[w].pc \in {"supersede", "create"}
                              /\ j.user = task[w].user /\ j.company = task[w].company
    PROVE  Inv'
<1>1. /\ TypeOK' /\ Rows' /\ Tasked'
      /\ ErasedStaysOut' /\ CompanyGoesTogether'
  BY QuietTask
<1>2. Caps'
  <2>1. MadeToday' = MadeToday
    BY DEF MadeToday
  <2>2. TypeOK /\ Caps
    BY DEF Inv
  <2>3. /\ \A u \in Users : AskingOf(u)' \subseteq AskingOf(u)
        /\ \A c \in Companies : AskingBy(c)' \subseteq AskingBy(c)
    BY <2>2, AskersLeave
  <2>. QED  BY <2>1, <2>2, <2>3, CapsStay
<1>. QED  BY <1>1, <1>2 DEF Inv

\* A worker that is done knows nothing any more.
LEMMA IdleKnows ==
    ASSUME NEW j, j.pc = "idle"
    PROVE  Stage(j) /\ Knows(j)
  BY DEF Stage, Knows, Asked, Linked, Spared, Counted, Given, Agreed, Hiring, Answering

LEMMA StopStep ==
    ASSUME AccountsAssumption, Inv, NEW w \in Workers, Return(w),
           UNCHANGED <<user, transfer, caught>>
    PROVE  Inv'
<1>1. Stage(Idle) /\ Knows(Idle)
  BY IdleIsTask, IdleKnows
<1>. QED  BY <1>1, IdleIsTask, QuietStep DEF Return


LEMMA RowsOfUsers ==
    ASSUME AccountsAssumption, TypeOK, NEW u \in Users
    PROVE  /\ user[u] \in UserRows
           /\ Exists(u) => user[u].company \in Companies
           /\ Role[u] \in {"ADMIN", "TEAMLEAD", "MANAGER", "DRIVER"}
           /\ u # None /\ u # Keep
  BY DEF AccountsAssumption, TypeOK, UserRows, Exists

LEMMA TaskOf ==
    ASSUME TypeOK, NEW w \in Workers
    PROVE  task[w] \in Tasks
  BY DEF TypeOK

LEMMA CreateDriverStep ==
    ASSUME AccountsAssumption, Inv, NEW w \in Workers, NEW r \in Users, NEW u \in Users,
           CreateDriver(w, r, u)
    PROVE  Inv'
<1> DEFINE j == [Idle EXCEPT !.pc = IF Exists(u) THEN "check" ELSE "insert",
                             !.by = r, !.user = u, !.company = user[r].company,
                             !.from = user[u].company]
<1>1. /\ Acts(r) /\ Role[r] \in {"MANAGER", "TEAMLEAD"} /\ Role[u] = "DRIVER"
      /\ task' = [task EXCEPT ![w] = j] /\ UNCHANGED <<user, transfer, caught>>
  BY DEF CreateDriver, Start
<1>2. /\ j.pc = IF Exists(u) THEN "check" ELSE "insert"
      /\ j.by = r /\ j.user = u /\ j.company = user[r].company
      /\ j.from = user[u].company
  BY DEF Idle
<1>3. /\ user[r].company \in Companies /\ user[u].company \in Companies \cup {None}
      /\ Exists(u) => user[u].company \in Companies
  BY <1>1, RowsOfUsers DEF Inv, Acts, UserRows
<1>4. j \in Tasks
  BY <1>3 DEF Idle, Tasks, Steps
<1> HIDE DEF j
<1>5. Stage(j)
  BY <1>1, <1>2, <1>3 DEF Stage, Hiring, Answering
<1>6. SeniorOf(r, user[r].company)
  BY <1>1 DEF SeniorOf, Senior, Acts
<1>7. Knows(j)
  BY <1>2, <1>6 DEF Knows, Asked, Linked, Spared, Counted, Given, Agreed, Hiring, Answering
<1>8. j.pc \notin {"send", "supersede", "create"}
  BY <1>2
<1>. QED  BY <1>1, <1>4, <1>5, <1>7, <1>8, QuietStep

LEMMA OpenLinkStep ==
    ASSUME AccountsAssumption, Inv, NEW w \in Workers, NEW x \in Transfers, NEW answer,
           OpenLink(w, x, answer)
    PROVE  Inv'
<1> DEFINE j == [Idle EXCEPT !.pc = answer, !.transfer = x,
                             !.user = transfer[x].driver, !.by = transfer[x].by,
                             !.company = transfer[x].to]
<1>1. /\ answer \in {"requester", "decline"} /\ FoundOpen(x)
      /\ task' = [task EXCEPT ![w] = j] /\ UNCHANGED <<user, transfer, caught>>
  BY DEF OpenLink, Start
<1>2. /\ j.pc = answer /\ j.transfer = x /\ j.user = transfer[x].driver
      /\ j.by = transfer[x].by /\ j.company = transfer[x].to
  BY DEF Idle
<1>3. transfer[x] # NoTransfer /\ transfer[x] \in TransferRows
  BY <1>1 DEF Inv, TypeOK, FoundOpen, Unanswered
<1>4. /\ transfer[x].driver \in Users /\ transfer[x].to \in Companies
      /\ transfer[x].by \in Users
  BY <1>3 DEF TransferRows
<1>5. j \in Tasks
  BY <1>1, <1>4 DEF Idle, Tasks, Steps
<1> HIDE DEF j
<1>6. Role[transfer[x].driver] = "DRIVER"
  BY <1>3 DEF Inv, Rows
<1>7. Stage(j)
  BY <1>1, <1>2, <1>4, <1>6 DEF Stage, Hiring, Answering
<1>8. /\ transfer[x].texted /\ ~transfer[x].declined /\ ~transfer[x].over
      /\ ~user[transfer[x].driver].erased
      /\ user[transfer[x].driver].company = transfer[x].from
  BY <1>1 DEF FoundOpen, Unanswered, Expired
<1>9. Knows(j)
  BY <1>1, <1>2, <1>8 DEF Knows, Asked, Linked, Spared, Counted, Given, Agreed,
                          Hiring, Answering
<1>. QED  BY <1>1, <1>2, <1>5, <1>7, <1>9, QuietStep

LEMMA ReadRequesterStep ==
    ASSUME AccountsAssumption, Inv, NEW w \in Workers, ReadRequester(w)
    PROVE  Inv'
<1>0. PICK i \in Tasks : task[w] = i
  BY DEF Inv, TypeOK
<1> DEFINE b == IF user[i.by].company = i.company /\ ~user[i.by].erased
                THEN i.by ELSE None
           j == [i EXCEPT !.pc = "accept", !.boss = b]
<1>1. /\ i.pc = "requester" /\ task' = [task EXCEPT ![w] = j]
      /\ UNCHANGED <<user, transfer, caught>>
  BY <1>0 DEF ReadRequester, Inv, TypeOK
<1>2. /\ j.pc = "accept" /\ j.boss = b /\ j.transfer = i.transfer /\ j.user = i.user
      /\ j.by = i.by /\ j.company = i.company
  BY DEF Tasks
<1>3. Stage(i) /\ Knows(i) /\ Rows /\ TypeOK
  BY <1>0 DEF Inv, Tasked
<1>4. i.transfer \in Transfers
  BY <1>1, <1>3 DEF Stage, Answering
<1>5. /\ transfer[i.transfer] # NoTransfer /\ transfer[i.transfer].by = i.by
      /\ transfer[i.transfer].to = i.company
  BY <1>1, <1>3 DEF Knows, Linked, Answering, NoTransfer
<1>6. SeniorOf(i.by, i.company)
  BY <1>3, <1>4, <1>5 DEF Rows
<1>7. b = None \/ (b = i.by /\ b \in Users)
  BY <1>6 DEF SeniorOf, Senior
<1> HIDE DEF b
<1>8. j \in Tasks
  BY <1>7 DEF Tasks, Steps
<1> HIDE DEF j
<1>9. Stage(j)
  BY <1>1, <1>2, <1>3 DEF Stage, Hiring, Answering
<1>10. Knows(j)
  BY <1>1, <1>2, <1>3, <1>6, <1>7
     DEF Knows, Asked, Linked, Spared, Counted, Given, Agreed, Hiring, Answering
<1>. QED  BY <1>1, <1>2, <1>8, <1>9, <1>10, QuietStep

LEMMA ActivateStep ==
    ASSUME AccountsAssumption, Inv, NEW w \in Workers, NEW r \in Users, NEW u \in Users,
           Activate(w, r, u)
    PROVE  Inv'
<1> DEFINE j == [Idle EXCEPT !.pc = "activate", !.by = r, !.user = u]
<1>1. /\ ~user[u].erased
      /\ task' = [task EXCEPT ![w] = j] /\ UNCHANGED <<user, transfer, caught>>
  BY DEF Activate, Start
<1>2. j.pc = "activate" /\ j.by = r /\ j.user = u
  BY DEF Idle
<1>3. j \in Tasks
  BY DEF Idle, Tasks, Steps
<1> HIDE DEF j
<1>4. Stage(j)
  BY <1>2 DEF Stage, Hiring, Answering
<1>5. Knows(j)
  BY <1>1, <1>2 DEF Knows, Asked, Linked, Spared, Counted, Given, Agreed, Hiring, Answering
<1>. QED  BY <1>1, <1>2, <1>3, <1>4, <1>5, QuietStep

\* Only another administrator suspends one; their row may be the erased one
\* that is active, and then it is caught.
LEMMA DeactivateStep ==
    ASSUME AccountsAssumption, Inv, NEW w \in Workers, NEW r \in Users, NEW u \in Users,
           Deactivate(w, r, u)
    PROVE  Inv'
<1> DEFINE j == [Idle EXCEPT !.pc = "deactivate", !.by = r, !.user = u]
<1>1. /\ InReach(r, u)
      /\ task' = [task EXCEPT ![w] = j] /\ UNCHANGED <<user, transfer, caught>>
  BY DEF Deactivate, Start
<1>2. j.pc = "deactivate" /\ j.by = r /\ j.user = u
  BY DEF Idle
<1>3. j \in Tasks
  BY DEF Idle, Tasks, Steps
<1> HIDE DEF j
<1>4. Stage(j)
  BY <1>2 DEF Stage, Hiring, Answering
<1>5. ASSUME Role[u] = "ADMIN" PROVE r # u /\ Stands(r, user[r].company)
  <2>1. r # u /\ Role[r] = "ADMIN" /\ user[r].active /\ Exists(r)
    BY <1>1, <1>5 DEF InReach, CanManageUser, Acts
  <2>2. user[r].erased => r \in caught
    BY <2>1 DEF Inv, ErasedStaysOut
  <2>. QED  BY <2>1, <2>2 DEF Stands, Administers
<1>6. Knows(j)
  BY <1>2, <1>5 DEF Knows, Asked, Linked, Spared, Counted, Given, Agreed, Hiring, Answering
<1>. QED  BY <1>1, <1>2, <1>3, <1>4, <1>6, QuietStep

LEMMA DeleteOwnAccountStep ==
    ASSUME AccountsAssumption, Inv, NEW w \in Workers, NEW u \in Users,
           DeleteOwnAccount(w, u)
    PROVE  Inv'
<1> DEFINE j == [Idle EXCEPT !.pc = IF Role[u] = "ADMIN" THEN "countAdmins" ELSE "erase",
                             !.user = u]
<1>1. Acts(u) /\ task' = [task EXCEPT ![w] = j] /\ UNCHANGED <<user, transfer, caught>>
  BY DEF DeleteOwnAccount, Start
<1>2. j.pc = (IF Role[u] = "ADMIN" THEN "countAdmins" ELSE "erase") /\ j.user = u
  BY DEF Idle
<1>3. j \in Tasks
  BY DEF Idle, Tasks, Steps
<1> HIDE DEF j
<1>4. Stage(j)
  BY <1>2 DEF Stage, Hiring, Answering
<1>5. Knows(j)
  BY <1>1, <1>2 DEF Knows, Asked, Linked, Spared, Counted, Given, Agreed, Hiring, Answering,
                    Senior, Acts
<1>. QED  BY <1>1, <1>2, <1>3, <1>4, <1>5, QuietStep

LEMMA CountAdminsStep ==
    ASSUME AccountsAssumption, Inv, NEW w \in Workers, CountAdmins(w)
    PROVE  Inv'
<1>0. PICK i \in Tasks : task[w] = i
  BY DEF Inv, TypeOK
<1>1. i.pc = "countAdmins" /\ UNCHANGED <<user, transfer, caught>>
  BY <1>0 DEF CountAdmins
<1>2. CASE OtherAdmins(i.user) = {}
  BY <1>0, <1>1, <1>2, StopStep DEF CountAdmins
<1>3. CASE OtherAdmins(i.user) # {}
  <2> DEFINE j == [i EXCEPT !.pc = "erase"]
  <2>1. task' = [task EXCEPT ![w] = j]
    BY <1>0, <1>3 DEF CountAdmins, Goto, Inv, TypeOK
  <2>2. j.pc = "erase" /\ j.user = i.user
    BY DEF Tasks
  <2>3. j \in Tasks
    BY DEF Tasks, Steps
  <2> HIDE DEF j
  <2>4. Stage(i) /\ Senior(i.user)
    BY <1>0, <1>1 DEF Inv, Tasked, Knows, Counted
  <2>5. Stage(j)
    BY <1>1, <2>2, <2>4 DEF Stage, Hiring, Answering
  <2>6. \E a \in Users \ {i.user} : Stands(a, user[i.user].company)
    BY <1>3, <2>4 DEF OtherAdmins, Stands, Administers, Senior, Exists
  <2>7. Knows(j)
    BY <2>2, <2>6 DEF Knows, Asked, Linked, Spared, Counted, Given, Agreed, Hiring, Answering
  <2>. QED  BY <1>1, <2>1, <2>2, <2>3, <2>5, <2>7, QuietStep
<1>. QED  BY <1>2, <1>3

LEMMA UpdateDriverStep ==
    ASSUME AccountsAssumption, Inv, NEW w \in Workers, NEW r \in Users, NEW u \in Users,
           NEW seat \in Companies \cup {None, Keep}, NEW boss \in Users \cup {None, Keep},
           UpdateDriver(w, r, u, seat, boss)
    PROVE  Inv'
<1> DEFINE j == [Idle EXCEPT !.pc = IF seat = Keep THEN "boss" ELSE "seat",
                             !.by = r, !.user = u, !.seat = seat, !.boss = boss]
<1>1. /\ Exists(u) /\ Role[u] = "DRIVER" /\ seat \in {Keep, None, user[u].company}
      /\ boss \in Users => Role[boss] # "DRIVER" /\ user[boss].company = user[u].company
      /\ task' = [task EXCEPT ![w] = j] /\ UNCHANGED <<user, transfer, caught>>
  BY DEF UpdateDriver, Start, InReach, AccountsAssumption
<1>2. /\ j.pc = (IF seat = Keep THEN "boss" ELSE "seat")
      /\ j.user = u /\ j.seat = seat /\ j.boss = boss
  BY DEF Idle
<1>3. j \in Tasks
  BY DEF Idle, Tasks, Steps
<1> HIDE DEF j
<1>4. Stage(j)
  BY <1>1, <1>2 DEF Stage, Hiring, Answering
<1>5. boss \in Users => Senior(boss)
  BY <1>1 DEF Senior, Exists
<1>6. Knows(j)
  BY <1>1, <1>2, <1>5
     DEF Knows, Asked, Linked, Spared, Counted, Given, Agreed, Hiring, Answering
<1>. QED  BY <1>1, <1>2, <1>3, <1>4, <1>6, QuietStep

LEMMA DieStep ==
    ASSUME AccountsAssumption, Inv, NEW w \in Workers, Die(w)
    PROVE  Inv'
  BY StopStep DEF Die


\* A request that passed the counts leaves room for every other worker's.
LEMMA CheckStep ==
    ASSUME AccountsAssumption, Inv, NEW w \in Workers, Check(w)
    PROVE  Inv'
<1>0. PICK i \in Tasks : task[w] = i
  BY DEF Inv, TypeOK
<1>1. i.pc = "check" /\ UNCHANGED <<user, transfer, caught>> /\ Stage(i) /\ Knows(i)
  BY <1>0 DEF Check, Inv, Tasked
<1>2. CASE Return(w)
  BY <1>1, <1>2, StopStep
<1>3. CASE ~Return(w)
  <2> DEFINE j == [i EXCEPT !.pc = "supersede"]
  <2>1. /\ task' = [task EXCEPT ![w] = j]
        /\ ~(Cardinality(TodayFor(i.user)) >= MaxPerDay)
        /\ ~(Cardinality(TodayBy(i.company)) >= MaxPerCompany)
    BY <1>0, <1>3 DEF Check, Goto, Inv, TypeOK
  <2>2. j.pc = "supersede" /\ j.user = i.user /\ j.company = i.company /\ j.from = i.from
        /\ j.by = i.by
    BY DEF Tasks
  <2>3. j \in Tasks
    BY DEF Tasks, Steps
  <2> HIDE DEF j
  <2>4. Stage(j)
    BY <1>1, <2>2 DEF Stage, Hiring, Answering
  <2>5. Knows(j)
    BY <1>1, <2>2 DEF Knows, Asked, Linked, Spared, Counted, Given, Agreed, Hiring, Answering
  <2>6. /\ TypeOK' /\ Rows' /\ Tasked'
        /\ ErasedStaysOut' /\ CompanyGoesTogether'
    BY <1>1, <2>1, <2>2, <2>3, <2>4, <2>5, QuietTask
  <2>7. /\ task'[w] = j
        /\ \A v \in Workers \ {w} : task'[v] = task[v]
    BY <2>1, <2>3, OneWorkerMoves DEF Inv
  <2>8. MadeToday' = MadeToday /\ IsFiniteSet(MadeToday) /\ N' = N
        /\ MaxPerDay \in Nat /\ MaxPerCompany \in Nat
    BY <1>1 DEF MadeToday, Inv, Caps, N, AccountsAssumption
  <2>9. ASSUME NEW u \in Users
        PROVE  Cardinality(TodayFor(u)') + Cardinality(AskingOf(u)') < MaxPerDay + N
    <3>1. TodayFor(u)' = TodayFor(u) /\ TodayFor(u) \in SUBSET MadeToday
      BY <1>1, <2>8 DEF TodayFor
    <3>2. Cardinality(TodayFor(u)) \in Nat
      BY <2>8, <3>1, CountFewer
    <3>3. AskingOf(u)' \in SUBSET Workers /\ AskingOf(u) \in SUBSET Workers
      BY DEF AskingOf
    <3>4. /\ Cardinality(AskingOf(u)') \in Nat /\ Cardinality(AskingOf(u)') <= N /\ N \in Nat
          /\ Cardinality(AskingOf(u)) \in Nat /\ IsFiniteSet(AskingOf(u))
      BY <3>3, CountWorkers
    <3>5. CASE u = i.user
      BY <2>1, <2>8, <3>1, <3>2, <3>4, <3>5
    <3>6. CASE u # i.user
      <4>1. AskingOf(u)' \in SUBSET AskingOf(u)
        BY <2>2, <2>7, <3>6 DEF AskingOf
      <4>2. Cardinality(AskingOf(u)') <= Cardinality(AskingOf(u))
        BY <3>4, <4>1, CountFewer
      <4>3. Cardinality(TodayFor(u)) + Cardinality(AskingOf(u)) < MaxPerDay + N
        BY DEF Inv, Caps
      <4>. QED  BY <2>8, <3>1, <3>2, <3>4, <4>2, <4>3
    <3>. QED  BY <3>5, <3>6
  <2>10. ASSUME NEW c \in Companies
         PROVE  Cardinality(TodayBy(c)') + Cardinality(AskingBy(c)') < MaxPerCompany + N
    <3>1. TodayBy(c)' = TodayBy(c) /\ TodayBy(c) \in SUBSET MadeToday
      BY <1>1, <2>8 DEF TodayBy
    <3>2. Cardinality(TodayBy(c)) \in Nat
      BY <2>8, <3>1, CountFewer
    <3>3. AskingBy(c)' \in SUBSET Workers /\ AskingBy(c) \in SUBSET Workers
      BY DEF AskingBy
    <3>4. /\ Cardinality(AskingBy(c)') \in Nat /\ Cardinality(AskingBy(c)') <= N /\ N \in Nat
          /\ Cardinality(AskingBy(c)) \in Nat /\ IsFiniteSet(AskingBy(c))
      BY <3>3, CountWorkers
    <3>5. CASE c = i.company
      BY <2>1, <2>8, <3>1, <3>2, <3>4, <3>5
    <3>6. CASE c # i.company
      <4>1. AskingBy(c)' \in SUBSET AskingBy(c)
        BY <2>2, <2>7, <3>6 DEF AskingBy
      <4>2. Cardinality(AskingBy(c)') <= Cardinality(AskingBy(c))
        BY <3>4, <4>1, CountFewer
      <4>3. Cardinality(TodayBy(c)) + Cardinality(AskingBy(c)) < MaxPerCompany + N
        BY DEF Inv, Caps
      <4>. QED  BY <2>8, <3>1, <3>2, <3>4, <4>2, <4>3
    <3>. QED  BY <3>5, <3>6
  <2>11. Caps'
    BY <2>8, <2>9, <2>10 DEF Caps
  <2>. QED  BY <2>6, <2>11 DEF Inv
<1>. QED  BY <1>2, <1>3

-----------------------------------------------------------------------------
(* Steps that write the row of a user, or requests about a user.           *)

LEMMA IdleKnowsNext ==
    ASSUME NEW w \in Workers, task'[w].pc = "idle"
    PROVE  Knows(task[w])'
  BY DEF Knows, Asked, Linked, Spared, Counted, Given, Agreed, Hiring, Answering

\* Worker w goes on to j, having written the row of u or requests about u.
RowChange(w, j, u, row) ==
    /\ task' = [task EXCEPT ![w] = j]
    /\ Stage(j) /\ Knows(task[w])'
    /\ j.pc \notin {"send", "supersede"}
    /\ j.pc = "create" => /\ task[w].pc \in {"supersede", "create"}
                          /\ j.user = task[w].user /\ j.company = task[w].company
    /\ user' = [user EXCEPT ![u] = row]
    /\ Exists(u) => row.company # None
    /\ Exists(u) /\ Role[u] # "DRIVER" => row.company = user[u].company
    /\ row.boss \in {None, user[u].boss} \/ Senior(row.boss)
    /\ row.erased /\ row.active => u \in caught'
    /\ \/ u \in caught'
       \/ /\ row.seat \in {None, row.company}
          /\ row.boss # None => Senior(row.boss) /\ user[row.boss].company = row.company
    /\ transfer' \in [Transfers -> TransferRows]
    /\ \A x \in Transfers :
          /\ transfer[x] = NoTransfer => transfer'[x] = NoTransfer
          /\ transfer[x] # NoTransfer => Kept(x) /\ transfer'[x].age = transfer[x].age
          /\ transfer[x] # NoTransfer /\ transfer[x].driver # u =>
               /\ transfer'[x].declined = transfer[x].declined
               /\ transfer'[x].over = transfer[x].over
    /\ caught \subseteq caught' /\ caught' \subseteq Users
    /\ \A v \in Workers \ {w} : u \in ReliesOn(v) => u \in caught' \/ Undisturbed(u)

LEMMA RowStep ==
    ASSUME AccountsAssumption, Inv, NEW w \in Workers, NEW j \in Tasks,
           NEW u \in Users, NEW row \in UserRows, RowChange(w, j, u, row)
    PROVE  Inv'
<1>. USE DEF RowChange
<1>0. TypeOK /\ Rows /\ Tasked /\ ErasedStaysOut /\ CompanyGoesTogether /\ Caps
  BY DEF Inv
<1>1. /\ task' \in [Workers -> Tasks] /\ task'[w] = j
      /\ \A v \in Workers \ {w} : task'[v] = task[v]
  BY <1>0, OneWorkerMoves
<1>2. /\ user' \in [Users -> UserRows] /\ user'[u] = row
      /\ \A a \in Users \ {u} : user'[a] = user[a]
  BY <1>0 DEF TypeOK
<1>3. Frame({w})
  <2>1. ASSUME NEW a \in Users \ {u} PROVE Undisturbed(a)
    BY <1>2, <2>1 DEF Undisturbed, Administers
  <2>2. \A v \in Workers \ {w} : \A a \in ReliesOn(v) \cap Users :
           a \in caught' \/ Undisturbed(a)
    BY <2>1
  <2>3. \A b \in Users : Senior(b) => Senior(b)' /\ user'[b].company = user[b].company
    BY <1>2 DEF Senior, Exists
  <2>. QED  BY <1>1, <2>2, <2>3 DEF Frame
<1>4. Tasked'
  BY <1>3, TaskedStep
<1>5. TypeOK'
  BY <1>1, <1>2 DEF TypeOK
<1>6. Rows'
  <2>1. ASSUME NEW a \in Users, user'[a].boss # None PROVE Senior(user[a].boss)'
    <3>1. Senior(user'[a].boss)
      BY <1>0, <1>2, <2>1 DEF Rows
    <3>2. user'[a].boss \in Users
      BY <3>1 DEF Senior
    <3>3. PICK b \in Users : b = user'[a].boss
      BY <3>2
    <3>4. Senior(b)'
      BY <1>3, <3>1, <3>3 DEF Frame
    <3>. QED  BY <3>3, <3>4 DEF Senior, Exists
  <2>2. ASSUME NEW x \in Transfers, transfer'[x] # NoTransfer
        PROVE  SeniorOf(transfer[x].by, transfer[x].to)' /\ Role[transfer'[x].driver] = "DRIVER"
    <3>1. transfer[x] # NoTransfer /\ Kept(x)
      BY <2>2
    <3>2. SeniorOf(transfer[x].by, transfer[x].to) /\ Role[transfer[x].driver] = "DRIVER"
      BY <1>0, <3>1 DEF Rows
    <3>3. PICK b \in Users : b = transfer[x].by
      BY <3>2 DEF SeniorOf, Senior
    <3>4. Senior(b)' /\ user'[b].company = transfer[x].to
      BY <1>3, <3>2, <3>3 DEF Frame, SeniorOf
    <3>5. transfer'[x].by = b /\ transfer'[x].to = transfer[x].to
          /\ transfer'[x].driver = transfer[x].driver
      BY <3>1, <3>3 DEF Kept
    <3>. QED  BY <3>2, <3>4, <3>5 DEF SeniorOf, Senior, Exists
  <2>. QED  BY <2>1, <2>2 DEF Rows
<1>7. ErasedStaysOut'
  BY <1>0, <1>2 DEF ErasedStaysOut
<1>8. CompanyGoesTogether'
  <2>1. SUFFICES ASSUME NEW a \in Users \ caught'
                 PROVE  /\ user'[a].seat \in {None, user'[a].company}
                        /\ user'[a].boss # None =>
                             user'[user'[a].boss].company = user'[a].company
    BY DEF CompanyGoesTogether
  <2>2. /\ user'[a].seat \in {None, user'[a].company}
        /\ user'[a].boss # None => /\ Senior(user'[a].boss)
                                   /\ user[user'[a].boss].company = user'[a].company
    BY <1>0, <1>2 DEF Rows, CompanyGoesTogether
  <2>3. ASSUME user'[a].boss # None
        PROVE  user'[user'[a].boss].company = user[user'[a].boss].company
    BY <1>3, <2>2, <2>3 DEF Frame, Senior
  <2>. QED  BY <2>2, <2>3
<1>9. Caps'
  <2>1. /\ MadeToday' = MadeToday
        /\ \A x \in MadeToday' : /\ transfer'[x].driver = transfer[x].driver
                                 /\ transfer'[x].to = transfer[x].to
    BY DEF MadeToday, Kept
  <2>2. /\ \A a \in Users : AskingOf(a)' \subseteq AskingOf(a)
        /\ \A c \in Companies : AskingBy(c)' \subseteq AskingBy(c)
    BY <1>0, AskersLeave
  <2>. QED  BY <1>0, <2>1, <2>2, CapsStay
<1>. QED  BY <1>4, <1>5, <1>6, <1>7, <1>8, <1>9 DEF Inv


LEMMA Touched ==
    ASSUME TypeOK, NEW w \in Workers, NEW u \in Users, Touch(w, u)
    PROVE  /\ caught \subseteq caught' /\ caught' \subseteq Users
           /\ \A v \in Workers \ {w} : u \in ReliesOn(v) => u \in caught'
  BY DEF TypeOK, Touch

LEMMA SameTransfers ==
    ASSUME TypeOK, transfer' = transfer
    PROVE  /\ transfer' \in [Transfers -> TransferRows]
           /\ \A x \in Transfers : Kept(x) \/ transfer'[x] = NoTransfer
           /\ \A x \in Transfers : transfer[x] # NoTransfer => Kept(x)
  BY DEF TypeOK, Kept

\* The rows of requests that there are.
MadeRows ==
    [driver : Users, from : Companies, to : Companies, by : Users,
     texted : BOOLEAN, accepted : BOOLEAN, declined : BOOLEAN, over : BOOLEAN,
     age : {"fresh", "cooled", "old"}]

LEMMA MadeIsThere ==
    ASSUME AccountsAssumption
    PROVE  TransferRows = {NoTransfer} \cup MadeRows /\ NoTransfer \notin MadeRows
  BY DEF AccountsAssumption, TransferRows, MadeRows, NoTransfer

\* An answer, or a newer request, changes no more of a request than its state.
LEMMA MadeAgain ==
    ASSUME AccountsAssumption, TypeOK, NEW x \in Transfers, transfer[x] # NoTransfer,
           NEW a \in BOOLEAN, NEW d \in BOOLEAN, NEW o \in BOOLEAN,
           transfer'[x] = [transfer[x] EXCEPT !.accepted = a, !.declined = d, !.over = o]
    PROVE  /\ transfer'[x] \in TransferRows /\ Kept(x)
           /\ transfer'[x].age = transfer[x].age
           /\ transfer'[x].accepted = a /\ transfer'[x].declined = d /\ transfer'[x].over = o
<1>1. transfer[x] \in MadeRows
  BY MadeIsThere DEF TypeOK
<1>2. /\ transfer'[x] \in MadeRows
      /\ transfer'[x].texted = transfer[x].texted
      /\ transfer'[x].driver = transfer[x].driver
      /\ transfer'[x].from = transfer[x].from
      /\ transfer'[x].to = transfer[x].to
      /\ transfer'[x].by = transfer[x].by
      /\ transfer'[x].age = transfer[x].age
      /\ transfer'[x].accepted = a /\ transfer'[x].declined = d /\ transfer'[x].over = o
  BY <1>1 DEF MadeRows
<1>. QED  BY <1>2, MadeIsThere DEF Kept

LEMMA HiredRow ==
    ASSUME NEW c \in Companies, NEW b \in Users
    PROVE  /\ Hired(c, b) \in UserRows
           /\ Hired(c, b).company = c /\ Hired(c, b).active = TRUE
           /\ Hired(c, b).erased = FALSE /\ Hired(c, b).boss = b
           /\ Hired(c, b).seat = None
  BY DEF Hired, NoUser, UserRows

\* What a hired row needs: it was not there, and its manager is of the company.
LEMMA HireStep ==
    ASSUME AccountsAssumption, Inv, NEW w \in Workers, task' = [task EXCEPT ![w] = Idle],
           NEW u \in Users, Role[u] # "ADMIN", ~Exists(u),
           NEW c \in Companies, NEW b \in Users, SeniorOf(b, c),
           user' = [user EXCEPT ![u] = Hired(c, b)], UNCHANGED <<transfer, caught>>
    PROVE  Inv'
<1> DEFINE row == Hired(c, b)
<1>0. c \in Companies /\ b \in Users
  OBVIOUS
<1>1. /\ row \in UserRows /\ row.company = c /\ row.active = TRUE
      /\ row.erased = FALSE /\ row.boss = b /\ row.seat = None
  BY ONLY <1>0, HiredRow
<1> HIDE DEF row
<1>2. user' = [user EXCEPT ![u] = row] /\ TypeOK
  BY DEF row, Inv
<1>3. user'[u] = row
  BY <1>2 DEF TypeOK
<1>4. Undisturbed(u)
  BY <1>1, <1>3 DEF Undisturbed, Administers
<1>5. task'[w] = Idle
  BY <1>2, OneWorkerMoves, IdleIsTask
<1>6. Stage(Idle) /\ Knows(task[w])'
  BY <1>5, IdleIsTask, IdleKnows, IdleKnowsNext
<1>7. caught' \subseteq Users
  BY <1>2 DEF TypeOK
<1>8. Senior(row.boss) /\ user[row.boss].company = row.company
  BY <1>1 DEF SeniorOf
<1>9. /\ transfer' \in [Transfers -> TransferRows]
       /\ \A x \in Transfers : transfer[x] # NoTransfer => Kept(x)
  BY <1>2, SameTransfers
<1>10. RowChange(w, Idle, u, row)
  BY <1>1, <1>2, <1>4, <1>6, <1>7, <1>8, <1>9, IdleIsTask DEF RowChange
<1>. QED  BY <1>1, <1>10, IdleIsTask, RowStep

LEMMA CreateManagerStep ==
    ASSUME AccountsAssumption, Inv, NEW w \in Workers, NEW r \in Users, NEW u \in Users,
           CreateManager(w, r, u)
    PROVE  Inv'
<1>1. /\ Acts(r) /\ Role[r] = "TEAMLEAD" /\ Role[u] = "MANAGER" /\ ~Exists(u)
      /\ user' = [user EXCEPT ![u] = Hired(user[r].company, r)]
      /\ UNCHANGED <<transfer, task, caught>>
  BY DEF CreateManager
<1>2. task' = [task EXCEPT ![w] = Idle]
  BY <1>1 DEF CreateManager, Free, Inv, TypeOK
<1>3. SeniorOf(r, user[r].company)
  BY <1>1 DEF Acts, SeniorOf, Senior
<1>4. user[r].company \in Companies
  BY <1>1, RowsOfUsers DEF Inv, Acts
<1>. QED  BY <1>1, <1>2, <1>3, <1>4, HireStep

LEMMA InsertStep ==
    ASSUME AccountsAssumption, Inv, NEW w \in Workers, Insert(w)
    PROVE  Inv'
<1>0. PICK i \in Tasks : task[w] = i
  BY DEF Inv, TypeOK
<1>1. i.pc = "insert" /\ Stage(i) /\ Knows(i)
      /\ Return(w) /\ UNCHANGED <<transfer, caught>>
  BY <1>0 DEF Insert, Inv, Tasked
<1>2. CASE Exists(i.user)
  BY <1>0, <1>1, <1>2, StopStep DEF Insert
<1>3. CASE ~Exists(i.user)
  <2>1. user' = [user EXCEPT ![i.user] = Hired(i.company, i.by)]
    BY <1>0, <1>3 DEF Insert
  <2>2. i.user \in Users /\ i.company \in Companies /\ Role[i.user] = "DRIVER"
    BY <1>1 DEF Stage, Hiring
  <2>3. SeniorOf(i.by, i.company) /\ i.by \in Users
    BY <1>1 DEF Knows, Asked, SeniorOf, Senior, Hiring
  <2>. QED  BY <1>1, <1>3, <2>1, <2>2, <2>3, HireStep DEF Return
<1>. QED  BY <1>2, <1>3

LEMMA SupersedeStep ==
    ASSUME AccountsAssumption, Inv, NEW w \in Workers, Supersede(w)
    PROVE  Inv'
<1>0. PICK i \in Tasks : task[w] = i
  BY DEF Inv, TypeOK
<1>1. TypeOK /\ Rows /\ CompanyGoesTogether /\ ErasedStaysOut
  BY DEF Inv
<1> DEFINE j == [i EXCEPT !.pc = "create"]
<1>2. /\ i.pc = "supersede" /\ Stage(i) /\ Knows(i)
      /\ task' = [task EXCEPT ![w] = j] /\ Touch(w, i.user) /\ user' = user
      /\ transfer' = [x \in Transfers |-> [transfer[x] EXCEPT !.over = @ \/ x \in OfPair(i)]]
  BY <1>0 DEF Supersede, Goto, Inv, TypeOK, Tasked
<1>3. /\ j.pc = "create" /\ j.user = i.user /\ j.company = i.company /\ j.from = i.from
      /\ j.by = i.by
  BY DEF Tasks
<1>4. j \in Tasks
  BY DEF Tasks, Steps
<1> HIDE DEF j
<1>5. i.user \in Users /\ Role[i.user] = "DRIVER" /\ SeniorOf(i.by, i.company)
  BY <1>2 DEF Stage, Knows, Asked, Hiring
<1>a. PICK u \in Users : u = i.user
  BY <1>5
<1>b. PICK row \in UserRows : row = user[u]
  BY <1>1 DEF TypeOK
<1>6. Stage(j)
  BY <1>2, <1>3 DEF Stage, Hiring, Answering
<1>7. task'[w] = j
  BY <1>1, <1>2, <1>4, OneWorkerMoves
<1>8. Knows(task[w])'
  BY <1>2, <1>3, <1>5, <1>7 DEF Knows, Asked, Linked, Spared, Counted, Given, Agreed,
                               Hiring, Answering, SeniorOf, Senior, Exists
<1>9. /\ caught \subseteq caught' /\ caught' \subseteq Users
      /\ \A v \in Workers \ {w} : u \in ReliesOn(v) => u \in caught'
  BY <1>a, <1>1, <1>2, Touched
<1>10. user' = [user EXCEPT ![u] = row]
  BY <1>b, <1>1, <1>2 DEF TypeOK
<1>11. ASSUME NEW x \in Transfers
       PROVE  /\ transfer'[x] \in TransferRows
              /\ transfer[x] = NoTransfer => transfer'[x] = NoTransfer
              /\ transfer[x] # NoTransfer => Kept(x) /\ transfer'[x].age = transfer[x].age
              /\ transfer[x] # NoTransfer /\ transfer[x].driver # u =>
                   /\ transfer'[x].declined = transfer[x].declined
                   /\ transfer'[x].over = transfer[x].over
  <2>1. transfer[x] \in TransferRows
    BY <1>1 DEF TypeOK
  <2>2. CASE transfer[x] = NoTransfer
    <3>1. x \notin OfPair(i)
      BY <2>2 DEF OfPair, Unanswered
    <3>2. transfer'[x] = [NoTransfer EXCEPT !.over = @]
      BY <1>2, <2>2, <3>1 DEF NoTransfer
    <3>3. transfer'[x] = NoTransfer
      BY <3>2 DEF NoTransfer
    <3>. QED  BY <2>1, <2>2, <3>3
  <2>3. CASE transfer[x] # NoTransfer
    <3> DEFINE o == transfer[x].over \/ x \in OfPair(i)
    <3>1. transfer[x] \in MadeRows
      BY <2>1, <2>3, MadeIsThere
    <3>2. /\ transfer[x].accepted \in BOOLEAN /\ transfer[x].declined \in BOOLEAN
          /\ o \in BOOLEAN
      BY <3>1 DEF MadeRows
    <3>3. x \notin OfPair(i) => o = transfer[x].over
      BY <3>1 DEF MadeRows
    <3>4. transfer'[x] = [transfer[x] EXCEPT !.over = o]
      BY <1>2
    <3> HIDE DEF o
    <3>5. transfer'[x] = [transfer[x] EXCEPT !.accepted = transfer[x].accepted,
                            !.declined = transfer[x].declined, !.over = o]
      BY <3>1, <3>4 DEF MadeRows
    <3>6. /\ transfer'[x] \in TransferRows /\ Kept(x)
          /\ transfer'[x].age = transfer[x].age
          /\ transfer'[x].declined = transfer[x].declined /\ transfer'[x].over = o
      BY <1>1, <2>3, <3>2, <3>5, MadeAgain
    <3>7. x \in OfPair(i) => transfer[x].driver = i.user
      BY DEF OfPair
    <3>. QED  BY <1>a, <2>3, <3>3, <3>6, <3>7
  <2>. QED  BY <2>2, <2>3
<1>12. transfer' \in [Transfers -> TransferRows]
  BY <1>2, <1>11
<1>13. \/ u \in caught'
       \/ /\ row.seat \in {None, row.company}
          /\ row.boss # None => Senior(row.boss) /\ user[row.boss].company = row.company
  BY <1>b, <1>1, <1>9 DEF CompanyGoesTogether, Rows
<1>14. /\ row.erased /\ row.active => u \in caught'
       /\ Exists(u) => row.company # None /\ row.company = user[u].company
  BY <1>b, <1>1, <1>9 DEF ErasedStaysOut, Exists
<1>15. /\ j.pc \notin {"send", "supersede"} /\ row.boss = user[u].boss
       /\ j.pc = "create" => /\ task[w].pc \in {"supersede", "create"}
                             /\ j.user = task[w].user /\ j.company = task[w].company
  BY <1>b, <1>0, <1>2, <1>3
<1>16. RowChange(w, j, u, row)
  BY <1>2, <1>6, <1>8, <1>9, <1>10, <1>11, <1>12, <1>13, <1>14, <1>15 DEF RowChange
<1>. QED  BY <1>4, <1>16, RowStep


LEMMA DeclineStep ==
    ASSUME AccountsAssumption, Inv, NEW w \in Workers, Decline(w)
    PROVE  Inv'
<1>0. PICK i \in Tasks : task[w] = i
  BY DEF Inv, TypeOK
<1>1. TypeOK /\ Rows /\ CompanyGoesTogether /\ ErasedStaysOut
  BY DEF Inv
<1>2. /\ i.pc = "decline" /\ Stage(i) /\ Knows(i)
      /\ task' = [task EXCEPT ![w] = Idle] /\ Touch(w, i.user) /\ user' = user
      /\ transfer' = [transfer EXCEPT ![i.transfer].declined = TRUE]
  BY <1>0 DEF Decline, Return, Inv, Tasked
<1>3. PICK u \in Users : u = i.user
  BY <1>2 DEF Stage, Answering
<1>4. PICK row \in UserRows : row = user[u]
  BY <1>1 DEF TypeOK
<1>5. /\ Role[u] = "DRIVER" /\ i.transfer \in Transfers
      /\ transfer[i.transfer].driver = u /\ transfer[i.transfer] # NoTransfer
  BY <1>2, <1>3 DEF Stage, Knows, Linked, Answering, NoTransfer
<1>6. task'[w] = Idle
  BY <1>1, <1>2, IdleIsTask, OneWorkerMoves
<1>7. Stage(Idle) /\ Knows(task[w])'
  BY <1>6, IdleIsTask, IdleKnows, IdleKnowsNext
<1>8. /\ caught \subseteq caught' /\ caught' \subseteq Users
      /\ \A v \in Workers \ {w} : u \in ReliesOn(v) => u \in caught'
  BY <1>1, <1>2, <1>3, Touched
<1>9. user' = [user EXCEPT ![u] = row]
  BY <1>1, <1>2, <1>4 DEF TypeOK
<1>10. ASSUME NEW x \in Transfers
       PROVE  /\ transfer'[x] \in TransferRows
              /\ transfer[x] = NoTransfer => transfer'[x] = NoTransfer
              /\ transfer[x] # NoTransfer => Kept(x) /\ transfer'[x].age = transfer[x].age
              /\ transfer[x] # NoTransfer /\ transfer[x].driver # u =>
                   /\ transfer'[x].declined = transfer[x].declined
                   /\ transfer'[x].over = transfer[x].over
  <2>1. CASE x = i.transfer
    <3>1. transfer[x] \in MadeRows
      BY <1>1, <1>5, <2>1, MadeIsThere DEF TypeOK
    <3>2. transfer'[x] = [transfer[x] EXCEPT !.declined = TRUE]
      BY <1>1, <1>2, <2>1 DEF TypeOK
    <3>3. transfer'[x] = [transfer[x] EXCEPT !.accepted = transfer[x].accepted,
                            !.declined = TRUE, !.over = transfer[x].over]
      BY <3>1, <3>2 DEF MadeRows
    <3>4. transfer[x].accepted \in BOOLEAN /\ transfer[x].over \in BOOLEAN
      BY <3>1 DEF MadeRows
    <3>5. /\ AccountsAssumption /\ TypeOK /\ FALSE \in BOOLEAN /\ TRUE \in BOOLEAN
          /\ x \in Transfers /\ transfer[x] # NoTransfer
      BY <1>1, <1>5, <2>1
    <3>6. /\ transfer'[x] \in TransferRows /\ Kept(x)
          /\ transfer'[x].age = transfer[x].age
      BY ONLY <3>3, <3>4, <3>5, MadeAgain
    <3>. QED  BY <1>5, <2>1, <3>6
  <2>2. CASE x # i.transfer
    BY <1>1, <1>2, <2>2 DEF TypeOK, Kept
  <2>. QED  BY <2>1, <2>2
<1>11. transfer' \in [Transfers -> TransferRows]
  BY <1>1, <1>2, <1>10 DEF TypeOK
<1>12. \/ u \in caught'
       \/ /\ row.seat \in {None, row.company}
          /\ row.boss # None => Senior(row.boss) /\ user[row.boss].company = row.company
  BY <1>1, <1>4, <1>8 DEF CompanyGoesTogether, Rows
<1>13. /\ row.erased /\ row.active => u \in caught'
       /\ Exists(u) => row.company # None
       /\ row.boss = user[u].boss
  BY <1>1, <1>4, <1>8 DEF ErasedStaysOut, Exists
<1>14. RowChange(w, Idle, u, row)
  BY <1>2, <1>5, <1>7, <1>8, <1>9, <1>10, <1>11, <1>12, <1>13, IdleIsTask DEF RowChange
<1>. QED  BY <1>14, IdleIsTask, RowStep

LEMMA AcceptStep ==
    ASSUME AccountsAssumption, Inv, NEW w \in Workers, Accept(w)
    PROVE  Inv'
<1>0. PICK i \in Tasks : task[w] = i
  BY DEF Inv, TypeOK
<1>1. TypeOK
  BY DEF Inv
<1>2. /\ i.pc = "accept" /\ Stage(i) /\ Knows(i)
      /\ task' = [task EXCEPT ![w] = Idle] /\ Touch(w, i.user)
      /\ user' = [user EXCEPT ![i.user] = [@ EXCEPT !.company = i.company,
                                !.boss = i.boss, !.active = TRUE, !.seat = None]]
      /\ transfer' = [x \in Transfers |->
           IF x = i.transfer THEN [transfer[x] EXCEPT !.accepted = TRUE]
           ELSE [transfer[x] EXCEPT !.over =
                   @ \/ (Unanswered(x) /\ transfer[x].driver = i.user)]]
  BY <1>0 DEF Accept, Return, Inv, Tasked
<1>3. PICK u \in Users : u = i.user
  BY <1>2 DEF Stage, Answering
<1>4. /\ Role[u] = "DRIVER" /\ i.transfer \in Transfers /\ i.company \in Companies
      /\ transfer[i.transfer].driver = u /\ transfer[i.transfer] # NoTransfer
      /\ i.boss = None \/ SeniorOf(i.boss, i.company)
      /\ user[u].erased => u \in caught
  BY <1>2, <1>3 DEF Stage, Knows, Linked, Asked, Spared, Answering, NoTransfer
<1> DEFINE to == [user[u] EXCEPT !.company = i.company, !.boss = i.boss,
                                 !.active = TRUE, !.seat = None]
<1>5. /\ to \in UserRows /\ to.company = i.company /\ to.boss = i.boss
      /\ to.seat = None /\ to.erased = user[u].erased
  BY <1>1, <1>4 DEF TypeOK, UserRows, SeniorOf, Senior
<1>6. user' = [user EXCEPT ![u] = to]
  BY <1>2, <1>3
<1> HIDE DEF to
<1>7. PICK row \in UserRows : row = to
  BY <1>5
<1>8. task'[w] = Idle
  BY <1>1, <1>2, IdleIsTask, OneWorkerMoves
<1>9. Stage(Idle) /\ Knows(task[w])'
  BY <1>8, IdleIsTask, IdleKnows, IdleKnowsNext
<1>10. /\ caught \subseteq caught' /\ caught' \subseteq Users
       /\ \A v \in Workers \ {w} : u \in ReliesOn(v) => u \in caught'
  BY <1>1, <1>2, <1>3, Touched
<1>11. user' = [user EXCEPT ![u] = row]
  BY <1>6, <1>7
<1>12. ASSUME NEW x \in Transfers
       PROVE  /\ transfer'[x] \in TransferRows
              /\ transfer[x] = NoTransfer => transfer'[x] = NoTransfer
              /\ transfer[x] # NoTransfer => Kept(x) /\ transfer'[x].age = transfer[x].age
              /\ transfer[x] # NoTransfer /\ transfer[x].driver # u =>
                   /\ transfer'[x].declined = transfer[x].declined
                   /\ transfer'[x].over = transfer[x].over
  <2>1. CASE transfer[x] = NoTransfer
    <3>1. x # i.transfer /\ ~Unanswered(x)
      BY <1>4, <2>1 DEF Unanswered
    <3>2. transfer'[x] = [NoTransfer EXCEPT !.over = @]
      BY <1>2, <2>1, <3>1 DEF NoTransfer
    <3>3. transfer'[x] = NoTransfer
      BY <3>2 DEF NoTransfer
    <3>. QED  BY <2>1, <3>3, MadeIsThere
  <2>2. CASE transfer[x] # NoTransfer
    <3>1. transfer[x] \in MadeRows
      BY <1>1, <2>2, MadeIsThere DEF TypeOK
    <3>2. /\ transfer[x].accepted \in BOOLEAN /\ transfer[x].declined \in BOOLEAN
          /\ transfer[x].over \in BOOLEAN
      BY <3>1 DEF MadeRows
    <3>3. CASE x = i.transfer
      <4>1. transfer'[x] = [transfer[x] EXCEPT !.accepted = TRUE]
        BY <1>2, <3>3
      <4>2. transfer'[x] = [transfer[x] EXCEPT !.accepted = TRUE,
                              !.declined = transfer[x].declined, !.over = transfer[x].over]
        BY <3>1, <4>1 DEF MadeRows
      <4>3. /\ transfer'[x] \in TransferRows /\ Kept(x)
            /\ transfer'[x].age = transfer[x].age
        BY <1>1, <2>2, <3>2, <4>2, MadeAgain
      <4>. QED  BY <1>4, <2>2, <3>3, <4>3
    <3>4. CASE x # i.transfer
      <4> DEFINE o == transfer[x].over \/ (Unanswered(x) /\ transfer[x].driver = i.user)
      <4>1. o \in BOOLEAN /\ (transfer[x].driver # u => o = transfer[x].over)
        BY <1>3, <3>2
      <4>2. transfer'[x] = [transfer[x] EXCEPT !.over = o]
        BY <1>2, <3>4
      <4> HIDE DEF o
      <4>3. transfer'[x] = [transfer[x] EXCEPT !.accepted = transfer[x].accepted,
                              !.declined = transfer[x].declined, !.over = o]
        BY <3>1, <4>2 DEF MadeRows
      <4>4. /\ transfer'[x] \in TransferRows /\ Kept(x)
            /\ transfer'[x].age = transfer[x].age
            /\ transfer'[x].declined = transfer[x].declined /\ transfer'[x].over = o
        BY <1>1, <2>2, <3>2, <4>1, <4>3, MadeAgain
      <4>. QED  BY <2>2, <4>1, <4>4
    <3>. QED  BY <3>3, <3>4
  <2>. QED  BY <2>1, <2>2
<1>13. transfer' \in [Transfers -> TransferRows]
  BY <1>2, <1>12
<1>14. /\ row.seat = None
       /\ row.boss = None \/ (Senior(row.boss) /\ user[row.boss].company = row.company)
       /\ row.erased => u \in caught'
       /\ row.company # None
  BY <1>4, <1>5, <1>7, <1>10 DEF SeniorOf, AccountsAssumption
<1>15. RowChange(w, Idle, u, row)
  BY <1>2, <1>4, <1>9, <1>10, <1>11, <1>12, <1>13, <1>14, IdleIsTask DEF RowChange
<1>. QED  BY <1>15, IdleIsTask, RowStep


\* Suspending and lifting a suspension.
LEMMA SetActiveStep ==
    ASSUME AccountsAssumption, Inv, NEW w \in Workers, SetActive(w)
    PROVE  Inv'
<1>0. PICK i \in Tasks : task[w] = i
  BY DEF Inv, TypeOK
<1>1. TypeOK /\ Rows /\ CompanyGoesTogether /\ ErasedStaysOut
  BY DEF Inv
<1>2. /\ i.pc \in {"activate", "deactivate"} /\ Stage(i) /\ Knows(i)
      /\ task' = [task EXCEPT ![w] = Idle] /\ Touch(w, i.user) /\ transfer' = transfer
      /\ user' = [user EXCEPT ![i.user].active = (i.pc = "activate")]
  BY <1>0 DEF SetActive, Return, Inv, Tasked
<1>3. PICK u \in Users : u = i.user
  BY <1>2 DEF Stage
<1> DEFINE to == [user[u] EXCEPT !.active = (i.pc = "activate")]
<1>4. /\ to \in UserRows /\ to.company = user[u].company /\ to.boss = user[u].boss
      /\ to.seat = user[u].seat /\ to.erased = user[u].erased
      /\ to.active = (i.pc = "activate")
  BY <1>1 DEF TypeOK, UserRows
<1>5. user' = [user EXCEPT ![u] = to]
  BY <1>2, <1>3
<1> HIDE DEF to
<1>6. PICK row \in UserRows : row = to
  BY <1>4
<1>7. task'[w] = Idle
  BY <1>1, <1>2, IdleIsTask, OneWorkerMoves
<1>8. Stage(Idle) /\ Knows(task[w])'
  BY <1>7, IdleIsTask, IdleKnows, IdleKnowsNext
<1>9. /\ caught \subseteq caught' /\ caught' \subseteq Users
      /\ \A v \in Workers \ {w} : u \in ReliesOn(v) => u \in caught'
  BY <1>1, <1>2, <1>3, Touched
<1>10. user' = [user EXCEPT ![u] = row]
  BY <1>5, <1>6
<1>11. /\ transfer' \in [Transfers -> TransferRows]
       /\ \A x \in Transfers : transfer[x] # NoTransfer => Kept(x)
  BY <1>1, <1>2, SameTransfers
<1>12. \/ u \in caught'
       \/ /\ row.seat \in {None, row.company}
          /\ row.boss # None => Senior(row.boss) /\ user[row.boss].company = row.company
  BY <1>1, <1>4, <1>6, <1>9 DEF CompanyGoesTogether, Rows
<1>13. row.erased /\ row.active => u \in caught'
  <2>1. ASSUME row.erased, row.active PROVE user[u].erased /\ i.pc = "activate"
    BY <1>4, <1>6, <2>1
  <2>. QED  BY <1>2, <1>3, <1>9, <2>1 DEF Knows, Spared
<1>14. /\ Exists(u) => row.company # None
       /\ row.boss = user[u].boss /\ row.company = user[u].company
  BY <1>4, <1>6 DEF Exists
<1>15. RowChange(w, Idle, u, row)
  BY <1>2, <1>8, <1>9, <1>10, <1>11, <1>12, <1>13, <1>14, IdleIsTask DEF RowChange
<1>. QED  BY <1>15, IdleIsTask, RowStep

LEMMA EraseStep ==
    ASSUME AccountsAssumption, Inv, NEW w \in Workers, Erase(w)
    PROVE  Inv'
<1>0. PICK i \in Tasks : task[w] = i
  BY DEF Inv, TypeOK
<1>1. TypeOK /\ Rows /\ CompanyGoesTogether
  BY DEF Inv
<1>2. /\ i.pc = "erase" /\ Stage(i) /\ Knows(i)
      /\ task' = [task EXCEPT ![w] = Idle] /\ Touch(w, i.user) /\ transfer' = transfer
      /\ user' = [user EXCEPT ![i.user] = [@ EXCEPT !.active = FALSE, !.erased = TRUE,
                                                    !.seat = None]]
  BY <1>0 DEF Erase, Return, Inv, Tasked
<1>3. PICK u \in Users : u = i.user
  BY <1>2 DEF Stage
<1> DEFINE to == [user[u] EXCEPT !.active = FALSE, !.erased = TRUE, !.seat = None]
<1>4. /\ to \in UserRows /\ to.company = user[u].company /\ to.boss = user[u].boss
      /\ to.seat = None /\ to.active = FALSE
  BY <1>1 DEF TypeOK, UserRows
<1>5. user' = [user EXCEPT ![u] = to]
  BY <1>2, <1>3
<1> HIDE DEF to
<1>6. PICK row \in UserRows : row = to
  BY <1>4
<1>7. task'[w] = Idle
  BY <1>1, <1>2, IdleIsTask, OneWorkerMoves
<1>8. Stage(Idle) /\ Knows(task[w])'
  BY <1>7, IdleIsTask, IdleKnows, IdleKnowsNext
<1>9. /\ caught \subseteq caught' /\ caught' \subseteq Users
      /\ \A v \in Workers \ {w} : u \in ReliesOn(v) => u \in caught'
  BY <1>1, <1>2, <1>3, Touched
<1>10. user' = [user EXCEPT ![u] = row]
  BY <1>5, <1>6
<1>11. /\ transfer' \in [Transfers -> TransferRows]
       /\ \A x \in Transfers : transfer[x] # NoTransfer => Kept(x)
  BY <1>1, <1>2, SameTransfers
<1>12. \/ u \in caught'
       \/ /\ row.seat \in {None, row.company}
          /\ row.boss # None => Senior(row.boss) /\ user[row.boss].company = row.company
  BY <1>1, <1>4, <1>6, <1>9 DEF CompanyGoesTogether, Rows
<1>13. /\ Exists(u) => row.company # None
       /\ row.boss = user[u].boss /\ row.company = user[u].company /\ ~row.active
  BY <1>4, <1>6 DEF Exists
<1>14. RowChange(w, Idle, u, row)
  BY <1>2, <1>8, <1>9, <1>10, <1>11, <1>12, <1>13, IdleIsTask DEF RowChange
<1>. QED  BY <1>14, IdleIsTask, RowStep

LEMMA SetSeatStep ==
    ASSUME AccountsAssumption, Inv, NEW w \in Workers, SetSeat(w)
    PROVE  Inv'
<1>0. PICK i \in Tasks : task[w] = i
  BY DEF Inv, TypeOK
<1>1. TypeOK /\ Rows /\ CompanyGoesTogether /\ ErasedStaysOut
  BY DEF Inv
<1> DEFINE j == [i EXCEPT !.pc = "boss"]
<1>2. /\ i.pc = "seat" /\ Stage(i) /\ Knows(i)
      /\ task' = [task EXCEPT ![w] = j] /\ Touch(w, i.user) /\ transfer' = transfer
      /\ user' = [user EXCEPT ![i.user].seat = i.seat]
  BY <1>0 DEF SetSeat, Goto, Inv, TypeOK, Tasked
<1>3. /\ j.pc = "boss" /\ j.user = i.user /\ j.boss = i.boss
      /\ j \in Tasks
  BY DEF Tasks, Steps
<1> HIDE DEF j
<1>4. PICK u \in Users : u = i.user
  BY <1>2 DEF Stage
<1>5. i.seat \in Companies \cup {None} /\ Role[u] = "DRIVER"
  BY <1>2, <1>4 DEF Stage, Tasks
<1> DEFINE to == [user[u] EXCEPT !.seat = i.seat]
<1>6. /\ to \in UserRows /\ to.company = user[u].company /\ to.boss = user[u].boss
      /\ to.seat = i.seat /\ to.erased = user[u].erased /\ to.active = user[u].active
  BY <1>1, <1>5 DEF TypeOK, UserRows
<1>7. user' = [user EXCEPT ![u] = to]
  BY <1>2, <1>4
<1> HIDE DEF to
<1>8. PICK row \in UserRows : row = to
  BY <1>6
<1>9. task'[w] = j
  BY <1>1, <1>2, <1>3, OneWorkerMoves
<1>10. /\ caught \subseteq caught' /\ caught' \subseteq Users
       /\ \A v \in Workers \ {w} : u \in ReliesOn(v) => u \in caught'
  BY <1>1, <1>2, <1>4, Touched
<1>11. user' = [user EXCEPT ![u] = row]
  BY <1>7, <1>8
<1>12. Stage(j)
  BY <1>2, <1>3 DEF Stage, Hiring, Answering
<1>13. Knows(task[w])'
  <2>1. \A a \in Users : user'[a].company = user[a].company
    BY <1>1, <1>6, <1>8, <1>11 DEF TypeOK
  <2>2. i.boss \in Users => Senior(i.boss)
    BY <1>2 DEF Knows, Asked
  <2>3. u \notin caught' /\ i.boss \in Users => user[i.boss].company = user[u].company
    BY <1>2, <1>4, <1>10 DEF Knows, Given
  <2>4. i.boss \in Users => user'[i.boss].company = user[i.boss].company
    BY <2>1
  <2>. QED  BY <1>3, <1>4, <1>9, <2>1, <2>2, <2>3, <2>4
            DEF Knows, Asked, Linked, Spared, Counted, Given, Agreed, Hiring, Answering,
                Senior, Exists
<1>14. /\ transfer' \in [Transfers -> TransferRows]
       /\ \A x \in Transfers : transfer[x] # NoTransfer => Kept(x)
  BY <1>1, <1>2, SameTransfers
<1>15. \/ u \in caught'
       \/ /\ row.seat \in {None, row.company}
          /\ row.boss # None => Senior(row.boss) /\ user[row.boss].company = row.company
  BY <1>1, <1>2, <1>4, <1>6, <1>8, <1>10 DEF CompanyGoesTogether, Rows, Knows, Given
<1>16. /\ row.erased /\ row.active => u \in caught'
       /\ Exists(u) => row.company # None
       /\ row.boss = user[u].boss /\ row.company = user[u].company
  BY <1>1, <1>6, <1>8, <1>10 DEF ErasedStaysOut, Exists
<1>17. RowChange(w, j, u, row)
  BY <1>2, <1>3, <1>10, <1>11, <1>12, <1>13, <1>14, <1>15, <1>16 DEF RowChange
<1>. QED  BY <1>3, <1>17, RowStep

LEMMA SetBossStep ==
    ASSUME AccountsAssumption, Inv, NEW w \in Workers, SetBoss(w)
    PROVE  Inv'
<1>0. PICK i \in Tasks : task[w] = i
  BY DEF Inv, TypeOK
<1>1. TypeOK /\ Rows /\ CompanyGoesTogether /\ ErasedStaysOut
  BY DEF Inv
<1>2. /\ i.pc = "boss" /\ Stage(i) /\ Knows(i)
      /\ task' = [task EXCEPT ![w] = Idle] /\ Touch(w, i.user) /\ transfer' = transfer
      /\ user' = [user EXCEPT ![i.user].boss = IF i.boss = Keep THEN @ ELSE i.boss]
  BY <1>0 DEF SetBoss, Return, Inv, Tasked
<1>3. PICK u \in Users : u = i.user
  BY <1>2 DEF Stage
<1>4. i.boss \in Users \cup {None, Keep} /\ Role[u] = "DRIVER"
  BY <1>2, <1>3 DEF Stage, Tasks
<1> DEFINE b == IF i.boss = Keep THEN user[u].boss ELSE i.boss
           to == [user[u] EXCEPT !.boss = b]
<1>5. user' = [user EXCEPT ![u] = to]
  BY <1>2, <1>3
<1>6. b \in Users \cup {None}
  BY <1>1, <1>4 DEF TypeOK, UserRows
<1>7. /\ b \in {None, user[u].boss} \/ Senior(b)
      /\ u \in caught' \/ (b # None => Senior(b) /\ user[b].company = user[u].company)
  <2>1. CASE i.boss = Keep
    BY <1>1, <1>2, <1>3, <2>1 DEF CompanyGoesTogether, Rows, Touch
  <2>2. CASE i.boss # Keep
    <3>1. b = i.boss
      BY <2>2
    <3>2. b \in Users => Senior(b)
      BY <1>2, <3>1 DEF Knows, Asked
    <3>3. u \in caught \/ (b \in Users => user[b].company = user[u].company)
      BY <1>2, <1>3, <3>1 DEF Knows, Given
    <3>4. caught \subseteq caught'
      BY <1>2 DEF Touch
    <3>. QED  BY <1>6, <3>2, <3>3, <3>4
  <2>. QED  BY <2>1, <2>2
<1> HIDE DEF b
<1>8. /\ to \in UserRows /\ to.company = user[u].company /\ to.boss = b
      /\ to.seat = user[u].seat /\ to.erased = user[u].erased
      /\ to.active = user[u].active
  BY <1>1, <1>6 DEF TypeOK, UserRows
<1> HIDE DEF to
<1>9. PICK row \in UserRows : row = to
  BY <1>8
<1>10. task'[w] = Idle
  BY <1>1, <1>2, IdleIsTask, OneWorkerMoves
<1>11. Stage(Idle) /\ Knows(task[w])'
  BY <1>10, IdleIsTask, IdleKnows, IdleKnowsNext
<1>12. /\ caught \subseteq caught' /\ caught' \subseteq Users
       /\ \A v \in Workers \ {w} : u \in ReliesOn(v) => u \in caught'
  BY <1>1, <1>2, <1>3, Touched
<1>13. user' = [user EXCEPT ![u] = row]
  BY <1>5, <1>9
<1>14. /\ transfer' \in [Transfers -> TransferRows]
       /\ \A x \in Transfers : transfer[x] # NoTransfer => Kept(x)
  BY <1>1, <1>2, SameTransfers
<1>15. \/ u \in caught'
       \/ /\ row.seat \in {None, row.company}
          /\ row.boss # None => Senior(row.boss) /\ user[row.boss].company = row.company
  BY <1>1, <1>7, <1>8, <1>9, <1>12 DEF CompanyGoesTogether
<1>16. /\ row.erased /\ row.active => u \in caught'
       /\ Exists(u) => row.company # None
       /\ row.boss = b /\ row.company = user[u].company
  BY <1>1, <1>8, <1>9, <1>12 DEF ErasedStaysOut, Exists
<1>17. RowChange(w, Idle, u, row)
  BY <1>2, <1>7, <1>11, <1>12, <1>13, <1>14, <1>15, <1>16, IdleIsTask DEF RowChange
<1>. QED  BY <1>17, IdleIsTask, RowStep


-----------------------------------------------------------------------------
(* Steps that make, text, drop or age a request.                           *)

\* A step that writes a request nobody's answer goes by.
LEMMA RequestStep ==
    ASSUME AccountsAssumption, Inv, NEW S \in SUBSET Workers,
           UNCHANGED <<user, caught>>,
           \A v \in Workers \ S : task'[v] = task[v],
           NEW y \in Transfers,
           \A x \in Transfers \ {y} : transfer'[x] = transfer[x],
           transfer[y] = NoTransfer \/ (\E w \in S : task[w].pc = "send" /\ task[w].transfer = y)
             \/ /\ Kept(y)
                /\ transfer'[y].declined = transfer[y].declined
                /\ transfer'[y].over = transfer[y].over,
           transfer[y] # NoTransfer /\ transfer[y].texted =>
                /\ transfer'[y].declined = transfer[y].declined
                /\ transfer'[y].over = transfer[y].over,
           transfer'[y] = NoTransfer
             \/ /\ SeniorOf(transfer'[y].by, transfer'[y].to)
                /\ Role[transfer'[y].driver] = "DRIVER"
    PROVE  /\ Frame(S) /\ Rows'
           /\ ErasedStaysOut' /\ CompanyGoesTogether'
<1>1. \A b, c : SeniorOf(b, c) => SeniorOf(b, c)'
  BY DEF SeniorOf, Senior, Exists
<1>2. Frame(S)
  <2>1. \A u \in Users : Undisturbed(u)
    BY DEF Undisturbed, Administers
  <2>2. \A b \in Users : Senior(b) => Senior(b)' /\ user'[b].company = user[b].company
    BY DEF Senior, Exists
  <2>3. ASSUME NEW x \in Transfers, transfer[x] # NoTransfer,
               \A w \in S : task[w].pc = "send" => task[w].transfer # x
        PROVE  Kept(x)
    BY <2>3 DEF Kept
  <2>. QED  BY <2>1, <2>2, <2>3 DEF Frame
<1>3. Rows'
  <2>1. \A u \in Users : user'[u].boss # None => Senior(user[u].boss)'
    BY DEF Inv, Rows, Senior, Exists
  <2>2. ASSUME NEW x \in Transfers, transfer'[x] # NoTransfer
        PROVE  SeniorOf(transfer[x].by, transfer[x].to)' /\ Role[transfer'[x].driver] = "DRIVER"
    <3>1. SeniorOf(transfer'[x].by, transfer'[x].to) /\ Role[transfer'[x].driver] = "DRIVER"
      BY <2>2 DEF Inv, Rows
    <3>. QED  BY <3>1 DEF SeniorOf, Senior, Exists
  <2>. QED  BY <2>1, <2>2 DEF Rows
<1>4. ErasedStaysOut' /\ CompanyGoesTogether'
  BY DEF Inv, ErasedStaysOut, CompanyGoesTogether, Exists, Administers
<1>. QED  BY <1>2, <1>3, <1>4

LEMMA CreateTransferStep ==
    ASSUME AccountsAssumption, Inv, NEW w \in Workers, NEW x \in Transfers,
           CreateTransfer(w, x)
    PROVE  Inv'
<1>0. PICK i \in Tasks : task[w] = i
  BY DEF Inv, TypeOK
<1>1. TypeOK /\ Rows /\ Tasked /\ Caps
  BY DEF Inv
<1> DEFINE j == [i EXCEPT !.pc = "send", !.transfer = x]
           row == [NoTransfer EXCEPT !.driver = i.user, !.from = i.from,
                                     !.to = i.company, !.by = i.by]
<1>2. /\ i.pc = "create" /\ Stage(i) /\ Knows(i) /\ transfer[x] = NoTransfer
      /\ task' = [task EXCEPT ![w] = j] /\ UNCHANGED <<user, caught>>
      /\ transfer' = [transfer EXCEPT ![x] = row]
  BY <1>0 DEF CreateTransfer, Inv, TypeOK, Tasked
<1>3. /\ j.pc = "send" /\ j.transfer = x /\ j.user = i.user /\ j.company = i.company
      /\ j.from = i.from /\ j.by = i.by
      /\ j \in Tasks
  BY DEF Tasks, Steps
<1> HIDE DEF j
<1>4. /\ i.user \in Users /\ i.company \in Companies /\ i.from \in Companies
      /\ Role[i.user] = "DRIVER" /\ SeniorOf(i.by, i.company) /\ i.by \in Users
  BY <1>2 DEF Stage, Knows, Asked, Hiring, SeniorOf, Senior
<1>5. /\ row \in MadeRows /\ row.driver = i.user /\ row.to = i.company /\ row.by = i.by
      /\ ~row.texted
  BY <1>4 DEF NoTransfer, MadeRows
<1> HIDE DEF row
<1>6. row \in TransferRows /\ row # NoTransfer
  BY <1>5, MadeIsThere
<1>7. /\ transfer' \in [Transfers -> TransferRows] /\ transfer'[x] = row
      /\ \A z \in Transfers \ {x} : transfer'[z] = transfer[z]
  BY <1>1, <1>2, <1>6 DEF TypeOK
<1>8. /\ task' \in [Workers -> Tasks] /\ task'[w] = j
      /\ \A v \in Workers \ {w} : task'[v] = task[v]
  BY <1>1, <1>2, <1>3, OneWorkerMoves
<1>9. /\ Frame({w}) /\ Rows'
      /\ ErasedStaysOut' /\ CompanyGoesTogether'
  BY <1>2, <1>4, <1>5, <1>7, <1>8, RequestStep
<1>10. Stage(j)
  BY <1>2, <1>3, <1>4 DEF Stage, Hiring, Answering
<1>11. Knows(task[w])'
  <2>1. SeniorOf(i.by, i.company)'
    BY <1>2, <1>4 DEF SeniorOf, Senior, Exists
  <2>. QED  BY <1>3, <1>5, <1>6, <1>7, <1>8, <2>1
            DEF Knows, Asked, Linked, Spared, Counted, Given, Agreed, Hiring, Answering,
                SeniorOf, Senior, Exists
<1>12. \A v \in Workers \ {w} : task[v].pc = "send" => task[v].transfer # j.transfer
  BY <1>1, <1>2, <1>3 DEF Tasked, Knows, Linked
<1>13. Tasked'
  BY <1>2, <1>3, <1>9, <1>10, <1>11, <1>12, TaskedStep
<1>14. TypeOK'
  BY <1>1, <1>2, <1>7, <1>8 DEF TypeOK
<1>15. /\ x \notin MadeToday /\ MadeToday' \subseteq MadeToday \cup {x}
       /\ MadeToday \subseteq Transfers
       /\ IsFiniteSet(MadeToday) /\ N' = N /\ MaxPerDay \in Nat /\ MaxPerCompany \in Nat
  BY <1>1, <1>2, <1>7 DEF MadeToday, Caps, N, AccountsAssumption
<1>16. IsFiniteSet(MadeToday')
  <2>1. IsFiniteSet(MadeToday \cup {x})
    BY <1>15, FS_AddElement
  <2>. QED  BY <1>15, <2>1, FS_Subset
<1>17. ASSUME NEW u \in Users
       PROVE  Cardinality(TodayFor(u)') + Cardinality(AskingOf(u)') < MaxPerDay + N
  <2>1. TodayFor(u) \in SUBSET MadeToday /\ x \notin TodayFor(u)
    BY <1>15 DEF TodayFor
  <2>2. AskingOf(u) \in SUBSET Workers
    BY DEF AskingOf
  <2>3. /\ Cardinality(TodayFor(u)) + Cardinality(AskingOf(u)) < MaxPerDay + N
        /\ IsFiniteSet(TodayFor(u)) /\ IsFiniteSet(AskingOf(u))
        /\ Cardinality(TodayFor(u)) \in Nat /\ Cardinality(AskingOf(u)) \in Nat /\ N \in Nat
    BY <1>1, <1>15, <2>1, <2>2, CountFewer, CountWorkers DEF Caps
  <2>4. CASE u = i.user
    <3>1. TodayFor(u)' \in SUBSET (TodayFor(u) \cup {x})
      BY <1>7, <1>15 DEF TodayFor
    <3>2. /\ IsFiniteSet(TodayFor(u) \cup {x})
          /\ Cardinality(TodayFor(u) \cup {x}) = Cardinality(TodayFor(u)) + 1
      BY <2>1, <2>3, FS_AddElement
    <3>3. w \in AskingOf(u)
      BY <1>0, <1>2, <2>4 DEF AskingOf
    <3>4. AskingOf(u)' \in SUBSET (AskingOf(u) \ {w})
      BY <1>3, <1>8 DEF AskingOf
    <3>5. /\ Cardinality(TodayFor(u)') <= Cardinality(TodayFor(u)) + 1
          /\ Cardinality(TodayFor(u)') \in Nat
      BY <3>1, <3>2, CountFewer
    <3>6. /\ Cardinality(AskingOf(u)') + 1 <= Cardinality(AskingOf(u))
          /\ Cardinality(AskingOf(u)') \in Nat
      BY <2>3, <3>3, <3>4, CountOneLess
    <3>. QED  BY <1>15, <2>3, <3>5, <3>6
  <2>5. CASE u # i.user
    <3>1. TodayFor(u)' \in SUBSET TodayFor(u)
      BY <1>5, <1>7, <1>15, <2>5 DEF TodayFor
    <3>2. AskingOf(u)' \in SUBSET AskingOf(u)
      BY <1>3, <1>8 DEF AskingOf
    <3>3. /\ Cardinality(TodayFor(u)') <= Cardinality(TodayFor(u))
          /\ Cardinality(TodayFor(u)') \in Nat
          /\ Cardinality(AskingOf(u)') <= Cardinality(AskingOf(u))
          /\ Cardinality(AskingOf(u)') \in Nat
      BY <2>3, <3>1, <3>2, CountFewer
    <3>. QED  BY <1>15, <2>3, <3>3
  <2>. QED  BY <2>4, <2>5
<1>18. ASSUME NEW c \in Companies
       PROVE  Cardinality(TodayBy(c)') + Cardinality(AskingBy(c)') < MaxPerCompany + N
  <2>1. TodayBy(c) \in SUBSET MadeToday /\ x \notin TodayBy(c)
    BY <1>15 DEF TodayBy
  <2>2. AskingBy(c) \in SUBSET Workers
    BY DEF AskingBy
  <2>3. /\ Cardinality(TodayBy(c)) + Cardinality(AskingBy(c)) < MaxPerCompany + N
        /\ IsFiniteSet(TodayBy(c)) /\ IsFiniteSet(AskingBy(c))
        /\ Cardinality(TodayBy(c)) \in Nat /\ Cardinality(AskingBy(c)) \in Nat /\ N \in Nat
    BY <1>1, <1>15, <2>1, <2>2, CountFewer, CountWorkers DEF Caps
  <2>4. CASE c = i.company
    <3>1. TodayBy(c)' \in SUBSET (TodayBy(c) \cup {x})
      BY <1>7, <1>15 DEF TodayBy
    <3>2. /\ IsFiniteSet(TodayBy(c) \cup {x})
          /\ Cardinality(TodayBy(c) \cup {x}) = Cardinality(TodayBy(c)) + 1
      BY <2>1, <2>3, FS_AddElement
    <3>3. w \in AskingBy(c)
      BY <1>0, <1>2, <2>4 DEF AskingBy
    <3>4. AskingBy(c)' \in SUBSET (AskingBy(c) \ {w})
      BY <1>3, <1>8 DEF AskingBy
    <3>5. /\ Cardinality(TodayBy(c)') <= Cardinality(TodayBy(c)) + 1
          /\ Cardinality(TodayBy(c)') \in Nat
      BY <3>1, <3>2, CountFewer
    <3>6. /\ Cardinality(AskingBy(c)') + 1 <= Cardinality(AskingBy(c))
          /\ Cardinality(AskingBy(c)') \in Nat
      BY <2>3, <3>3, <3>4, CountOneLess
    <3>. QED  BY <1>15, <2>3, <3>5, <3>6
  <2>5. CASE c # i.company
    <3>1. TodayBy(c)' \in SUBSET TodayBy(c)
      BY <1>5, <1>7, <1>15, <2>5 DEF TodayBy
    <3>2. AskingBy(c)' \in SUBSET AskingBy(c)
      BY <1>3, <1>8 DEF AskingBy
    <3>3. /\ Cardinality(TodayBy(c)') <= Cardinality(TodayBy(c))
          /\ Cardinality(TodayBy(c)') \in Nat
          /\ Cardinality(AskingBy(c)') <= Cardinality(AskingBy(c))
          /\ Cardinality(AskingBy(c)') \in Nat
      BY <2>3, <3>1, <3>2, CountFewer
    <3>. QED  BY <1>15, <2>3, <3>3
  <2>. QED  BY <2>4, <2>5
<1>19. Caps'
  BY <1>15, <1>16, <1>17, <1>18 DEF Caps
<1>. QED  BY <1>9, <1>13, <1>14, <1>19 DEF Inv


\* Nobody asks anew, and only the request y is written, not as a new one.
LEMMA FewerToday ==
    ASSUME AccountsAssumption, Inv, NEW w \in Workers, NEW j \in Tasks,
           task' = [task EXCEPT ![w] = j],
           \/ j.pc \notin {"supersede", "create"}
           \/ j = task[w],
           NEW y \in Transfers, \A x \in Transfers \ {y} : transfer'[x] = transfer[x],
           transfer[y] # NoTransfer,
           transfer'[y] # NoTransfer => /\ transfer'[y].driver = transfer[y].driver
                                        /\ transfer'[y].to = transfer[y].to
                                        /\ transfer'[y].age # "old" => transfer[y].age # "old"
    PROVE  Caps'
<1>1. TypeOK /\ Caps
  BY DEF Inv
<1>2. MadeToday' \subseteq MadeToday
  BY DEF MadeToday
<1>3. \A x \in MadeToday' : /\ transfer'[x].driver = transfer[x].driver
                            /\ transfer'[x].to = transfer[x].to
  BY DEF MadeToday
<1>4. /\ \A u \in Users : AskingOf(u)' \subseteq AskingOf(u)
      /\ \A c \in Companies : AskingBy(c)' \subseteq AskingBy(c)
  BY <1>1, AskersLeave
<1>. QED  BY <1>1, <1>2, <1>3, <1>4, CapsStay

LEMMA SendStep ==
    ASSUME AccountsAssumption, Inv, NEW w \in Workers, NEW delivered \in BOOLEAN,
           Send(w, delivered)
    PROVE  Inv'
<1>0. PICK i \in Tasks : task[w] = i
  BY DEF Inv, TypeOK
<1>1. TypeOK /\ Rows
  BY DEF Inv
<1>2. /\ i.pc = "send" /\ Stage(i) /\ Knows(i)
      /\ task' = [task EXCEPT ![w] = Idle] /\ UNCHANGED <<user, caught>>
      /\ transfer' = [transfer EXCEPT ![i.transfer] =
                        IF delivered THEN [@ EXCEPT !.texted = TRUE] ELSE NoTransfer]
  BY <1>0 DEF Send, Return, Inv, Tasked
<1>3. PICK y \in Transfers : y = i.transfer
  BY <1>2 DEF Stage
<1>4. transfer[y] # NoTransfer /\ ~transfer[y].texted
  BY <1>2, <1>3 DEF Knows, Linked
<1>5. /\ transfer[y] \in MadeRows
      /\ SeniorOf(transfer[y].by, transfer[y].to) /\ Role[transfer[y].driver] = "DRIVER"
  BY <1>1, <1>4, MadeIsThere DEF TypeOK, Rows
<1>6. /\ transfer'[y] = IF delivered THEN [transfer[y] EXCEPT !.texted = TRUE] ELSE NoTransfer
      /\ \A x \in Transfers \ {y} : transfer'[x] = transfer[x]
  BY <1>1, <1>2, <1>3 DEF TypeOK
<1>7. \/ transfer'[y] = NoTransfer
      \/ /\ transfer'[y] \in MadeRows /\ transfer'[y].texted
         /\ transfer'[y].driver = transfer[y].driver
         /\ transfer'[y].to = transfer[y].to
         /\ transfer'[y].by = transfer[y].by
         /\ transfer'[y].age = transfer[y].age
  BY <1>5, <1>6 DEF MadeRows
<1>8. /\ task' \in [Workers -> Tasks] /\ task'[w] = Idle
      /\ \A v \in Workers \ {w} : task'[v] = task[v]
  BY <1>1, <1>2, IdleIsTask, OneWorkerMoves
<1>9. PICK S \in SUBSET Workers : S = {w}
  OBVIOUS
<1>10. \/ transfer'[y] = NoTransfer
       \/ /\ SeniorOf(transfer'[y].by, transfer'[y].to)
          /\ Role[transfer'[y].driver] = "DRIVER"
  BY <1>5, <1>7
<1>11. /\ Frame({w}) /\ Rows'
       /\ ErasedStaysOut' /\ CompanyGoesTogether'
  <2>1. \E v \in S : task[v].pc = "send" /\ task[v].transfer = y
    BY <1>0, <1>2, <1>3, <1>9
  <2>2. \A v \in Workers \ S : task'[v] = task[v]
    BY <1>8, <1>9
  <2>3. Frame(S) /\ Rows' /\ ErasedStaysOut' /\ CompanyGoesTogether'
    BY <1>2, <1>4, <1>6, <1>10, <2>1, <2>2, RequestStep
  <2>. QED  BY <1>9, <2>3
<1>12. Stage(Idle) /\ Knows(task[w])'
  BY <1>8, IdleIsTask, IdleKnows, IdleKnowsNext
<1>13. Tasked'
  BY <1>2, <1>11, <1>12, IdleIsTask, TaskedStep
<1>14. TypeOK'
  <2>1. transfer'[y] \in TransferRows
    BY <1>7, MadeIsThere
  <2>2. transfer' \in [Transfers -> TransferRows]
    BY <1>1, <1>2, <1>6, <2>1 DEF TypeOK
  <2>. QED  BY <1>1, <1>2, <1>8, <2>2 DEF TypeOK
<1>15. Caps'
  BY <1>2, <1>4, <1>6, <1>7, IdleIsTask, FewerToday
<1>. QED  BY <1>11, <1>13, <1>14, <1>15 DEF Inv

LEMMA GrowStep ==
    ASSUME AccountsAssumption, Inv, NEW y \in Transfers, Grow(y)
    PROVE  Inv'
<1>1. TypeOK /\ Rows /\ Tasked /\ Caps
  BY DEF Inv
<1>2. /\ transfer[y] # NoTransfer /\ transfer[y].age # "old"
      /\ transfer' = [transfer EXCEPT ![y].age = IF @ = "fresh" THEN "cooled" ELSE "old"]
      /\ UNCHANGED <<user, task, caught>>
  BY DEF Grow
<1>3. /\ transfer[y] \in MadeRows
      /\ SeniorOf(transfer[y].by, transfer[y].to) /\ Role[transfer[y].driver] = "DRIVER"
  BY <1>1, <1>2, MadeIsThere DEF TypeOK, Rows
<1>4. /\ transfer'[y] = [transfer[y] EXCEPT !.age = IF @ = "fresh" THEN "cooled" ELSE "old"]
      /\ \A x \in Transfers \ {y} : transfer'[x] = transfer[x]
  BY <1>1, <1>2 DEF TypeOK
<1>5. /\ transfer'[y] \in MadeRows
      /\ transfer'[y].texted = transfer[y].texted
      /\ transfer'[y].driver = transfer[y].driver
      /\ transfer'[y].from = transfer[y].from
      /\ transfer'[y].to = transfer[y].to
      /\ transfer'[y].by = transfer[y].by
      /\ transfer'[y].declined = transfer[y].declined
      /\ transfer'[y].over = transfer[y].over
  BY <1>3, <1>4 DEF MadeRows
<1>6. Kept(y)
  BY <1>5, MadeIsThere DEF Kept
<1>7. /\ Frame({}) /\ Rows'
      /\ ErasedStaysOut' /\ CompanyGoesTogether'
  <2>1. SeniorOf(transfer'[y].by, transfer'[y].to) /\ Role[transfer'[y].driver] = "DRIVER"
    BY <1>3, <1>5
  <2>. QED  BY <1>2, <1>4, <1>5, <1>6, <2>1, RequestStep
<1>8. Tasked'
  <2>1. \A v \in Workers : Stage(task[v])' /\ Knows(task[v])'
    BY <1>7, OthersKnow
  <2>2. SendsAlone'
    BY <1>1, <1>2 DEF Tasked, SendsAlone
  <2>. QED  BY <2>1, <2>2 DEF Tasked
<1>9. TypeOK'
  <2>1. transfer'[y] \in TransferRows
    BY <1>5, MadeIsThere
  <2>2. transfer' \in [Transfers -> TransferRows]
    BY <1>1, <1>2, <1>4, <2>1 DEF TypeOK
  <2>. QED  BY <1>1, <1>2, <2>2 DEF TypeOK
<1>10. Caps'
  <2>1. /\ \A u \in Users : AskingOf(u)' \subseteq AskingOf(u)
        /\ \A c \in Companies : AskingBy(c)' \subseteq AskingBy(c)
    BY <1>2 DEF AskingOf, AskingBy
  <2>2. MadeToday' \subseteq MadeToday
    BY <1>2, <1>4 DEF MadeToday
  <2>3. \A x \in MadeToday' : /\ transfer'[x].driver = transfer[x].driver
                              /\ transfer'[x].to = transfer[x].to
    BY <1>4, <1>5 DEF MadeToday
  <2>. QED  BY <1>1, <2>1, <2>2, <2>3, CapsStay
<1>. QED  BY <1>7, <1>8, <1>9, <1>10 DEF Inv

-----------------------------------------------------------------------------
(* The invariant holds.                                                    *)

LEMMA InitInv ==
    ASSUME AccountsAssumption, Init
    PROVE  Inv
<1>1. PICK staff \in SUBSET Users :
        user = [u \in Users |-> IF u \in staff THEN Hired(Home[u], None) ELSE NoUser]
  BY DEF Init
<1>2. /\ transfer = [x \in Transfers |-> NoTransfer] /\ task = [w \in Workers |-> Idle]
      /\ caught = {}
  BY DEF Init
<1>3. \A u \in Users : /\ user[u] \in UserRows /\ user[u].boss = None
                       /\ user[u].seat = None /\ ~user[u].erased
                       /\ Exists(u) => user[u].active
  <2>. TAKE u \in Users
  <2>1. Home[u] \in Companies
    BY DEF AccountsAssumption
  <2>. QED  BY <1>1, <2>1 DEF Hired, NoUser, UserRows, Exists
<1>4. TypeOK
  BY <1>1, <1>2, <1>3, IdleIsTask, MadeIsThere DEF TypeOK
<1>5. Rows
  BY <1>2, <1>3 DEF Rows
<1>6. Tasked
  BY <1>2, IdleIsTask, IdleKnows DEF Tasked, SendsAlone
<1>7. ErasedStaysOut /\ CompanyGoesTogether
  BY <1>3 DEF ErasedStaysOut, CompanyGoesTogether
<1>8. Caps
  <2>1. MadeToday = {}
    BY <1>2 DEF MadeToday
  <2>2. IsFiniteSet({}) /\ Cardinality({}) = 0
    BY FS_EmptySet
  <2>3. /\ \A u \in Users : TodayFor(u) = {} /\ AskingOf(u) = {}
        /\ \A c \in Companies : TodayBy(c) = {} /\ AskingBy(c) = {}
    BY <1>2, <2>1, IdleIsTask DEF TodayFor, TodayBy, AskingOf, AskingBy
  <2>4. /\ N \in Nat /\ MaxPerDay \in Nat /\ MaxPerDay > 0
        /\ MaxPerCompany \in Nat /\ MaxPerCompany > 0
    BY CountWorkers DEF AccountsAssumption
  <2>5. ASSUME NEW u \in Users
        PROVE  Cardinality(TodayFor(u)) + Cardinality(AskingOf(u)) < MaxPerDay + N
    BY <2>2, <2>3, <2>4
  <2>6. ASSUME NEW c \in Companies
        PROVE  Cardinality(TodayBy(c)) + Cardinality(AskingBy(c)) < MaxPerCompany + N
    BY <2>2, <2>3, <2>4
  <2>. QED  BY <2>1, <2>2, <2>5, <2>6 DEF Caps
<1>. QED  BY <1>4, <1>5, <1>6, <1>7, <1>8 DEF Inv

LEMMA StutterInv ==
    ASSUME Inv, UNCHANGED vars
    PROVE  Inv'
<1>1. /\ user' = user /\ transfer' = transfer /\ task' = task /\ caught' = caught
      /\ TypeOK /\ Rows /\ Tasked /\ ErasedStaysOut /\ CompanyGoesTogether /\ Caps
  BY DEF vars, Inv
<1>2. TypeOK' /\ Rows'
  BY <1>1 DEF TypeOK, Rows, Senior, SeniorOf, Exists
<1>3. ASSUME NEW j \in Tasks, Knows(j) PROVE Knows(j)'
  BY <1>1, <1>3 DEF Knows, Asked, Linked, Spared, Counted, Given, Agreed, Senior, SeniorOf,
                    Exists, Stands, Administers
<1>4. Tasked'
  BY <1>1, <1>3 DEF Tasked, SendsAlone, Stage, TypeOK
<1>5. (ErasedStaysOut /\ CompanyGoesTogether)'
  BY <1>1 DEF ErasedStaysOut, CompanyGoesTogether, Exists
<1>6. Caps'
  BY <1>1 DEF Caps, MadeToday, TodayFor, TodayBy, AskingOf, AskingBy, N
<1>. QED  BY <1>2, <1>4, <1>5, <1>6 DEF Inv

LEMMA RequestInv ==
    ASSUME AccountsAssumption, Inv, NEW w \in Workers, Request(w)
    PROVE  Inv'
<1>1. ASSUME NEW r \in Users, ByStaff(w, r) PROVE Inv'
  BY <1>1, CreateManagerStep, CreateDriverStep, ActivateStep, DeactivateStep,
     UpdateDriverStep DEF ByStaff
<1>2. ASSUME NEW u \in Users, DeleteOwnAccount(w, u) PROVE Inv'
  BY <1>2, DeleteOwnAccountStep
<1>3. ASSUME NEW x \in Transfers, NEW answer, OpenLink(w, x, answer) PROVE Inv'
  BY <1>3, OpenLinkStep
<1>. QED  BY <1>1, <1>2, <1>3 DEF Request

LEMMA StatementInv ==
    ASSUME AccountsAssumption, Inv, NEW w \in Workers, Statement(w)
    PROVE  Inv'
  BY InsertStep, CheckStep, SupersedeStep, CreateTransferStep, SendStep, ReadRequesterStep,
     AcceptStep, DeclineStep, SetActiveStep, CountAdminsStep, EraseStep, SetSeatStep,
     SetBossStep DEF Statement

LEMMA InvHolds ==
    ASSUME AccountsAssumption
    PROVE  Spec => []Inv
<1>1. Init => Inv
  BY InitInv
<1>2. Inv /\ [Next]_vars => Inv'
  <2>. SUFFICES ASSUME Inv, [Next]_vars PROVE Inv'
    OBVIOUS
  <2>1. ASSUME NEW w \in Workers, Request(w) \/ Statement(w) \/ Die(w) PROVE Inv'
    BY <2>1, RequestInv, StatementInv, DieStep
  <2>2. ASSUME NEW x \in Transfers, Grow(x) PROVE Inv'
    BY <2>2, GrowStep
  <2>3. CASE UNCHANGED vars
    BY <2>3, StutterInv
  <2>. QED  BY <2>1, <2>2, <2>3 DEF Next
<1>. QED  BY <1>1, <1>2, PTL DEF Spec


-----------------------------------------------------------------------------
(* What follows from it.                                                   *)

\* Every variable keeps its type.
THEOREM TypeCorrect ==
    ASSUME AccountsAssumption
    PROVE  Spec => []TypeOK
<1>1. Inv => TypeOK
  BY DEF Inv
<1>. QED  BY <1>1, InvHolds, PTL

\* However many requests of hiring, suspending, erasing, moving and editing
\* overlap, an erased account is active only if another request about it
\* changed the row between the check and the write of the one that activated it.
THEOREM ErasedAccountsStayOut ==
    ASSUME AccountsAssumption
    PROVE  Spec => []ErasedStaysOut
<1>1. Inv => ErasedStaysOut
  BY DEF Inv
<1>. QED  BY <1>1, InvHolds, PTL

\* A driver's truck and manager are of the driver's company, unless requests
\* about the driver overlapped.
THEOREM SeatAndBossAreOfTheCompany ==
    ASSUME AccountsAssumption
    PROVE  Spec => []CompanyGoesTogether
<1>1. Inv => CompanyGoesTogether
  BY DEF Inv
<1>. QED  BY <1>1, InvHolds, PTL

\* The texts to one driver and from one company in a day exceed their cap by
\* less than the number of requests that can be counted at once.
THEOREM CapsAreOverrunByLessThanTheWorkers ==
    ASSUME AccountsAssumption
    PROVE  Spec => []CapsHold
<1>1. Inv => CapsHold
  <2>. SUFFICES ASSUME Inv PROVE CapsHold
    OBVIOUS
  <2>1. /\ IsFiniteSet(MadeToday) /\ MaxPerDay \in Nat /\ MaxPerCompany \in Nat
        /\ N = Cardinality(Workers)
    BY DEF Inv, Caps, AccountsAssumption, N
  <2>2. ASSUME NEW u \in Users
        PROVE  Cardinality(TodayFor(u)) < MaxPerDay + Cardinality(Workers)
    <3>1. AskingOf(u) \in SUBSET Workers /\ TodayFor(u) \in SUBSET MadeToday
      BY DEF AskingOf, TodayFor
    <3>2. /\ Cardinality(AskingOf(u)) \in Nat /\ N \in Nat
          /\ Cardinality(TodayFor(u)) \in Nat
      BY <2>1, <3>1, CountWorkers, CountFewer
    <3>3. Cardinality(TodayFor(u)) + Cardinality(AskingOf(u)) < MaxPerDay + N
      BY DEF Inv, Caps
    <3>. QED  BY <2>1, <3>2, <3>3
  <2>3. ASSUME NEW c \in Companies
        PROVE  Cardinality(TodayBy(c)) < MaxPerCompany + Cardinality(Workers)
    <3>1. AskingBy(c) \in SUBSET Workers /\ TodayBy(c) \in SUBSET MadeToday
      BY DEF AskingBy, TodayBy
    <3>2. /\ Cardinality(AskingBy(c)) \in Nat /\ N \in Nat
          /\ Cardinality(TodayBy(c)) \in Nat
      BY <2>1, <3>1, CountWorkers, CountFewer
    <3>3. Cardinality(TodayBy(c)) + Cardinality(AskingBy(c)) < MaxPerCompany + N
      BY DEF Inv, Caps
    <3>. QED  BY <2>1, <3>2, <3>3
  <2>. QED  BY <2>2, <2>3 DEF CapsHold
<1>. QED  BY <1>1, InvHolds, PTL

\* Of the requests, only the one that hires a manager writes a row at once.
LEMMA OnlyHiringWrites ==
    ASSUME NEW w \in Workers, Request(w), user' # user
    PROVE  \E r, a \in Users : CreateManager(w, r, a)
<1>1. ASSUME NEW r \in Users, NEW u \in Users,
             CreateDriver(w, r, u) \/ Activate(w, r, u) \/ Deactivate(w, r, u)
      PROVE  FALSE
  BY <1>1 DEF CreateDriver, Activate, Deactivate
<1>2. ASSUME NEW r \in Users, NEW u \in Users, NEW seat, NEW boss,
             UpdateDriver(w, r, u, seat, boss)
      PROVE  FALSE
  BY <1>2 DEF UpdateDriver
<1>3. ASSUME NEW u \in Users, DeleteOwnAccount(w, u) PROVE FALSE
  BY <1>3 DEF DeleteOwnAccount
<1>4. ASSUME NEW x \in Transfers, NEW answer, OpenLink(w, x, answer) PROVE FALSE
  BY <1>4 DEF OpenLink
<1>. QED  BY <1>1, <1>2, <1>3, <1>4 DEF Request, ByStaff

\* A row that was there changes company only in the transaction of accept.
LEMMA OnlyAcceptMoves ==
    ASSUME Inv, NEW w \in Workers, NEW u \in Users, Exists(u),
           user'[u].company # user[u].company, Request(w) \/ Statement(w) \/ Die(w)
    PROVE  Accept(w)
<1>0. PICK i : i = task[w]
  OBVIOUS
<1>1. TypeOK /\ user[u] \in UserRows
  BY DEF Inv, TypeOK
<1>2. ASSUME NEW r \in Users, NEW a \in Users, CreateManager(w, r, a) PROVE FALSE
  BY <1>1, <1>2 DEF CreateManager, TypeOK
<1>3. ~Request(w)
  BY <1>2, OnlyHiringWrites
<1>4. ~Insert(w)
  BY <1>0, <1>1 DEF Insert, TypeOK
<1>5. ~SetActive(w)
  <2>1. SUFFICES ASSUME SetActive(w) PROVE FALSE
    OBVIOUS
  <2>2. user' = [user EXCEPT ![i.user].active = (i.pc = "activate")]
    BY <1>0, <2>1 DEF SetActive
  <2>. QED  BY <1>1, <2>2 DEF TypeOK, UserRows
<1>6. ~Erase(w)
  <2>1. SUFFICES ASSUME Erase(w) PROVE FALSE
    OBVIOUS
  <2>2. user' = [user EXCEPT ![i.user] = [@ EXCEPT !.active = FALSE, !.erased = TRUE,
                                                    !.seat = None]]
    BY <1>0, <2>1 DEF Erase
  <2>. QED  BY <1>1, <2>2 DEF TypeOK, UserRows
<1>7. ~SetSeat(w)
  <2>1. SUFFICES ASSUME SetSeat(w) PROVE FALSE
    OBVIOUS
  <2>2. user' = [user EXCEPT ![i.user].seat = i.seat]
    BY <1>0, <2>1 DEF SetSeat
  <2>. QED  BY <1>1, <2>2 DEF TypeOK, UserRows
<1>8. ~SetBoss(w)
  <2>1. SUFFICES ASSUME SetBoss(w) PROVE FALSE
    OBVIOUS
  <2>2. user' = [user EXCEPT ![i.user].boss = IF i.boss = Keep THEN @ ELSE i.boss]
    BY <1>0, <2>1 DEF SetBoss
  <2>. QED  BY <1>1, <2>2 DEF TypeOK, UserRows
<1>9. ~(Die(w) \/ Check(w) \/ Supersede(w) \/ ReadRequester(w) \/ Decline(w)
         \/ CountAdmins(w) \/ (\E x \in Transfers : CreateTransfer(w, x))
         \/ (\E delivered \in BOOLEAN : Send(w, delivered)))
  BY DEF Die, Check, Supersede, ReadRequester, Decline, CountAdmins, CreateTransfer, Send
<1>. QED  BY <1>3, <1>4, <1>5, <1>6, <1>7, <1>8, <1>9 DEF Statement

\* An administrator stops being one by a suspension or by their own erasure.
LEMMA AdminsStopTwoWays ==
    ASSUME AccountsAssumption, Inv, NEW w \in Workers, NEW i \in Tasks, i = task[w],
           NEW a \in Users, Administers(a), ~Administers(a)',
           Request(w) \/ Statement(w) \/ Die(w)
    PROVE  /\ a = i.user /\ i.pc \in {"deactivate", "erase"}
           /\ task' = [task EXCEPT ![w] = Idle] /\ Touch(w, a)
           /\ \A b \in Users \ {a} : user'[b] = user[b]
<1>1. TypeOK /\ user[a] \in UserRows /\ Stage(i) /\ Knows(i)
  BY DEF Inv, TypeOK, Tasked
<1>2. user' # user
  BY DEF Administers
<1>3. ASSUME NEW b \in Users, NEW row, user' = [user EXCEPT ![b] = row]
      PROVE  /\ a = b /\ user'[a] = row
             /\ \A c \in Users \ {a} : user'[c] = user[c]
  BY <1>1, <1>3 DEF TypeOK, Administers
<1>4. ~Request(w)
  <2>1. ASSUME NEW r \in Users, NEW b \in Users, CreateManager(w, r, b) PROVE FALSE
    <3>1. /\ Role[b] = "MANAGER" /\ user' = [user EXCEPT ![b] = Hired(user[r].company, r)]
      BY <2>1 DEF CreateManager
    <3>. QED  BY <1>3, <3>1 DEF Administers
  <2>. QED  BY <1>2, <2>1, OnlyHiringWrites
<1>5. ~(Die(w) \/ Check(w) \/ Supersede(w) \/ ReadRequester(w) \/ Decline(w)
         \/ CountAdmins(w) \/ (\E x \in Transfers : CreateTransfer(w, x))
         \/ (\E delivered \in BOOLEAN : Send(w, delivered)))
  BY <1>2 DEF Die, Check, Supersede, ReadRequester, Decline, CountAdmins, CreateTransfer, Send
<1>6. ~Insert(w)
  <2>1. SUFFICES ASSUME Insert(w) PROVE FALSE
    OBVIOUS
  <2>2. /\ i.user \in Users /\ Role[i.user] = "DRIVER"
        /\ user' = [user EXCEPT ![i.user] = Hired(i.company, i.by)]
    BY <1>1, <1>2, <2>1 DEF Insert, Stage, Hiring
  <2>. QED  BY <1>3, <2>2 DEF Administers
<1>7. ~Accept(w)
  <2>1. SUFFICES ASSUME Accept(w) PROVE FALSE
    OBVIOUS
  <2>2. /\ i.user \in Users /\ Role[i.user] = "DRIVER"
        /\ user' = [user EXCEPT ![i.user] = [user[i.user] EXCEPT !.company = i.company,
                                  !.boss = i.boss, !.active = TRUE, !.seat = None]]
    BY <1>1, <2>1 DEF Accept, Stage, Answering
  <2>. QED  BY <1>3, <2>2 DEF Administers
<1>8. ~SetSeat(w) /\ ~SetBoss(w)
  <2>1. ASSUME SetSeat(w) \/ SetBoss(w) PROVE FALSE
    <3>1. /\ i.user \in Users /\ Role[i.user] = "DRIVER"
          /\ \E row : user' = [user EXCEPT ![i.user] = row]
      BY <1>1, <2>1 DEF SetSeat, SetBoss, Stage
    <3>. QED  BY <1>3, <3>1 DEF Administers
  <2>. QED  BY <2>1
<1>9. CASE SetActive(w)
  <2>1. /\ i.user \in Users /\ i.pc \in {"activate", "deactivate"} /\ Return(w)
        /\ Touch(w, i.user)
        /\ user' = [user EXCEPT ![i.user] =
                      [user[i.user] EXCEPT !.active = (i.pc = "activate")]]
    BY <1>1, <1>9 DEF SetActive, Stage
  <2>2. a = i.user /\ user'[a] = [user[a] EXCEPT !.active = (i.pc = "activate")]
        /\ \A c \in Users \ {a} : user'[c] = user[c]
    BY <1>3, <2>1
  <2>3. i.pc # "activate"
    BY <1>1, <2>2 DEF UserRows, Administers
  <2>. QED  BY <2>1, <2>2, <2>3 DEF Return
<1>10. CASE Erase(w)
  <2>1. /\ i.user \in Users /\ i.pc = "erase" /\ Return(w) /\ Touch(w, i.user)
        /\ user' = [user EXCEPT ![i.user] = [user[i.user] EXCEPT !.active = FALSE,
                                                !.erased = TRUE, !.seat = None]]
    BY <1>1, <1>10 DEF Erase, Stage
  <2>. QED  BY <1>3, <2>1 DEF Return
<1>. QED  BY <1>4, <1>5, <1>6, <1>7, <1>8, <1>9, <1>10 DEF Statement

\* No company loses its last administrator by requests of its own, unless
\* requests about one of its administrators overlapped: the one who suspends
\* stays, and who erases their account leaves another one behind.
THEOREM AnAdminRemains ==
    ASSUME AccountsAssumption
    PROVE  Spec => AdminRemains
<1>1. Inv /\ [Next]_vars =>
        [\A c \in Companies : HasAdmin(c) =>
           \/ HasAdmin(c)'
           \/ \E a \in caught' : Role[a] = "ADMIN" /\ user[a].company = c
           \/ SuspendedFromOutside(c)]_vars
  <2>. SUFFICES ASSUME Inv, Next, NEW c \in Companies, HasAdmin(c), ~HasAdmin(c)',
                       ~SuspendedFromOutside(c)
                PROVE  \E a \in caught' : Role[a] = "ADMIN" /\ user[a].company = c
    OBVIOUS
  <2>1. PICK a \in Users : Administers(a) /\ user[a].company = c
    BY DEF HasAdmin
  <2>2. c # None /\ Exists(a)
    BY <2>1 DEF AccountsAssumption, Exists
  <2>3. PICK w \in Workers : Request(w) \/ Statement(w) \/ Die(w)
    <3>1. \A x \in Transfers : ~Grow(x)
      BY DEF Grow, HasAdmin, Administers
    <3>. QED  BY <3>1 DEF Next
  <2>4. PICK i \in Tasks : i = task[w]
    BY DEF Inv, TypeOK
  <2>5. user'[a].company = c
    <3>1. ASSUME user'[a].company # c PROVE FALSE
      <4>1. Accept(w)
        BY <2>1, <2>2, <2>3, <3>1, OnlyAcceptMoves
      <4>2. /\ Role[i.user] = "DRIVER" /\ i.user \in Users
            /\ user' = [user EXCEPT ![i.user] = [user[i.user] EXCEPT !.company = i.company,
                                      !.boss = i.boss, !.active = TRUE, !.seat = None]]
        BY <2>4, <4>1 DEF Accept, Inv, Tasked, Stage, Answering
      <4>. QED  BY <2>1, <3>1, <4>2 DEF Inv, TypeOK, Administers
    <3>. QED  BY <3>1
  <2>6. ~Administers(a)'
    BY <2>5 DEF HasAdmin
  <2>7. /\ a = i.user /\ i.pc \in {"deactivate", "erase"}
        /\ task' = [task EXCEPT ![w] = Idle] /\ Touch(w, a)
        /\ \A b \in Users \ {a} : user'[b] = user[b]
    BY <2>1, <2>3, <2>4, <2>6, AdminsStopTwoWays
  <2>8. Role[a] = "ADMIN" /\ Knows(i)
    BY <2>1, <2>4 DEF Administers, Inv, Tasked
  <2>9. PICK b \in Users \ {a} : Stands(b, c)
    <3>1. CASE i.pc = "erase"
      BY <2>1, <2>7, <2>8, <3>1 DEF Knows, Counted
    <3>2. CASE i.pc = "deactivate"
      <4>1. i.by # a /\ Stands(i.by, user[i.by].company)
        BY <2>7, <2>8, <3>2 DEF Knows, Counted
      <4>2. task'[w] = Idle
        BY <2>7 DEF Inv, TypeOK
      <4>3. user[i.by].company = c
        BY <2>1, <2>4, <2>7, <3>2, <4>2 DEF SuspendedFromOutside
      <4>. QED  BY <4>1, <4>3 DEF Stands
    <3>. QED  BY <2>7, <3>1, <3>2
  <2>10. ~Administers(b)
    BY <2>7, <2>9 DEF HasAdmin, Stands, Administers
  <2>. QED  BY <2>7, <2>9, <2>10 DEF Stands, Touch
<1>. QED  BY <1>1, InvHolds, PTL DEF Spec, AdminRemains

\* A driver changes company only by a request to leave the company the driver
\* is in that still stands when the driver's answer is written, neither
\* declined nor replaced, unless requests about the driver overlapped.
THEOREM DriversMoveOnConsent ==
    ASSUME AccountsAssumption
    PROVE  Spec => MovesOnConsent
<1>1. Inv /\ [Next]_vars =>
        [\A u \in Users :
           Exists(u) /\ user'[u].company # user[u].company =>
             \/ u \in caught'
             \/ \E x \in Transfers :
                  /\ transfer[x].driver = u /\ ~transfer[x].declined /\ ~transfer[x].over
                  /\ transfer[x].from = user[u].company
                  /\ transfer[x].to = user'[u].company]_vars
  <2>. SUFFICES ASSUME Inv, Next, NEW u \in Users, Exists(u),
                       user'[u].company # user[u].company, u \notin caught'
                PROVE  \E x \in Transfers :
                         /\ transfer[x].driver = u
                         /\ ~transfer[x].declined /\ ~transfer[x].over
                         /\ transfer[x].from = user[u].company
                         /\ transfer[x].to = user'[u].company
    OBVIOUS
  <2>1. PICK w \in Workers : Request(w) \/ Statement(w) \/ Die(w)
    BY DEF Next, Grow
  <2>2. Accept(w)
    BY <2>1, OnlyAcceptMoves
  <2>3. PICK i \in Tasks : task[w] = i
    BY DEF Inv, TypeOK
  <2>4. /\ i.pc = "accept" /\ Stage(i) /\ Knows(i) /\ Touch(w, i.user)
        /\ user' = [user EXCEPT ![i.user] = [@ EXCEPT !.company = i.company,
                                  !.boss = i.boss, !.active = TRUE, !.seat = None]]
    BY <2>2, <2>3 DEF Accept, Inv, Tasked
  <2>5. u = i.user /\ user'[u].company = i.company
    BY <2>4 DEF Inv, TypeOK, UserRows
  <2>6. u \notin caught
    BY <2>4 DEF Touch
  <2>7. /\ ~transfer[i.transfer].declined /\ ~transfer[i.transfer].over
        /\ transfer[i.transfer].from = user[u].company
    BY <2>4, <2>5, <2>6 DEF Knows, Agreed
  <2>8. /\ i.transfer \in Transfers
        /\ transfer[i.transfer].driver = u /\ transfer[i.transfer].to = i.company
    BY <2>4, <2>5 DEF Stage, Knows, Linked, Answering
  <2>. QED  BY <2>5, <2>7, <2>8
<1>. QED  BY <1>1, InvHolds, PTL DEF Spec, MovesOnConsent

=============================================================================

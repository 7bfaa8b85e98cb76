---------------------------- MODULE PeopleProofs ----------------------------
(***************************************************************************)
(* Theorems about people and who gets in: Accounts, for any rows, logins,  *)
(* addresses and requests, Assignments (A), for any inquiries, drivers,    *)
(* rows and requests, OneTimeCodes (O), for any addresses, codes and       *)
(* requests, RateLimit (R), for any threads and limits, and SessionTokens  *)
(* (S), for any threads and signing keys.                                  *)
(*                                                                         *)
(* Clerk's copy of a role follows the row although the two are written by  *)
(* different services: where it does not, either a request that will still *)
(* push the row is in flight (Telling) or the push has failed (behind).    *)
(***************************************************************************)
EXTENDS Accounts, Integers, Sequences, TLAPS

\* What a request holds at each stage: the row it found as it loaded it, and what it will
\* write; a login that keeps its account has found this account.
Knows(w) ==
    w # Idle =>
        /\ w.stage = "fetch" /\ w.row # None => w.seen \in User
        /\ w.stage \in {"check", "write", "signed", "push"} => w.row \in Accounts /\ w.seen \in User
        /\ w.stage = "write" =>
            /\ w.new \in User /\ w.new.login = w.login
            /\ w.new.role = w.seen.role /\ w.new.vendor = w.seen.vendor
        /\ w.stage = "create" => w.email # None /\ w.row = None
        /\ w.stage = "push" => w.seen.login # None
        /\ w.own # None => w.row = w.own

RequestsKnow == \A c \in Requests : Knows(request[c])

Telling(s) ==
    \E c \in Requests :
        request[c] # Idle /\ request[c].stage = "push" /\ request[c].seen.login = s

\* What ClerkFollows says of one row.
FollowsRow(a) ==
    LET s == account[a].login
    IN  s # None /\ s \notin behind /\ ~ Telling(s) =>
            /\ copy[s] # None
            /\ copy[s].role = account[a].role
            /\ account[a].vendor # None => copy[s].vendor = account[a].vendor

AccountsInv == TypeOK /\ RequestsKnow /\ ClerkFollows

LEMMA FollowsRows == ClerkFollows <=> \A a \in Rows : FollowsRow(a)
BY DEF ClerkFollows, FollowsRow, Telling

\* The columns of a row that is written: those that the request changed, and the others as
\* they are by now.
LEMMA Columns ==
    ASSUME NEW now \in User, NEW seen \in User, NEW new \in User
    PROVE  LET row == ChangedColumns(now, seen, new)
           IN  /\ row \in User
               /\ row.login = IF new.login = seen.login THEN now.login ELSE new.login
               /\ row.email = IF new.email = seen.email THEN now.email ELSE new.email
               /\ row.role = IF new.role = seen.role THEN now.role ELSE new.role
               /\ row.vendor = IF new.vendor = seen.vendor THEN now.vendor ELSE new.vendor
<1>1. DOMAIN now = {"login", "email", "role", "vendor"} BY DEF User
<1>2. ChangedColumns(now, seen, new) =
        [login |-> IF new.login = seen.login THEN now.login ELSE new.login,
         email |-> IF new.email = seen.email THEN now.email ELSE new.email,
         role |-> IF new.role = seen.role THEN now.role ELSE new.role,
         vendor |-> IF new.vendor = seen.vendor THEN now.vendor ELSE new.vendor]
  BY <1>1 DEF ChangedColumns
<1>3. QED BY <1>2 DEF User

\* The keys of the table lead to one row.
LEMMA OneRow ==
    ASSUME TypeOK
    PROVE  /\ \A a, b \in Rows : account[a].email = account[b].email => a = b
           /\ \A a, b \in Rows :
                account[a].login = account[b].login /\ account[a].login # None => a = b
           /\ \A a \in Rows : account[a] \in User
           /\ RowOf({}) = None
           /\ \A S \in SUBSET Accounts : S # {} => RowOf(S) \in S
<1>1. \A S \in SUBSET Accounts : S # {} => RowOf(S) \in S BY DEF RowOf
<1>2. \A a \in Rows : account[a] \in User BY DEF TypeOK, Rows
<1>3. RowOf({}) = None BY DEF RowOf
<1>4. QED BY <1>1, <1>2, <1>3 DEF TypeOK

\* A request that goes on without a commit, and tells Clerk nothing.
LEMMA ContinueInv ==
    ASSUME AccountsInv, NEW c \in Requests, NEW w \in Request \cup {Idle}, Knows(w),
           Continue(c, w), UNCHANGED <<copy, behind>>,
           request[c] = Idle \/ request[c].stage # "push",
           address' \in [Logins -> Addresses \cup {None}],
           profile' \in [Logins -> Addresses \cup {None}], served' \in 0 .. MaxServed
    PROVE  AccountsInv'
<1> USE DEF AccountsInv
<1>1. account' = account /\ request' = [request EXCEPT ![c] = w] /\ Rows' = Rows
  BY DEF Continue, Rows
<1>2. request'[c] = w /\ \A x \in Requests : x # c => request'[x] = request[x]
  BY <1>1 DEF TypeOK
<1>3. TypeOK'
  <2>1. request' \in [Requests -> Request \cup {Idle}] BY <1>1 DEF TypeOK
  <2>2. QED BY <1>1, <2>1 DEF TypeOK
<1>4. RequestsKnow'
  <2>1. \A x \in Requests : Knows(request'[x]) BY <1>2 DEF RequestsKnow
  <2>2. QED BY <2>1 DEF RequestsKnow, Knows
<1>5. \A s : Telling(s) => Telling(s)' BY <1>2 DEF Telling
<1>6. ClerkFollows'
  <2>1. \A a \in Rows : FollowsRow(a)' BY <1>1, <1>5, FollowsRows DEF FollowsRow
  <2>2. QED BY <1>1, <2>1 DEF ClerkFollows, FollowsRow, Telling
<1>7. QED BY <1>3, <1>4, <1>6

\* A request that commits a row, which clashes with no other.
LEMMA CommitTypes ==
    ASSUME AccountsInv, NEW c \in Requests \cup {None}, NEW a \in Accounts,
           NEW user \in User \cup {None}, NEW w \in Request \cup {Idle}, Knows(w),
           Commit(c, a, user, w), user # None => ~ Clashes(a, user),
           address' \in [Logins -> Addresses \cup {None}],
           profile' \in [Logins -> Addresses \cup {None}],
           copy' \in [Logins -> Copies], behind' \subseteq Logins, served' \in 0 .. MaxServed
    PROVE  /\ TypeOK' /\ RequestsKnow'
           /\ account'[a] = user /\ \A b \in Accounts : b # a => account'[b] = account[b]
           /\ c # None => request'[c] = w
           /\ \A x \in Requests : x # c /\ request[x] # Idle =>
                /\ request'[x] # Idle /\ request'[x].stage = request[x].stage
                /\ request'[x].seen = request[x].seen
           /\ \A x \in Requests : x # c /\ request[x] = Idle => request'[x] = Idle
<1> USE DEF AccountsInv
<1> DEFINE table == [account EXCEPT ![a] = user]
           Kept(x) == request[x].own = None
                      \/ (table[request[x].own] # None /\ table[request[x].own].login = request[x].login)
           next(x) == IF x = c THEN w ELSE IF request[x] = Idle THEN Idle
                      ELSE IF Kept(x) THEN request[x] ELSE [request[x] EXCEPT !.own = None]
<1>1. account' = table /\ request' = [x \in Requests |-> next(x)] BY DEF Commit
<1>2. account'[a] = user /\ \A b \in Accounts : b # a => account'[b] = account[b]
  BY <1>1 DEF TypeOK
<1>3. \A x \in Requests : request'[x] = next(x) BY <1>1
<1>4. ASSUME NEW x \in Requests, x # c, request[x] # Idle
      PROVE  /\ request'[x] \in Request /\ request'[x] # Idle /\ Knows(request'[x])
             /\ request'[x].stage = request[x].stage /\ request'[x].seen = request[x].seen
  <2>1. request[x] \in Request /\ Knows(request[x]) BY <1>4 DEF TypeOK, RequestsKnow
  <2>2. CASE Kept(x) BY <1>3, <1>4, <2>1, <2>2
  <2>3. CASE ~ Kept(x)
    <3>1. request'[x] = [request[x] EXCEPT !.own = None] BY <1>3, <1>4, <2>3
    <3>2. request'[x] \in Request BY <2>1, <3>1 DEF Request
    <3>3. request'[x] # Idle BY <3>2, MarksAssumption
    <3>4. /\ request'[x].stage = request[x].stage /\ request'[x].seen = request[x].seen
          /\ request'[x].row = request[x].row /\ request'[x].new = request[x].new
          /\ request'[x].email = request[x].email /\ request'[x].own = None
          /\ request'[x].login = request[x].login
      BY <2>1, <3>1 DEF Request
    <3>5. Knows(request'[x]) BY <1>4, <2>1, <3>4 DEF Knows
    <3>6. QED BY <3>2, <3>3, <3>4, <3>5
  <2>4. QED BY <2>2, <2>3
<1>5. \A x \in Requests : x # c /\ request[x] = Idle => request'[x] = Idle BY <1>3
<1>6. c # None => request'[c] = w BY <1>3
<1> HIDE DEF next, Kept
<1>7. RequestsKnow'
  <2>1. \A x \in Requests : Knows(request'[x])
    BY <1>4, <1>5, <1>6, SetsAssumption DEF Knows
  <2>2. QED BY <2>1 DEF RequestsKnow, Knows
<1>8. TypeOK'
  <2>1. account' \in [Accounts -> User \cup {None}] BY <1>1 DEF TypeOK
  <2>2. \A x \in Requests : request'[x] \in Request \cup {Idle}
    BY <1>4, <1>5, <1>6, SetsAssumption
  <2>3. request' \in [Requests -> Request \cup {Idle}] BY <1>1, <2>2
  <2>4. ASSUME NEW b \in Rows', NEW d \in Rows', b # d
        PROVE  /\ account'[b].email # account'[d].email
               /\ account'[b].login = None \/ account'[b].login # account'[d].login
    <3>1. \A x \in Rows' : x # a => x \in Rows /\ account'[x] = account[x]
      BY <1>2 DEF Rows
    <3>2. CASE b # a /\ d # a BY <2>4, <3>1, <3>2 DEF TypeOK
    <3>3. CASE b = a
      BY <1>2, <2>4, <3>1, <3>3 DEF Clashes, Rows
    <3>4. CASE d = a
      BY <1>2, <2>4, <3>1, <3>4 DEF Clashes, Rows
    <3>5. QED BY <3>2, <3>3, <3>4
  <2>5. QED BY <2>1, <2>3, <2>4 DEF TypeOK
<1>9. QED BY <1>2, <1>4, <1>5, <1>6, <1>7, <1>8

\* The rows keep up with Clerk, if nothing is forgotten of the logins of the others, and the
\* one that is committed is told, or was told before.
LEMMA CommitInv ==
    ASSUME AccountsInv, NEW c \in Requests \cup {None}, NEW a \in Accounts,
           NEW user \in User \cup {None}, NEW w \in Request \cup {Idle}, Knows(w),
           Commit(c, a, user, w), user # None => ~ Clashes(a, user),
           address' \in [Logins -> Addresses \cup {None}],
           profile' \in [Logins -> Addresses \cup {None}],
           copy' \in [Logins -> Copies], behind' \subseteq Logins, served' \in 0 .. MaxServed,
           c # None => request[c] = Idle \/ request[c].stage # "push",
           behind \subseteq behind',
           \A s \in Logins \ behind' : (user = None \/ user.login # s) => copy'[s] = copy[s],
           user # None /\ user.login \notin behind' \cup {None} /\ ~ Telling(user.login) =>
              \/ c # None /\ w # Idle /\ w.stage = "push" /\ w.seen.login = user.login
              \/ /\ copy'[user.login] # None /\ copy'[user.login].role = user.role
                 /\ user.vendor # None => copy'[user.login].vendor = user.vendor
              \/ /\ account[a] # None /\ account[a].login = user.login
                 /\ account[a].role = user.role /\ account[a].vendor = user.vendor
                 /\ copy'[user.login] = copy[user.login]
    PROVE  AccountsInv'
<1>1. /\ TypeOK' /\ RequestsKnow'
      /\ account'[a] = user /\ \A b \in Accounts : b # a => account'[b] = account[b]
      /\ c # None => request'[c] = w
      /\ \A x \in Requests : x # c /\ request[x] # Idle =>
            /\ request'[x] # Idle /\ request'[x].stage = request[x].stage
            /\ request'[x].seen = request[x].seen
      /\ \A x \in Requests : x # c /\ request[x] = Idle => request'[x] = Idle
  BY CommitTypes, Zenon
<1> USE DEF AccountsInv
<1>2. \A s : Telling(s) => Telling(s)' BY <1>1, SetsAssumption DEF Telling
<1>3. ASSUME NEW b \in Rows' PROVE FollowsRow(b)'
  <2>1. CASE b = a
    <3> SUFFICES ASSUME user.login \notin behind' \cup {None}, ~ Telling(user.login)'
                 PROVE  /\ copy'[user.login] # None
                        /\ copy'[user.login].role = user.role
                        /\ user.vendor # None => copy'[user.login].vendor = user.vendor
      BY <1>1, <2>1 DEF FollowsRow
    <3>1. user # None /\ ~ Telling(user.login) BY <1>1, <1>2, <1>3, <2>1 DEF Rows
    <3>2. CASE c # None /\ w # Idle /\ w.stage = "push" /\ w.seen.login = user.login
      BY <1>1, <3>2 DEF Telling
    <3>3. CASE /\ account[a] # None /\ account[a].login = user.login
               /\ account[a].role = user.role /\ account[a].vendor = user.vendor
               /\ copy'[user.login] = copy[user.login]
      <4>1. FollowsRow(a) BY <3>3, FollowsRows DEF Rows
      <4>2. user.login \notin behind OBVIOUS
      <4>3. QED BY <3>1, <3>3, <4>1, <4>2 DEF FollowsRow
    <3>4. QED BY <3>1, <3>2, <3>3
  <2>2. CASE b # a
    <3>1. b \in Rows /\ account'[b] = account[b] /\ FollowsRow(b)
      BY <1>1, <1>3, <2>2, FollowsRows DEF Rows
    <3>2. account[b].login # None => account[b].login \in Logins
      BY <3>1, OneRow DEF User
    <3>3. user # None /\ account[b].login # None => user.login # account[b].login
      BY <1>1, <1>3, <2>2 DEF TypeOK, Rows
    <3>4. account[b].login # None /\ account[b].login \notin behind' =>
            copy'[account[b].login] = copy[account[b].login]
      BY <3>2, <3>3
    <3>5. QED BY <1>2, <3>1, <3>4 DEF FollowsRow
  <2>3. QED BY <2>1, <2>2
<1>4. ClerkFollows' BY <1>3 DEF ClerkFollows, FollowsRow, Telling
<1>5. QED BY <1>1, <1>4

LEMMA FoundRow ==
    ASSUME TypeOK, NEW s, NEW e
    PROVE  /\ FindLocalUser(s, e) \in Rows \cup {None}
           /\ RowOf(RowsWithLogin(s)) \in Accounts \cup {None}
           /\ RowOf(RowsWithLogin(s)) # None => FindLocalUser(s, e) = RowOf(RowsWithLogin(s))
<1>1. /\ RowsWithLogin(s) \subseteq Rows /\ RowsWithEmail(e) \subseteq Rows
      /\ RowsWithId(s) \subseteq Rows /\ Rows \subseteq Accounts
  BY DEF RowsWithLogin, RowsWithEmail, RowsWithId, Rows
<1>2. \A S \in SUBSET Rows : RowOf(S) \in Rows \cup {None} /\ (S # {} => RowOf(S) \in S)
  BY <1>1 DEF RowOf
<1>3. RowsWithLogin(s) = {} => RowOf(RowsWithLogin(s)) = None BY DEF RowOf
<1>4. QED BY <1>1, <1>2, <1>3 DEF FindLocalUser

\* The records of requests that found a row, are signed in, or have Clerk told.
LEMMA FoundStage ==
    ASSUME TypeOK, NEW c \in Requests, NEW a \in Rows, NEW e \in Addresses \cup {None},
           request[c] # Idle, request[c].own # None => a = request[c].own
    PROVE  Found(request[c], a, e) \in Request /\ Knows(Found(request[c], a, e))
<1>1. request[c] \in Request /\ a \in Accounts /\ account[a] \in User BY DEF Rows, TypeOK
<1>2. Found(request[c], a, e) \in Request BY <1>1 DEF Found, Request
<1>3. Knows(Found(request[c], a, e)) BY <1>1 DEF Found, Request, Knows
<1>4. QED BY <1>2, <1>3

LEMMA SignedStage ==
    ASSUME TypeOK, NEW c \in Requests, NEW a \in Accounts, NEW user \in User,
           request[c] # Idle, request[c].own # None => a = request[c].own
    PROVE  SignedIn(request[c], a, user) \in Request /\ Knows(SignedIn(request[c], a, user))
<1>1. request[c] \in Request BY DEF TypeOK
<1>2. SignedIn(request[c], a, user) \in Request BY <1>1 DEF SignedIn, Request
<1>3. Knows(SignedIn(request[c], a, user)) BY <1>1 DEF SignedIn, Request, Knows
<1>4. QED BY <1>2, <1>3

Pushing(c, a, user) ==
    [request[c] EXCEPT !.stage = "push", !.row = a, !.seen = user, !.own = None]

LEMMA PushStage ==
    ASSUME TypeOK, NEW c \in Requests, NEW a \in Accounts, NEW user \in User,
           request[c] # Idle, user.login # None
    PROVE  /\ Pushing(c, a, user) \in Request /\ Knows(Pushing(c, a, user))
           /\ Pushing(c, a, user) # Idle /\ Pushing(c, a, user).stage = "push"
           /\ Pushing(c, a, user).seen = user
<1> DEFINE w == Pushing(c, a, user)
<1>1. request[c] \in Request BY DEF TypeOK
<1>2. w \in Request BY <1>1 DEF Request, Pushing
<1>3. w.stage = "push" /\ w.row = a /\ w.seen = user /\ w.own = None
  BY <1>1 DEF Request, Pushing
<1>4. Knows(w) BY <1>3 DEF Knows
<1>5. w # Idle BY <1>2, MarksAssumption
<1>6. QED BY <1>2, <1>3, <1>4, <1>5

LEMMA SignInInv ==
    ASSUME AccountsInv, NEW c \in Requests, NEW s \in Logins, NEW told \in {None, address[s]},
           NEW force \in BOOLEAN, Counts, SignIn(c, s, told, force)
    PROVE  AccountsInv'
<1> DEFINE a == FindLocalUser(s, told)
           own == RowOf(RowsWithLogin(s))
           w == [stage |-> "fetch", login |-> s, email |-> told, row |-> a, seen |-> RowSeen(a),
                 new |-> None, own |-> own]
           next == IF a # None /\ ~force THEN Found(w, a, told) ELSE w
<1>1. TypeOK /\ served' \in 0 .. MaxServed BY SetsAssumption DEF AccountsInv, TypeOK, Counts
<1>2. told \in Addresses \cup {None} BY <1>1 DEF TypeOK
<1>3. /\ a \in Rows \cup {None} /\ own \in Accounts \cup {None} /\ (own # None => a = own)
      /\ \A b \in Rows : b \in Accounts /\ account[b] \in User
  BY <1>1, FoundRow, OneRow DEF Rows
<1>4. RowSeen(a) \in User \cup {None} /\ (a # None => RowSeen(a) \in User) BY <1>3 DEF RowSeen
<1> HIDE DEF a, own
<1>5. w \in Request /\ Knows(w) BY <1>2, <1>3, <1>4 DEF Request, Knows
<1>6. a # None => Found(w, a, told) \in Request /\ Knows(Found(w, a, told))
  BY <1>2, <1>3, <1>4 DEF Request, Knows, Found
<1>7. next \in Request \cup {Idle} /\ Knows(next) BY <1>5, <1>6
<1>8. /\ request[c] = Idle /\ Continue(c, next)
      /\ UNCHANGED <<address, profile, copy, behind>>
  BY DEF SignIn, Clerk, a, own
<1> HIDE DEF next
<1>9. address' \in [Logins -> Addresses \cup {None}] /\ profile' \in [Logins -> Addresses \cup {None}]
      /\ UNCHANGED <<copy, behind>>
  BY <1>1, <1>8 DEF TypeOK
<1>10. QED BY <1>1, <1>7, <1>8, <1>9, ContinueInv, Zenon

LEMMA FetchClerkUserInv ==
    ASSUME AccountsInv, NEW c \in Requests, FetchClerkUser(c), UNCHANGED served
    PROVE  AccountsInv'
<1> DEFINE w == request[c]
           cached == profile[w.login] # None
           got == IF cached THEN profile[w.login] ELSE address[w.login]
           e(answer) == IF answer # None THEN answer ELSE w.email
           a(answer) == IF w.row # None \/ answer = None THEN w.row
                        ELSE FindLocalUser(w.login, e(answer))
           next(answer) == IF w.row # None THEN [w EXCEPT !.stage = "check", !.email = e(answer)]
                           ELSE IF a(answer) # None THEN Found(w, a(answer), e(answer))
                           ELSE IF e(answer) # None
                                THEN [w EXCEPT !.stage = "create", !.email = e(answer)]
                           ELSE Idle
<1>1. TypeOK /\ RequestsKnow BY DEF AccountsInv
<1>2. w \in Request /\ w # Idle /\ w.stage = "fetch" /\ Knows(w)
  BY <1>1 DEF FetchClerkUser, TypeOK, RequestsKnow
<1>3. PICK answer \in {got} \cup (IF cached THEN {} ELSE {None}) :
        /\ profile' = [profile EXCEPT ![w.login] = IF answer = None THEN @ ELSE answer]
        /\ Continue(c, next(answer))
        /\ UNCHANGED <<address, copy, behind>>
  BY DEF FetchClerkUser
<1>4. w.login \in Logins /\ answer \in Addresses \cup {None} /\ e(answer) \in Addresses \cup {None}
      /\ w.row \in Accounts \cup {None}
  BY <1>1, <1>2 DEF TypeOK, Request
<1>5. profile' \in [Logins -> Addresses \cup {None}] BY <1>1, <1>3, <1>4 DEF TypeOK
<1>6. a(answer) \in Rows \cup {None, w.row} BY <1>1, FoundRow
<1>7. next(answer) \in Request \cup {Idle} /\ Knows(next(answer))
  <2>1. CASE w.row # None
    <3>1. [w EXCEPT !.stage = "check", !.email = e(answer)] \in Request
      BY <1>2, <1>4 DEF Request
    <3>2. Knows([w EXCEPT !.stage = "check", !.email = e(answer)])
      BY <1>2, <1>4, <2>1 DEF Request, Knows
    <3>3. QED BY <2>1, <3>1, <3>2
  <2>2. CASE w.row = None /\ a(answer) # None
    <3>1. a(answer) \in Rows /\ w.own = None BY <1>2, <1>6, <2>2 DEF Knows
    <3>2. QED BY <1>1, <1>2, <1>4, <2>2, <3>1, FoundStage
  <2>3. CASE w.row = None /\ a(answer) = None /\ e(answer) # None
    <3>1. [w EXCEPT !.stage = "create", !.email = e(answer)] \in Request
      BY <1>2, <1>4 DEF Request
    <3>2. Knows([w EXCEPT !.stage = "create", !.email = e(answer)])
      BY <1>2, <1>4, <2>3 DEF Request, Knows
    <3>3. QED BY <2>3, <3>1, <3>2
  <2>4. CASE w.row = None /\ a(answer) = None /\ e(answer) = None
    BY <1>1, <2>4 DEF Knows
  <2>5. QED BY <2>1, <2>2, <2>3, <2>4
<1> HIDE DEF next
<1>8. address' \in [Logins -> Addresses \cup {None}] /\ UNCHANGED <<copy, behind>>
      /\ served' \in 0 .. MaxServed /\ request[c].stage # "push"
  BY <1>1, <1>2, <1>3 DEF TypeOK
<1>9. QED BY <1>3, <1>5, <1>7, <1>8, ContinueInv, Zenon

LEMMA CheckUpdatesInv ==
    ASSUME AccountsInv, NEW c \in Requests, CheckUpdates(c), UNCHANGED served
    PROVE  AccountsInv'
<1> DEFINE w == request[c]
           e == IF w.email = None \/ RowsWithEmail(w.email) \ {w.row} # {} THEN w.seen.email ELSE w.email
           new == [w.seen EXCEPT !.login = w.login, !.email = e]
           next == IF new = w.seen THEN SignedIn(w, w.row, w.seen)
                   ELSE [w EXCEPT !.stage = "write", !.new = new]
<1>1. TypeOK /\ RequestsKnow BY DEF AccountsInv
<1>2. w \in Request /\ w # Idle /\ w.stage = "check" /\ Knows(w)
  BY <1>1 DEF CheckUpdates, TypeOK, RequestsKnow
<1>3. w.row \in Accounts /\ w.seen \in User /\ (w.own # None => w.row = w.own) BY <1>2 DEF Knows
<1>4. e \in Addresses /\ w.login \in Logins BY <1>2, <1>3 DEF Request, User
<1>5. new \in User /\ new.login = w.login /\ new.role = w.seen.role /\ new.vendor = w.seen.vendor
  BY <1>3, <1>4 DEF User
<1> HIDE DEF e, new
<1>6. next \in Request \cup {Idle} /\ Knows(next)
  <2>1. SignedIn(w, w.row, w.seen) \in Request /\ Knows(SignedIn(w, w.row, w.seen))
    BY <1>1, <1>2, <1>3, SignedStage
  <2>2. [w EXCEPT !.stage = "write", !.new = new] \in Request BY <1>2, <1>5 DEF Request
  <2>3. Knows([w EXCEPT !.stage = "write", !.new = new])
    BY <1>2, <1>3, <1>5 DEF Request, Knows
  <2>4. QED BY <2>1, <2>2, <2>3
<1>7. Continue(c, next) /\ UNCHANGED <<address, profile, copy, behind>>
  BY DEF CheckUpdates, Clerk, e, new
<1> HIDE DEF next
<1>8. address' \in [Logins -> Addresses \cup {None}] /\ profile' \in [Logins -> Addresses \cup {None}]
      /\ UNCHANGED <<copy, behind>> /\ served' \in 0 .. MaxServed /\ request[c].stage # "push"
  BY <1>1, <1>2, <1>7 DEF TypeOK
<1>9. QED BY <1>6, <1>7, <1>8, ContinueInv, Zenon

\* What changes neither the table nor a request, nor what Clerk is told.
LEMMA OutsideInv ==
    ASSUME AccountsInv, UNCHANGED <<account, copy, request, behind>>,
           address' \in [Logins -> Addresses \cup {None}],
           profile' \in [Logins -> Addresses \cup {None}], served' \in 0 .. MaxServed
    PROVE  AccountsInv'
<1>1. TypeOK' BY DEF AccountsInv, TypeOK, Rows
<1>2. RequestsKnow' BY DEF AccountsInv, RequestsKnow, Knows
<1>3. ClerkFollows' BY DEF AccountsInv, ClerkFollows, Rows
<1>4. QED BY <1>1, <1>2, <1>3 DEF AccountsInv

LEMMA WriteUpdatesInv ==
    ASSUME AccountsInv, NEW c \in Requests, WriteUpdates(c), UNCHANGED served
    PROVE  AccountsInv'
<1> DEFINE w == request[c]
           now == account[w.row]
           user == ChangedColumns(now, w.seen, w.new)
<1>1. TypeOK /\ RequestsKnow BY DEF AccountsInv
<1>2. w \in Request /\ w # Idle /\ w.stage = "write" /\ Knows(w)
  BY <1>1 DEF WriteUpdates, TypeOK, RequestsKnow
<1>3. /\ w.row \in Accounts /\ w.seen \in User /\ w.new \in User /\ w.login \in Logins
      /\ w.new.login = w.login /\ w.new.role = w.seen.role /\ w.new.vendor = w.seen.vendor
      /\ w.own # None => w.row = w.own
  BY <1>2 DEF Knows, Request
<1>4. served' \in 0 .. MaxServed BY <1>1 DEF TypeOK
<1>5. CASE now = None
  <2>1. Continue(c, Idle) /\ UNCHANGED <<address, profile, copy, behind>>
    BY <1>5 DEF WriteUpdates, Clerk
  <2>2. address' \in [Logins -> Addresses \cup {None}]
        /\ profile' \in [Logins -> Addresses \cup {None}] /\ UNCHANGED <<copy, behind>>
    BY <1>1, <2>1 DEF TypeOK
  <2>3. Idle \in Request \cup {Idle} /\ Knows(Idle) /\ request[c].stage # "push"
    BY <1>2 DEF Knows
  <2>4. QED BY <1>4, <2>1, <2>2, <2>3, ContinueInv, Zenon
<1>6. CASE now # None /\ Clashes(w.row, user)
  <2>1. Continue(c, SignedIn(w, w.row, now)) /\ UNCHANGED <<address, profile, copy, behind>>
    BY <1>6 DEF WriteUpdates, Clerk
  <2>2. address' \in [Logins -> Addresses \cup {None}]
        /\ profile' \in [Logins -> Addresses \cup {None}] /\ UNCHANGED <<copy, behind>>
    BY <1>1, <2>1 DEF TypeOK
  <2>3. now \in User BY <1>1, <1>3, <1>6 DEF TypeOK
  <2>4. /\ SignedIn(w, w.row, now) \in Request \cup {Idle} /\ Knows(SignedIn(w, w.row, now))
        /\ request[c].stage # "push"
    BY <1>1, <1>2, <1>3, <2>3, SignedStage
  <2>5. QED BY <1>4, <2>1, <2>2, <2>4, ContinueInv, Zenon
<1>7. CASE now # None /\ ~ Clashes(w.row, user)
  <2>1. /\ Commit(c, w.row, user, SignedIn(w, w.row, user))
        /\ behind' = IF now.login = w.login THEN behind ELSE behind \cup {w.login}
        /\ UNCHANGED <<address, profile, copy>>
    BY <1>7 DEF WriteUpdates
  <2>2. now \in User /\ w.row \in Rows BY <1>1, <1>3, <1>7 DEF TypeOK, Rows
  <2>3. /\ user \in User /\ user.role = now.role /\ user.vendor = now.vendor
        /\ user.login = now.login \/ user.login = w.new.login
    BY <1>3, <2>2, Columns
  <2>4. /\ address' \in [Logins -> Addresses \cup {None}] /\ copy' \in [Logins -> Copies]
        /\ profile' \in [Logins -> Addresses \cup {None}] /\ behind' \subseteq Logins
        /\ behind \subseteq behind' /\ copy' = copy
    BY <1>1, <1>3, <2>1 DEF TypeOK
  <2>5. SignedIn(w, w.row, user) \in Request \cup {Idle} /\ Knows(SignedIn(w, w.row, user))
        /\ request[c].stage # "push"
    BY <1>1, <1>2, <1>3, <2>3, SignedStage
  <2>6. user \in User \cup {None} /\ c \in Requests \cup {None} BY <2>3
  <2>7. user # None => ~ Clashes(w.row, user) BY <1>7
  <2>8. c # None => request[c] = Idle \/ request[c].stage # "push" BY <2>5
  <2>9. \A s \in Logins \ behind' : (user = None \/ user.login # s) => copy'[s] = copy[s]
    BY <2>4
  <2>10. user.login # now.login => user.login \in behind' BY <1>3, <2>1, <2>3
  <2>11. user # None /\ user.login \notin behind' \cup {None} /\ ~ Telling(user.login) =>
           \/ c # None /\ SignedIn(w, w.row, user) # Idle
              /\ SignedIn(w, w.row, user).stage = "push"
              /\ SignedIn(w, w.row, user).seen.login = user.login
           \/ /\ copy'[user.login] # None /\ copy'[user.login].role = user.role
              /\ user.vendor # None => copy'[user.login].vendor = user.vendor
           \/ /\ account[w.row] # None /\ account[w.row].login = user.login
              /\ account[w.row].role = user.role /\ account[w.row].vendor = user.vendor
              /\ copy'[user.login] = copy[user.login]
    BY <1>7, <2>3, <2>4, <2>10
  <2> HIDE DEF user
  <2>12. QED
    BY <1>3, <1>4, <2>1, <2>4, <2>5, <2>6, <2>7, <2>8, <2>9, <2>11, CommitInv, Zenon
<1>8. QED BY <1>5, <1>6, <1>7

LEMMA CreateSignedInInv ==
    ASSUME AccountsInv, NEW c \in Requests, NEW a \in Accounts, CreateSignedIn(c, a),
           UNCHANGED served
    PROVE  AccountsInv'
<1> DEFINE w == request[c]
           user == [login |-> w.login, email |-> w.email, role |-> "TOURIST", vendor |-> None]
           next == SignedIn(w, a, user)
<1>1. TypeOK /\ RequestsKnow BY DEF AccountsInv
<1>2. w \in Request /\ w # Idle /\ w.stage = "create" /\ Knows(w)
  BY <1>1 DEF CreateSignedIn, TypeOK, RequestsKnow
<1>3. w.login \in Logins /\ w.email \in Addresses /\ w.own = None BY <1>2 DEF Knows, Request
<1>4. user \in User BY <1>3 DEF User, Roles, VendorStatus
<1>5. served' \in 0 .. MaxServed /\ w.stage # "push" BY <1>1, <1>2 DEF TypeOK
<1>6. CASE Clashes(a, user)
  <2>1. Continue(c, Idle) /\ UNCHANGED <<address, profile, copy, behind>>
    BY <1>6 DEF CreateSignedIn, Clerk
  <2>2. address' \in [Logins -> Addresses \cup {None}]
        /\ profile' \in [Logins -> Addresses \cup {None}] /\ UNCHANGED <<copy, behind>>
    BY <1>1, <2>1 DEF TypeOK
  <2>3. Idle \in Request \cup {Idle} /\ Knows(Idle) BY DEF Knows
  <2>4. QED BY <1>5, <2>1, <2>2, <2>3, ContinueInv, Zenon
<1>7. CASE ~ Clashes(a, user)
  <2>1. /\ Commit(c, a, user, next) /\ behind' = behind \cup {w.login}
        /\ UNCHANGED <<address, profile, copy>>
    BY <1>7 DEF CreateSignedIn
  <2>2. user.login \in behind' BY <2>1
  <2>3. next \in Request \cup {Idle} /\ Knows(next) BY <1>1, <1>2, <1>3, <1>4, SignedStage
  <2> HIDE DEF next, user
  <2>4. /\ address' \in [Logins -> Addresses \cup {None}] /\ copy' \in [Logins -> Copies]
        /\ profile' \in [Logins -> Addresses \cup {None}] /\ behind' \subseteq Logins
        /\ behind \subseteq behind'
    BY <1>1, <1>3, <2>1 DEF TypeOK
  <2>5. /\ \A s \in Logins \ behind' : (user = None \/ user.login # s) => copy'[s] = copy[s]
        /\ user # None => ~ Clashes(a, user)
        /\ c # None => request[c] = Idle \/ request[c].stage # "push"
        /\ user \in User \cup {None} /\ c \in Requests \cup {None}
    BY <1>4, <1>5, <1>7, <2>1
  <2>6. user # None /\ user.login \notin behind' \cup {None} /\ ~ Telling(user.login) =>
           \/ c # None /\ next # Idle /\ next.stage = "push" /\ next.seen.login = user.login
           \/ /\ copy'[user.login] # None /\ copy'[user.login].role = user.role
              /\ user.vendor # None => copy'[user.login].vendor = user.vendor
           \/ /\ account[a] # None /\ account[a].login = user.login
              /\ account[a].role = user.role /\ account[a].vendor = user.vendor
              /\ copy'[user.login] = copy[user.login]
    BY <2>2
  <2>7. QED BY <1>5, <2>1, <2>3, <2>4, <2>5, <2>6, CommitInv, Zenon
<1>8. QED BY <1>6, <1>7

LEMMA CommitAndTellInv ==
    ASSUME AccountsInv, NEW c \in Requests, NEW a \in Accounts, NEW user \in User, IsSigned(c),
           CommitAndTell(c, a, user), ~ Clashes(a, user), UNCHANGED served
    PROVE  AccountsInv'
<1> DEFINE push == Pushing(c, a, user)
           next == IF user.login = None THEN Idle ELSE push
<1>1. TypeOK /\ RequestsKnow BY DEF AccountsInv
<1>2. request[c] # Idle /\ request[c].stage # "push" BY DEF IsSigned
<1>3. user.login # None => /\ push \in Request /\ Knows(push) /\ push # Idle
                           /\ push.stage = "push" /\ push.seen = user
  BY <1>1, <1>2, PushStage
<1>4. Commit(c, a, user, next) /\ UNCHANGED <<address, profile, copy, behind>>
  BY DEF CommitAndTell, Clerk, Pushing
<1> HIDE DEF push
<1>5. next \in Request \cup {Idle} /\ Knows(next) BY <1>3 DEF Knows
<1>6. user # None /\ user.login \notin behind' \cup {None} /\ ~ Telling(user.login) =>
           \/ c # None /\ next # Idle /\ next.stage = "push" /\ next.seen.login = user.login
           \/ /\ copy'[user.login] # None /\ copy'[user.login].role = user.role
              /\ user.vendor # None => copy'[user.login].vendor = user.vendor
           \/ /\ account[a] # None /\ account[a].login = user.login
              /\ account[a].role = user.role /\ account[a].vendor = user.vendor
              /\ copy'[user.login] = copy[user.login]
  <2>1. CASE user.login = None BY <2>1
  <2>2. CASE user.login # None
    <3>1. c # None BY SetsAssumption
    <3>2. QED BY <1>3, <2>2, <3>1
  <2>3. QED BY <2>1, <2>2
<1> HIDE DEF next
<1>7. /\ address' \in [Logins -> Addresses \cup {None}] /\ copy' \in [Logins -> Copies]
      /\ profile' \in [Logins -> Addresses \cup {None}] /\ behind' \subseteq Logins
      /\ behind \subseteq behind' /\ served' \in 0 .. MaxServed
  BY <1>1, <1>4 DEF TypeOK
<1>8. /\ \A s \in Logins \ behind' : (user = None \/ user.login # s) => copy'[s] = copy[s]
      /\ user # None => ~ Clashes(a, user)
      /\ c # None => request[c] = Idle \/ request[c].stage # "push"
      /\ user \in User \cup {None} /\ c \in Requests \cup {None}
  BY <1>2, <1>4
<1>9. QED BY <1>4, <1>5, <1>6, <1>7, <1>8, CommitInv, Zenon

\* A signed-in request has a row and what this row was.
LEMMA SignedRow ==
    ASSUME AccountsInv, NEW c \in Requests, IsSigned(c)
    PROVE  request[c].row \in Accounts /\ request[c].seen \in User
BY DEF AccountsInv, IsSigned, RequestsKnow, Knows

\* A row whose keys stay as they are clashes with no other.
LEMMA SameKeys ==
    ASSUME TypeOK, NEW a \in Rows, NEW user, user.email = account[a].email,
           user.login = account[a].login
    PROVE  ~ Clashes(a, user)
BY DEF TypeOK, Clashes

LEMMA ApplyVendorInv ==
    ASSUME AccountsInv, NEW c \in Requests, ApplyVendor(c), UNCHANGED served
    PROVE  AccountsInv'
<1> DEFINE w == request[c]
           applied == [w.seen EXCEPT !.role = "VENDOR", !.vendor = "pending"]
           user == ChangedColumns(account[w.row], w.seen, applied)
<1>1. IsSigned(c) /\ account[w.row] # None /\ CommitAndTell(c, w.row, user)
  BY DEF ApplyVendor
<1>2. w.row \in Accounts /\ w.seen \in User BY <1>1, SignedRow
<1>3. account[w.row] \in User /\ w.row \in Rows
  BY <1>1, <1>2 DEF AccountsInv, TypeOK, Rows
<1>4. applied \in User /\ applied.login = w.seen.login /\ applied.email = w.seen.email
  BY <1>2 DEF User, Roles, VendorStatus
<1> HIDE DEF applied
<1>5. user \in User /\ user.email = account[w.row].email /\ user.login = account[w.row].login
  BY <1>2, <1>3, <1>4, Columns
<1> HIDE DEF user
<1>6. ~ Clashes(w.row, user) BY <1>3, <1>5, SameKeys DEF AccountsInv
<1>7. QED BY <1>1, <1>2, <1>5, <1>6, CommitAndTellInv, Zenon

LEMMA UpdatedUser ==
    ASSUME NEW seen \in User, NEW email \in Addresses \cup {None}, NEW role \in Given \cup {None},
           NEW vendor \in Decisions \cup {None}
    PROVE  /\ Updated(seen, email, role, vendor) \in User
           /\ Updated(seen, email, role, vendor).login = seen.login
           /\ vendor = None => Updated(seen, email, role, vendor).vendor = seen.vendor
<1>1. (IF email = None THEN seen.email ELSE email) \in Addresses BY DEF User
<1>2. (IF role = None THEN seen.role ELSE role) \in Roles BY SetsAssumption DEF User, Roles
<1>3. (IF vendor = None THEN seen.vendor ELSE vendor) \in VendorStatus BY DEF User, VendorStatus
<1>4. QED BY <1>1, <1>2, <1>3 DEF Updated, User

LEMMA UpdateUserInv ==
    ASSUME AccountsInv, NEW c \in Requests, NEW a \in Accounts,
           NEW email \in Addresses \cup {None}, NEW role \in Given \cup {None},
           NEW vendor \in Decisions \cup {None}, UpdateUser(c, a, email, role, vendor),
           UNCHANGED served
    PROVE  AccountsInv'
<1> DEFINE seen == IF a = request[c].row THEN request[c].seen ELSE account[a]
           user == ChangedColumns(account[a], seen, Updated(seen, email, role, vendor))
<1>1. IsSigned(c) /\ account[a] # None /\ ~ Clashes(a, user) /\ CommitAndTell(c, a, user)
  BY DEF UpdateUser
<1>2. account[a] \in User BY <1>1 DEF AccountsInv, TypeOK
<1>3. seen \in User BY <1>1, <1>2, SignedRow
<1> HIDE DEF seen
<1>4. user \in User BY <1>2, <1>3, UpdatedUser, Columns
<1> HIDE DEF user
<1>5. QED BY <1>1, <1>4, CommitAndTellInv, Zenon

LEMMA MergedCopy ==
    ASSUME TypeOK, NEW s \in Logins, NEW user \in User
    PROVE  /\ Merged(s, user) \in Copies /\ Merged(s, user) # None
           /\ Merged(s, user).role = user.role
           /\ user.vendor # None => Merged(s, user).vendor = user.vendor
           /\ user.vendor = None /\ copy[s] # None => Merged(s, user).vendor = copy[s].vendor
<1>1. copy[s] # None => copy[s].vendor \in VendorStatus BY DEF TypeOK, Copies
<1>2. user.role \in Roles /\ user.vendor \in VendorStatus BY DEF User
<1>3. Merged(s, user) \in [role: Roles, vendor: VendorStatus] BY <1>1, <1>2 DEF Merged
<1>4. QED BY <1>3, MarksAssumption DEF Merged, Copies

LEMMA CreateUserInv ==
    ASSUME AccountsInv, NEW c \in Requests, NEW a \in Accounts, NEW s \in Logins \cup {None},
           NEW email \in Addresses, NEW role \in Given, CreateUser(c, a, s, email, role),
           UNCHANGED served
    PROVE  AccountsInv'
<1> DEFINE vendor == IF role \in {"VENDOR", "DRIVER"} THEN "pending" ELSE None
           user == NewUser(s, email, role, vendor)
           push == Pushing(c, a, user)
           next == IF s = None THEN Idle ELSE push
<1>1. TypeOK /\ RequestsKnow BY DEF AccountsInv
<1>2. user \in User /\ user.login = s
  BY SetsAssumption DEF NewUser, User, Roles, VendorStatus
<1>3. /\ request[c] # Idle /\ request[c].stage # "push" /\ RowsWithEmail(email) = {}
      /\ CreateClerkUser(s, user)
  BY DEF CreateUser, IsAdmin, IsSigned
<1>4. /\ address' \in [Logins -> Addresses \cup {None}]
      /\ profile' \in [Logins -> Addresses \cup {None}] /\ served' \in 0 .. MaxServed
  BY <1>1, <1>2, <1>3 DEF CreateClerkUser, TypeOK, NewUser
<1>5. /\ copy' \in [Logins -> Copies]
      /\ \A t \in Logins : t # s => copy'[t] = copy[t]
      /\ s # None => copy'[s] = Merged(s, user)
  BY <1>1, <1>2, <1>3, MergedCopy DEF CreateClerkUser, TypeOK
<1>6. CASE Clashes(a, user)
  <2>1. Continue(c, Idle) /\ behind' = behind \cup {s} BY <1>6 DEF CreateUser
  <2>2. s # None BY <1>2, <1>3, <1>6 DEF Clashes, RowsWithEmail, NewUser
  <2>3. account' = account /\ Rows' = Rows /\ request' = [request EXCEPT ![c] = Idle]
    BY <2>1 DEF Continue, Rows
  <2>4. TypeOK' BY <1>1, <1>4, <1>5, <2>1, <2>2, <2>3 DEF TypeOK
  <2>5. \A x \in Requests : request'[x] = IF x = c THEN Idle ELSE request[x]
    BY <1>1, <2>3 DEF TypeOK
  <2>6. RequestsKnow' BY <1>1, <2>5 DEF RequestsKnow, Knows
  <2>7. \A t : Telling(t) => Telling(t)' BY <1>3, <2>5 DEF Telling
  <2>8. ASSUME NEW b \in Rows PROVE FollowsRow(b)'
    <3>1. FollowsRow(b) /\ account[b] \in User BY <1>1, FollowsRows, OneRow DEF AccountsInv
    <3>2. account[b].login \in Logins \cup {None} BY <3>1 DEF User
    <3>3. QED BY <1>5, <2>1, <2>3, <2>7, <3>1, <3>2 DEF FollowsRow
  <2>9. ClerkFollows' BY <2>3, <2>8 DEF ClerkFollows, FollowsRow, Telling
  <2>10. QED BY <2>4, <2>6, <2>9 DEF AccountsInv
<1>7. CASE ~ Clashes(a, user)
  <2>1. Commit(c, a, user, next) /\ UNCHANGED behind
    BY <1>7 DEF CreateUser, Pushing
  <2>2. s # None => /\ push \in Request /\ Knows(push) /\ push # Idle
                    /\ push.stage = "push" /\ push.seen = user
    BY <1>1, <1>2, <1>3, PushStage
  <2> HIDE DEF push, user
  <2>3. next \in Request \cup {Idle} /\ Knows(next) BY <2>2 DEF Knows
  <2>4. user # None /\ user.login \notin behind' \cup {None} /\ ~ Telling(user.login) =>
           \/ c # None /\ next # Idle /\ next.stage = "push" /\ next.seen.login = user.login
           \/ /\ copy'[user.login] # None /\ copy'[user.login].role = user.role
              /\ user.vendor # None => copy'[user.login].vendor = user.vendor
           \/ /\ account[a] # None /\ account[a].login = user.login
              /\ account[a].role = user.role /\ account[a].vendor = user.vendor
              /\ copy'[user.login] = copy[user.login]
    <3>1. CASE s = None BY <1>2, <3>1
    <3>2. CASE s # None
      <4>1. c # None BY SetsAssumption
      <4>2. QED BY <1>2, <2>2, <3>2, <4>1
    <3>3. QED BY <3>1, <3>2
  <2> HIDE DEF next
  <2>5. behind' \subseteq Logins /\ behind \subseteq behind' BY <1>1, <2>1 DEF TypeOK
  <2>6. /\ \A t \in Logins \ behind' : (user = None \/ user.login # t) => copy'[t] = copy[t]
        /\ user # None => ~ Clashes(a, user)
        /\ c # None => request[c] = Idle \/ request[c].stage # "push"
        /\ user \in User \cup {None} /\ c \in Requests \cup {None}
    BY <1>2, <1>3, <1>5, <1>7, MarksAssumption
  <2>7. QED BY <1>4, <1>5, <2>1, <2>3, <2>4, <2>5, <2>6, CommitInv, Zenon
<1>8. QED BY <1>6, <1>7

LEMMA DeleteUserInv ==
    ASSUME AccountsInv, NEW c \in Requests, NEW a \in Accounts, DeleteUser(c, a),
           UNCHANGED served
    PROVE  AccountsInv'
<1>1. TypeOK BY DEF AccountsInv
<1>2. /\ request[c] # Idle /\ request[c].stage # "push" /\ Commit(c, a, None, Idle)
      /\ UNCHANGED <<address, profile, copy, behind>>
  BY DEF DeleteUser, IsAdmin, IsSigned, Clerk
<1>3. /\ address' \in [Logins -> Addresses \cup {None}] /\ copy' \in [Logins -> Copies]
      /\ profile' \in [Logins -> Addresses \cup {None}] /\ behind' \subseteq Logins
      /\ behind \subseteq behind' /\ served' \in 0 .. MaxServed
      /\ Idle \in Request \cup {Idle} /\ Knows(Idle)
      /\ None \in User \cup {None} /\ c \in Requests \cup {None}
      /\ c # None => request[c] = Idle \/ request[c].stage # "push"
      /\ \A s \in Logins \ behind' : (None = None \/ None.login # s) => copy'[s] = copy[s]
  BY <1>1, <1>2 DEF TypeOK, Knows
<1>4. /\ TypeOK' /\ RequestsKnow'
      /\ account'[a] = None /\ \A b \in Accounts : b # a => account'[b] = account[b]
      /\ c # None => request'[c] = Idle
      /\ \A x \in Requests : x # c /\ request[x] # Idle =>
            /\ request'[x] # Idle /\ request'[x].stage = request[x].stage
            /\ request'[x].seen = request[x].seen
      /\ \A x \in Requests : x # c /\ request[x] = Idle => request'[x] = Idle
  BY <1>2, <1>3, CommitTypes, Zenon
<1>5. \A s : Telling(s) => Telling(s)' BY <1>2, <1>4 DEF Telling
<1>6. ASSUME NEW b \in Rows' PROVE FollowsRow(b)'
  <2>1. b \in Rows /\ account'[b] = account[b] BY <1>4, <1>6 DEF Rows
  <2>2. FollowsRow(b) BY <2>1, FollowsRows DEF AccountsInv
  <2>3. QED BY <1>2, <1>5, <2>1, <2>2 DEF FollowsRow
<1>7. ClerkFollows' BY <1>6 DEF ClerkFollows, FollowsRow, Telling
<1>8. QED BY <1>4, <1>7 DEF AccountsInv

LEMMA PushInv ==
    ASSUME AccountsInv, NEW c \in Requests, NEW fails \in BOOLEAN, Push(c, fails),
           UNCHANGED served
    PROVE  AccountsInv'
<1> DEFINE seen == request[c].seen
           s == seen.login
           overtaken == \E b \in RowsWithLogin(s) : Told(account[b]) # Told(seen)
<1>1. TypeOK /\ RequestsKnow BY DEF AccountsInv
<1>2. /\ request[c] # Idle /\ request[c].stage = "push"
      /\ copy' = IF fails THEN copy ELSE [copy EXCEPT ![s] = Merged(s, seen)]
      /\ behind' = IF fails \/ overtaken THEN behind \cup {s} ELSE behind \ {s}
      /\ Continue(c, Idle) /\ UNCHANGED <<address, profile>>
  BY DEF Push
<1>3. seen \in User /\ s # None BY <1>1, <1>2 DEF RequestsKnow, Knows
<1>4. s \in Logins BY <1>3 DEF User
<1>5. /\ account' = account /\ Rows' = Rows /\ request' = [request EXCEPT ![c] = Idle]
      /\ \A x \in Requests : request'[x] = IF x = c THEN Idle ELSE request[x]
  BY <1>1, <1>2 DEF Continue, Rows, TypeOK
<1> HIDE DEF overtaken, seen
<1>6. /\ copy' \in [Logins -> Copies] /\ behind' \subseteq Logins
      /\ \A t \in Logins : t # s => copy'[t] = copy[t] /\ (t \in behind' <=> t \in behind)
      /\ s \notin behind' => ~ fails /\ ~ overtaken /\ copy'[s] = Merged(s, seen)
  BY <1>1, <1>2, <1>3, <1>4, MergedCopy DEF TypeOK
<1>7. TypeOK'
  <2>1. request' \in [Requests -> Request \cup {Idle}] BY <1>1, <1>5 DEF TypeOK
  <2>2. QED BY <1>1, <1>2, <1>5, <1>6, <2>1 DEF TypeOK
<1>8. RequestsKnow' BY <1>1, <1>5 DEF RequestsKnow, Knows
<1>9. \A t : t # s => (Telling(t) => Telling(t)') BY <1>5 DEF Telling, seen
<1>10. ASSUME NEW b \in Rows PROVE FollowsRow(b)'
  <2>1. FollowsRow(b) /\ account[b] \in User BY <1>1, FollowsRows, OneRow DEF AccountsInv
  <2>2. account[b].login \in Logins \cup {None} BY <2>1 DEF User
  <2>3. CASE account[b].login # s
    BY <1>5, <1>6, <1>9, <2>1, <2>2, <2>3 DEF FollowsRow
  <2>4. CASE account[b].login = s
    <3> SUFFICES ASSUME s \notin behind'
                 PROVE  /\ copy'[s] # None /\ copy'[s].role = account[b].role
                        /\ account[b].vendor # None => copy'[s].vendor = account[b].vendor
      BY <1>5, <2>4 DEF FollowsRow
    <3>1. ~ overtaken /\ copy'[s] = Merged(s, seen) BY <1>6
    <3>2. Told(account[b]) = Told(seen) BY <2>4, <3>1 DEF overtaken, RowsWithLogin
    <3>3. account[b].role = seen.role /\ account[b].vendor = seen.vendor BY <3>2 DEF Told
    <3>4. QED BY <1>1, <1>3, <1>4, <3>1, <3>3, MergedCopy
  <2>5. QED BY <2>3, <2>4
<1>11. ClerkFollows' BY <1>5, <1>10 DEF ClerkFollows, FollowsRow, Telling
<1>12. QED BY <1>7, <1>8, <1>11 DEF AccountsInv

LEMMA CreateAdminInv ==
    ASSUME AccountsInv, NEW a \in Accounts, NEW s \in Logins \cup {None}, NEW email \in Addresses,
           NEW fails \in BOOLEAN, Counts, CreateAdmin(a, s, email, fails)
    PROVE  AccountsInv'
<1> DEFINE old == account[a]
           user == IF old = None
                   THEN [login |-> s, email |-> email, role |-> "ADMIN", vendor |-> None]
                   ELSE [old EXCEPT !.role = "ADMIN", !.login = IF old.login = None THEN s ELSE @]
           linked == old = None \/ old.login # user.login
           l == user.login
           told == [user EXCEPT !.vendor = None]
<1>1. TypeOK /\ RequestsKnow BY DEF AccountsInv
<1>2. old # None => old \in User BY <1>1 DEF TypeOK
<1>3. user \in User /\ user.role = "ADMIN" BY <1>2 DEF User, Roles, VendorStatus
<1>4. old # None => user.vendor = old.vendor BY <1>2 DEF User
<1>5. old = None => user.vendor = None OBVIOUS
<1>6. /\ ~ Clashes(a, user) /\ Commit(None, a, user, Idle) /\ UNCHANGED <<address, profile>>
      /\ l = None => UNCHANGED <<copy, behind>>
      /\ l # None =>
            /\ copy' = IF fails THEN copy ELSE [copy EXCEPT ![l] = Merged(l, told)]
            /\ behind' = IF fails \/ (linked /\ user.vendor # None) THEN behind \cup {l} ELSE behind
  BY DEF CreateAdmin
<1>7. told \in User /\ told.vendor = None /\ told.role = user.role
  BY <1>3 DEF User, VendorStatus
<1>8. l # None => l \in Logins BY <1>3 DEF User
<1>9. linked \/ (old # None /\ old.login = l) OBVIOUS
<1> HIDE DEF told, user
<1>10. /\ copy' \in [Logins -> Copies] /\ behind' \subseteq Logins /\ behind \subseteq behind'
       /\ \A t \in Logins : t # l => copy'[t] = copy[t]
       /\ l # None /\ l \notin behind' =>
            copy'[l] = Merged(l, told) /\ (user.vendor = None \/ ~ linked)
  BY <1>1, <1>6, <1>7, <1>8, MergedCopy DEF TypeOK
<1>11. ASSUME l \notin behind' \cup {None}, ~ Telling(l)
       PROVE  /\ copy'[l] # None /\ copy'[l].role = user.role
              /\ user.vendor # None => copy'[l].vendor = user.vendor
  <2>1. /\ l \in Logins /\ copy'[l] = Merged(l, told) /\ l \notin behind
        /\ user.vendor = None \/ ~ linked
    BY <1>8, <1>10, <1>11
  <2>2. copy'[l] # None /\ copy'[l].role = user.role BY <1>1, <1>7, <2>1, MergedCopy
  <2>3. ASSUME user.vendor # None PROVE copy'[l].vendor = user.vendor
    <3>1. old # None /\ old.login = l /\ user.vendor = old.vendor
      BY <1>4, <1>5, <1>9, <2>1, <2>3
    <3>2. FollowsRow(a) BY <3>1, FollowsRows DEF AccountsInv, Rows
    <3>3. copy[l] # None /\ copy[l].vendor = user.vendor
      BY <1>11, <2>1, <2>3, <3>1, <3>2 DEF FollowsRow
    <3>4. QED BY <1>1, <1>7, <2>1, <3>3, MergedCopy
  <2>4. QED BY <2>2, <2>3
<1>12. user # None /\ user.login \notin behind' \cup {None} /\ ~ Telling(user.login) =>
           \/ None # None /\ Idle # Idle /\ Idle.stage = "push" /\ Idle.seen.login = user.login
           \/ /\ copy'[user.login] # None /\ copy'[user.login].role = user.role
              /\ user.vendor # None => copy'[user.login].vendor = user.vendor
           \/ /\ account[a] # None /\ account[a].login = user.login
              /\ account[a].role = user.role /\ account[a].vendor = user.vendor
              /\ copy'[user.login] = copy[user.login]
  BY <1>11
<1>13. /\ address' \in [Logins -> Addresses \cup {None}]
       /\ profile' \in [Logins -> Addresses \cup {None}] /\ served' \in 0 .. MaxServed
       /\ Idle \in Request \cup {Idle} /\ Knows(Idle)
       /\ user \in User \cup {None} /\ None \in Requests \cup {None}
       /\ None # None => request[None] = Idle \/ request[None].stage # "push"
       /\ user # None => ~ Clashes(a, user)
       /\ \A t \in Logins \ behind' : (user = None \/ user.login # t) => copy'[t] = copy[t]
  BY <1>1, <1>3, <1>6, <1>10, SetsAssumption, MarksAssumption DEF TypeOK, Counts, Knows
<1>14. QED BY <1>6, <1>10, <1>12, <1>13, CommitInv, Zenon

\* A row whose role or status is written without telling Clerk: its login falls behind.
LEMMA UntoldInv ==
    ASSUME AccountsInv, NEW c \in Requests \cup {None}, NEW a \in Accounts, NEW user \in User,
           account[a] # None, user.login = account[a].login, user.email = account[a].email,
           Commit(c, a, user, Idle), behind' = behind \cup Untold(a, user),
           UNCHANGED <<address, profile, copy>>, served' \in 0 .. MaxServed,
           c # None => request[c].stage # "push"
    PROVE  AccountsInv'
<1>1. TypeOK /\ account[a] \in User /\ user # None BY MarksAssumption DEF AccountsInv, TypeOK
<1>2. ~ Clashes(a, user) BY <1>1, SameKeys DEF Rows
<1>3. user.login \in Logins \cup {None} BY DEF User
<1>4. behind' \subseteq Logins /\ behind \subseteq behind' BY <1>1, <1>3 DEF Untold, TypeOK
<1>5. ASSUME user.login \notin behind' \cup {None}
      PROVE  account[a].role = user.role /\ account[a].vendor = user.vendor
  <2>1. Told(account[a]) = Told(user) BY <1>5 DEF Untold
  <2>2. QED BY <2>1 DEF Told
<1>6. user # None /\ user.login \notin behind' \cup {None} /\ ~ Telling(user.login) =>
         \/ c # None /\ Idle # Idle /\ Idle.stage = "push" /\ Idle.seen.login = user.login
         \/ /\ copy'[user.login] # None /\ copy'[user.login].role = user.role
            /\ user.vendor # None => copy'[user.login].vendor = user.vendor
         \/ /\ account[a] # None /\ account[a].login = user.login
            /\ account[a].role = user.role /\ account[a].vendor = user.vendor
            /\ copy'[user.login] = copy[user.login]
  BY <1>5
<1>7. /\ address' \in [Logins -> Addresses \cup {None}] /\ copy' \in [Logins -> Copies]
      /\ profile' \in [Logins -> Addresses \cup {None}]
      /\ Idle \in Request \cup {Idle} /\ Knows(Idle) /\ user \in User \cup {None}
      /\ c # None => request[c] = Idle \/ request[c].stage # "push"
      /\ user # None => ~ Clashes(a, user)
      /\ \A t \in Logins \ behind' : (user = None \/ user.login # t) => copy'[t] = copy[t]
  BY <1>1, <1>2 DEF TypeOK, Knows
<1>8. QED BY <1>4, <1>6, <1>7, CommitInv, Zenon

LEMMA DecideDriverInv ==
    ASSUME AccountsInv, NEW c \in Requests, NEW a \in Accounts,
           NEW vendor \in {"pending"} \cup Decisions, DecideDriver(c, a, vendor), UNCHANGED served
    PROVE  AccountsInv'
<1> DEFINE user == [account[a] EXCEPT !.vendor = vendor]
<1>1. TypeOK /\ served' \in 0 .. MaxServed BY DEF AccountsInv, TypeOK
<1>2. /\ account[a] # None /\ request[c].stage # "push" /\ Commit(c, a, user, Idle)
      /\ behind' = behind \cup Untold(a, user) /\ UNCHANGED <<address, profile, copy>>
  BY DEF DecideDriver, IsAdmin, IsSigned
<1>3. account[a] \in User BY <1>1, <1>2 DEF TypeOK
<1>4. user \in User /\ user.login = account[a].login /\ user.email = account[a].email
  BY <1>3 DEF User, VendorStatus
<1> HIDE DEF user
<1>5. QED BY <1>1, <1>2, <1>4, UntoldInv

LEMMA BecomeDriverInv ==
    ASSUME AccountsInv, NEW a \in Accounts, Counts, BecomeDriver(a)
    PROVE  AccountsInv'
<1> DEFINE user == [account[a] EXCEPT !.role = "DRIVER"]
<1>1. TypeOK /\ served' \in 0 .. MaxServed BY SetsAssumption DEF AccountsInv, TypeOK, Counts
<1>2. /\ account[a] # None /\ Commit(None, a, user, Idle)
      /\ behind' = behind \cup Untold(a, user) /\ UNCHANGED <<address, profile, copy>>
  BY DEF BecomeDriver
<1>3. account[a] \in User BY <1>1, <1>2 DEF TypeOK
<1>4. user \in User /\ user.login = account[a].login /\ user.email = account[a].email
  BY <1>3 DEF User, Roles
<1> HIDE DEF user
<1>5. QED BY <1>1, <1>2, <1>4, UntoldInv

LEMMA SignUpDriverInv ==
    ASSUME AccountsInv, NEW a \in Accounts, NEW s \in Logins \cup {None}, NEW email \in Addresses,
           NEW made \in BOOLEAN, Counts, SignUpDriver(a, s, email, made)
    PROVE  AccountsInv'
<1> DEFINE user == NewUser(s, email, "DRIVER", None)
           told == [user EXCEPT !.vendor = "pending"]
           untold == behind \cup ({s} \ {None})
<1>1. TypeOK /\ RequestsKnow BY DEF AccountsInv
<1>2. /\ user \in User /\ user.login = s /\ user.role = "DRIVER" /\ user.vendor = None
      /\ user.email = email /\ told \in User /\ told.email = email /\ told.role = "DRIVER"
  BY DEF NewUser, User, Roles, VendorStatus
<1>3. /\ IF made THEN CreateClerkUser(s, told) ELSE UNCHANGED <<address, profile, copy>>
      /\ \/ made /\ behind' = untold /\ UNCHANGED <<account, request>>
         \/ /\ ~ Clashes(a, user) /\ Commit(None, a, user, Idle)
            /\ behind' = IF made THEN behind ELSE untold
  BY DEF SignUpDriver
<1> HIDE DEF user, told
<1>4. /\ address' \in [Logins -> Addresses \cup {None}]
      /\ profile' \in [Logins -> Addresses \cup {None}] /\ served' \in 0 .. MaxServed
      /\ behind' \subseteq Logins /\ behind \subseteq behind'
  BY <1>1, <1>2, <1>3, SetsAssumption DEF CreateClerkUser, TypeOK, Counts
<1>5. /\ copy' \in [Logins -> Copies]
      /\ \A t \in Logins : t # s => copy'[t] = copy[t]
      /\ made /\ s # None => copy'[s] # None /\ copy'[s].role = "DRIVER"
      /\ ~ made => copy' = copy
  <2>1. CASE ~ made BY <1>1, <1>3, <2>1 DEF TypeOK
  <2>2. CASE made
    <3>1. copy' = IF s = None THEN copy ELSE [copy EXCEPT ![s] = Merged(s, told)]
      BY <1>3, <2>2 DEF CreateClerkUser
    <3>2. s # None => Merged(s, told) \in Copies /\ Merged(s, told) # None
                      /\ Merged(s, told).role = "DRIVER"
      BY <1>1, <1>2, MergedCopy
    <3>3. QED BY <1>1, <2>2, <3>1, <3>2 DEF TypeOK
  <2>3. QED BY <2>1, <2>2
<1>6. CASE made /\ behind' = untold /\ UNCHANGED <<account, request>>
  <2>1. account' = account /\ request' = request /\ Rows' = Rows BY <1>6 DEF Rows
  <2>2. TypeOK' BY <1>1, <1>4, <1>5, <2>1 DEF TypeOK
  <2>3. RequestsKnow' BY <1>1, <2>1 DEF RequestsKnow, Knows
  <2>4. ASSUME NEW b \in Rows PROVE FollowsRow(b)'
    <3>1. FollowsRow(b) /\ account[b] \in User BY <1>1, FollowsRows, OneRow DEF AccountsInv
    <3>2. account[b].login \in Logins \cup {None} BY <3>1 DEF User
    <3>3. \A t : Telling(t) => Telling(t)' BY <2>1 DEF Telling
    <3>4. account[b].login # None /\ account[b].login \notin behind' =>
            copy'[account[b].login] = copy[account[b].login]
      BY <1>5, <1>6, <3>2
    <3>5. QED BY <1>4, <2>1, <3>1, <3>3, <3>4 DEF FollowsRow
  <2>5. ClerkFollows' BY <2>1, <2>4 DEF ClerkFollows, FollowsRow, Telling
  <2>6. QED BY <2>2, <2>3, <2>5 DEF AccountsInv
<1>7. CASE /\ ~ Clashes(a, user) /\ Commit(None, a, user, Idle)
           /\ behind' = IF made THEN behind ELSE untold
  <2>1. user # None /\ user.login \notin behind' \cup {None} /\ ~ Telling(user.login) =>
           \/ None # None /\ Idle # Idle /\ Idle.stage = "push" /\ Idle.seen.login = user.login
           \/ /\ copy'[user.login] # None /\ copy'[user.login].role = user.role
              /\ user.vendor # None => copy'[user.login].vendor = user.vendor
           \/ /\ account[a] # None /\ account[a].login = user.login
              /\ account[a].role = user.role /\ account[a].vendor = user.vendor
              /\ copy'[user.login] = copy[user.login]
    BY <1>2, <1>5, <1>7
  <2>2. /\ Idle \in Request \cup {Idle} /\ Knows(Idle)
        /\ user \in User \cup {None} /\ None \in Requests \cup {None}
        /\ None # None => request[None] = Idle \/ request[None].stage # "push"
        /\ user # None => ~ Clashes(a, user)
        /\ \A t \in Logins \ behind' : (user = None \/ user.login # t) => copy'[t] = copy[t]
    BY <1>2, <1>5, <1>7, MarksAssumption DEF Knows
  <2>3. QED BY <1>4, <1>5, <1>7, <2>1, <2>2, CommitInv, Zenon
<1>8. QED BY <1>3, <1>6, <1>7

LEMMA InitAccounts == Init => AccountsInv
<1> SUFFICES ASSUME Init PROVE AccountsInv OBVIOUS
<1>1. TypeOK BY SetsAssumption DEF Init, TypeOK, Rows, Copies
<1>2. RequestsKnow BY DEF Init, RequestsKnow, Knows
<1>3. ClerkFollows BY DEF Init, ClerkFollows, Rows
<1>4. QED BY <1>1, <1>2, <1>3 DEF AccountsInv

LEMMA NextAccounts == AccountsInv /\ [Next]_vars => AccountsInv'
<1> SUFFICES ASSUME AccountsInv, [Next]_vars PROVE AccountsInv' OBVIOUS
<1>0. TypeOK BY DEF AccountsInv
<1>1. ASSUME NEW c \in Requests, NEW s \in Logins, NEW told \in {None, address[s]},
             NEW force \in BOOLEAN, Counts, SignIn(c, s, told, force)
      PROVE  AccountsInv'
  BY <1>1, SignInInv
<1>2. ASSUME NEW a \in Accounts, NEW s \in Logins \cup {None}, NEW e \in Addresses,
             NEW fails \in BOOLEAN, Counts, CreateAdmin(a, s, e, fails)
      PROVE  AccountsInv'
  BY <1>2, CreateAdminInv
<1>3. ASSUME NEW c \in Requests, UNCHANGED served,
             FetchClerkUser(c) \/ CheckUpdates(c) \/ WriteUpdates(c) \/ ApplyVendor(c)
      PROVE  AccountsInv'
  BY <1>3, FetchClerkUserInv, CheckUpdatesInv, WriteUpdatesInv, ApplyVendorInv
<1>4. ASSUME NEW c \in Requests, NEW a \in Accounts, UNCHANGED served,
             CreateSignedIn(c, a) \/ DeleteUser(c, a)
      PROVE  AccountsInv'
  BY <1>4, CreateSignedInInv, DeleteUserInv
<1>5. ASSUME NEW c \in Requests, UNCHANGED served, Finish(c) PROVE AccountsInv'
  <2>1. /\ Continue(c, Idle) /\ UNCHANGED <<copy, behind>> /\ request[c].stage # "push"
        /\ address' \in [Logins -> Addresses \cup {None}]
        /\ profile' \in [Logins -> Addresses \cup {None}] /\ served' \in 0 .. MaxServed
        /\ Idle \in Request \cup {Idle} /\ Knows(Idle)
    BY <1>0, <1>5 DEF Finish, IsSigned, Clerk, TypeOK, Knows
  <2>2. QED BY <2>1, ContinueInv, Zenon
<1>6. ASSUME NEW c \in Requests, NEW a \in Accounts, NEW e \in Addresses \cup {None},
             NEW role \in Given \cup {None}, NEW vendor \in Decisions \cup {None},
             UNCHANGED served, UpdateUser(c, a, e, role, vendor)
      PROVE  AccountsInv'
  BY <1>6, UpdateUserInv
<1>7. ASSUME NEW c \in Requests, NEW a \in Accounts, NEW s \in Logins \cup {None},
             NEW e \in Addresses, NEW role \in Given, UNCHANGED served,
             CreateUser(c, a, s, e, role)
      PROVE  AccountsInv'
  BY <1>7, CreateUserInv
<1>8. ASSUME NEW c \in Requests, NEW fails \in BOOLEAN, UNCHANGED served, Push(c, fails)
      PROVE  AccountsInv'
  BY <1>8, PushInv
<1>9. ASSUME NEW s \in Logins, UNCHANGED served, ForgetProfile(s) PROVE AccountsInv'
  BY <1>0, <1>9, OutsideInv DEF ForgetProfile, TypeOK
<1>10. ASSUME NEW s \in Logins, NEW e \in Addresses \cup {None}, UNCHANGED served,
              ChangeAddress(s, e)
       PROVE  AccountsInv'
  BY <1>0, <1>10, OutsideInv DEF ChangeAddress, TypeOK
<1>11. CASE UNCHANGED vars BY <1>0, <1>11, OutsideInv DEF vars, TypeOK
<1>12. ASSUME NEW a \in Accounts, NEW s \in Logins \cup {None}, NEW e \in Addresses,
              NEW made \in BOOLEAN, Counts, SignUpDriver(a, s, e, made)
       PROVE  AccountsInv'
  BY <1>12, SignUpDriverInv
<1>13. ASSUME NEW a \in Accounts, Counts, BecomeDriver(a) PROVE AccountsInv'
  BY <1>13, BecomeDriverInv
<1>14. ASSUME NEW c \in Requests, NEW a \in Accounts, NEW vendor \in {"pending"} \cup Decisions,
              UNCHANGED served, DecideDriver(c, a, vendor)
       PROVE  AccountsInv'
  BY <1>14, DecideDriverInv
<1>15. QED
  BY <1>1, <1>2, <1>3, <1>4, <1>5, <1>6, <1>7, <1>8, <1>9, <1>10, <1>11, <1>12, <1>13, <1>14
  DEF Next

\* The table, the requests and Clerk's copy stay as the invariant says.
THEOREM AccountsInvariant == Spec => []AccountsInv
<1>1. QED BY InitAccounts, NextAccounts, PTL DEF Spec

\* No address and no login leads to two accounts, however requests for one person race.
THEOREM AccountKeysUnique == Spec => []TypeOK
<1>1. AccountsInv => TypeOK BY DEF AccountsInv
<1>2. QED BY <1>1, AccountsInvariant, PTL

\* A login that has an account all the time a request runs is signed in to that account.
THEOREM SignedInToOwnAccount == Spec => []SignedInAsOwn
<1>1. AccountsInv => SignedInAsOwn
  BY DEF AccountsInv, RequestsKnow, Knows, SignedInAsOwn, IsSigned
<1>2. QED BY <1>1, AccountsInvariant, PTL

\* Clerk's copy of a role and a status is the table's, but for a telling that failed, was overtaken
\* or is under way, for a login that was only linked, and for what drivers' sign-ups and decisions
\* about drivers wrote without telling; a later telling that arrives ends each exception.
THEOREM ClerkCopyFollows == Spec => []ClerkFollows
<1>1. AccountsInv => ClerkFollows BY DEF AccountsInv
<1>2. QED BY <1>1, AccountsInvariant, PTL

\* A vendor status changes only in the step of an administrator's request, or of the vendor's
\* own new application.
Decided(a) ==
    \E c \in Requests : /\ IsSigned(c) /\ request'[c] # request[c]
                        /\ IsAdmin(c) \/ (request[c].row = a /\ account'[a].vendor = "pending")

\* A request that commits a row moves on, and the other rows stay.
LEMMA CommitMoves ==
    ASSUME TypeOK, NEW c, NEW a \in Accounts, NEW user, NEW w, Commit(c, a, user, w)
    PROVE  /\ account'[a] = user /\ \A b \in Accounts : b # a => account'[b] = account[b]
           /\ c \in Requests => request'[c] = w
BY DEF Commit, TypeOK

LEMMA TellMoves ==
    ASSUME AccountsInv, NEW c \in Requests, NEW a \in Accounts, NEW user \in User, IsSigned(c),
           CommitAndTell(c, a, user)
    PROVE  /\ account'[a] = user /\ \A b \in Accounts : b # a => account'[b] = account[b]
           /\ request'[c] # request[c]
<1>1. TypeOK /\ request[c] # Idle /\ request[c].stage = "signed" BY DEF AccountsInv, IsSigned
<1>2. user.login # None => Pushing(c, a, user).stage = "push" BY <1>1, PushStage
<1>3. Commit(c, a, user, IF user.login = None THEN Idle ELSE Pushing(c, a, user))
  BY DEF CommitAndTell, Pushing
<1>4. /\ account'[a] = user /\ \A b \in Accounts : b # a => account'[b] = account[b]
      /\ request'[c] = IF user.login = None THEN Idle ELSE Pushing(c, a, user)
  BY <1>1, <1>3, CommitMoves
<1>5. QED BY <1>1, <1>2, <1>4

LEMMA DecisionStep ==
    ASSUME AccountsInv, Next, NEW a \in Accounts, account[a] # None, account'[a] # None,
           account'[a].vendor # account[a].vendor
    PROVE  Decided(a)
<1>0. TypeOK /\ RequestsKnow /\ account[a] \in User BY DEF AccountsInv, TypeOK
<1>1. ASSUME NEW c \in Requests, WriteUpdates(c) PROVE FALSE
  <2> DEFINE w == request[c]
  <2>1. w.row \in Accounts /\ w.seen \in User /\ w.new \in User /\ w.new.vendor = w.seen.vendor
    BY <1>0, <1>1 DEF WriteUpdates, RequestsKnow, Knows
  <2>2. account'[a] = ChangedColumns(account[w.row], w.seen, w.new) /\ w.row = a
    BY <1>0, <1>1, <2>1, CommitMoves DEF WriteUpdates, Continue
  <2>3. QED BY <1>0, <2>1, <2>2, Columns
<1>2. ASSUME NEW c \in Requests, NEW b \in Accounts, CreateSignedIn(c, b) PROVE FALSE
  BY <1>0, <1>2, CommitMoves DEF CreateSignedIn, Continue
<1>3. ASSUME NEW c \in Requests, NEW b \in Accounts, DeleteUser(c, b) PROVE FALSE
  BY <1>0, <1>3, CommitMoves DEF DeleteUser
<1>4. ASSUME NEW c \in Requests, ApplyVendor(c) PROVE Decided(a)
  <2> DEFINE w == request[c]
             applied == [w.seen EXCEPT !.role = "VENDOR", !.vendor = "pending"]
             user == ChangedColumns(account[w.row], w.seen, applied)
  <2>1. IsSigned(c) /\ account[w.row] # None /\ CommitAndTell(c, w.row, user)
    BY <1>4 DEF ApplyVendor
  <2>2. w.row \in Accounts /\ w.seen \in User BY <2>1, SignedRow
  <2>3. account[w.row] \in User BY <1>0, <2>1, <2>2 DEF TypeOK
  <2>4. applied \in User /\ applied.vendor = "pending"
    BY <2>2 DEF User, Roles, VendorStatus
  <2> HIDE DEF applied
  <2>5. user \in User /\ user.vendor \in {account[w.row].vendor, "pending"}
    BY <2>2, <2>3, <2>4, Columns
  <2> HIDE DEF user
  <2>6. account'[w.row] = user /\ request'[c] # request[c]
        /\ \A b \in Accounts : b # w.row => account'[b] = account[b]
    BY <2>1, <2>2, <2>5, TellMoves, Zenon
  <2>7. a = w.row /\ account'[a].vendor = "pending" BY <2>5, <2>6
  <2>8. QED BY <2>1, <2>6, <2>7 DEF Decided
<1>5. ASSUME NEW c \in Requests, NEW b \in Accounts, NEW email \in Addresses \cup {None},
             NEW role \in Given \cup {None}, NEW vendor \in Decisions \cup {None},
             UpdateUser(c, b, email, role, vendor)
      PROVE  Decided(a)
  <2> DEFINE seen == IF b = request[c].row THEN request[c].seen ELSE account[b]
             user == ChangedColumns(account[b], seen, Updated(seen, email, role, vendor))
  <2>1. /\ IsSigned(c) /\ account[b] # None /\ MayUpdate(c, b, role, vendor)
        /\ CommitAndTell(c, b, user)
    BY <1>5 DEF UpdateUser
  <2>2. account[b] \in User BY <1>0, <2>1 DEF TypeOK
  <2>3. seen \in User BY <2>1, <2>2, SignedRow
  <2> HIDE DEF seen
  <2>4. /\ Updated(seen, email, role, vendor) \in User
        /\ vendor = None => Updated(seen, email, role, vendor).vendor = seen.vendor
    BY <2>3, UpdatedUser
  <2>5. user \in User /\ (vendor = None => user.vendor = account[b].vendor)
    BY <2>2, <2>3, <2>4, Columns
  <2> HIDE DEF user
  <2>6. account'[b] = user /\ request'[c] # request[c]
        /\ \A d \in Accounts : d # b => account'[d] = account[d]
    BY <2>1, <2>5, TellMoves, Zenon
  <2>7. vendor # None BY <2>5, <2>6
  <2>8. QED BY <2>1, <2>6, <2>7 DEF Decided, MayUpdate
<1>6. ASSUME NEW c \in Requests, NEW b \in Accounts, NEW s \in Logins \cup {None},
             NEW e \in Addresses, NEW role \in Given, CreateUser(c, b, s, e, role)
      PROVE  FALSE
  BY <1>0, <1>6, CommitMoves DEF CreateUser, Continue
<1>7. ASSUME NEW b \in Accounts, NEW s \in Logins \cup {None}, NEW e \in Addresses,
             NEW fails \in BOOLEAN, CreateAdmin(b, s, e, fails)
      PROVE  FALSE
  <2>1. /\ account[b] # None =>
            account'[b] = [account[b] EXCEPT !.role = "ADMIN",
                                             !.login = IF account[b].login = None THEN s ELSE @]
        /\ \A d \in Accounts : d # b => account'[d] = account[d]
    <3> DEFINE user == IF account[b] = None
                       THEN [login |-> s, email |-> e, role |-> "ADMIN", vendor |-> None]
                       ELSE [account[b] EXCEPT !.role = "ADMIN",
                                               !.login = IF account[b].login = None THEN s ELSE @]
    <3>1. Commit(None, b, user, Idle) BY <1>7 DEF CreateAdmin
    <3> HIDE DEF user
    <3>2. account'[b] = user /\ \A d \in Accounts : d # b => account'[d] = account[d]
      BY <1>0, <3>1 DEF Commit, TypeOK
    <3>3. QED BY <3>2 DEF user
  <2>2. a = b BY <2>1
  <2>3. account'[a].vendor = account[a].vendor BY <1>0, <2>1, <2>2 DEF User
  <2>4. QED BY <2>3
<1>8. ASSUME NEW b \in Accounts, NEW s \in Logins \cup {None}, NEW e \in Addresses,
             NEW made \in BOOLEAN, SignUpDriver(b, s, e, made)
      PROVE  FALSE
  <2>1. account[b] = None /\ (account' = account \/ Commit(None, b, NewUser(s, e, "DRIVER", None), Idle))
    BY <1>8 DEF SignUpDriver
  <2>2. \A d \in Accounts : d # b => account'[d] = account[d] BY <1>0, <2>1, CommitMoves
  <2>3. QED BY <2>1, <2>2
<1>9. ASSUME NEW b \in Accounts, BecomeDriver(b) PROVE FALSE
  <2>1. account[b] # None /\ Commit(None, b, [account[b] EXCEPT !.role = "DRIVER"], Idle)
    BY <1>9 DEF BecomeDriver
  <2>2. account'[b] = [account[b] EXCEPT !.role = "DRIVER"]
        /\ \A d \in Accounts : d # b => account'[d] = account[d]
    BY <1>0, <2>1, CommitMoves
  <2>3. account[b] \in User BY <1>0, <2>1 DEF TypeOK
  <2>4. account'[b].vendor = account[b].vendor BY <2>2, <2>3 DEF User
  <2>5. QED BY <2>2, <2>4
<1>10. ASSUME NEW c \in Requests, NEW b \in Accounts, NEW vendor \in {"pending"} \cup Decisions,
              DecideDriver(c, b, vendor)
       PROVE  Decided(a)
  <2>1. IsAdmin(c) /\ Commit(c, b, [account[b] EXCEPT !.vendor = vendor], Idle)
    BY <1>10 DEF DecideDriver
  <2>2. request'[c] = Idle BY <1>0, <2>1, CommitMoves
  <2>3. QED BY <2>1, <2>2 DEF Decided, IsAdmin, IsSigned
<1>11. QED
  BY <1>1, <1>2, <1>3, <1>4, <1>5, <1>6, <1>7, <1>8, <1>9, <1>10
  DEF Next, SignIn, FetchClerkUser, CheckUpdates, Finish, Push, Continue, ForgetProfile,
      ChangeAddress

\* What an administrator has decided of a vendor is changed by an administrator, or by the
\* vendor's own new application, only: no request that loaded the account before undoes it.
THEOREM DecisionsAreKept == Spec => DecisionsStand
<1>1. AccountsInv /\ [Next]_vars =>
        [\A a \in Accounts :
            account[a] # None /\ account'[a] # None /\ account'[a].vendor # account[a].vendor =>
                \E c \in Requests : /\ IsSigned(c) /\ request'[c] # request[c]
                                    /\ IsAdmin(c) \/ (request[c].row = a /\ account'[a].vendor = "pending")]_vars
  BY DecisionStep DEF Decided
<1>2. QED BY <1>1, AccountsInvariant, PTL DEF Spec, DecisionsStand

-----------------------------------------------------------------------------
(***************************************************************************)
(* Assignments: between the search for another row and the insertion       *)
(* nothing keeps the driver free but that nobody else is assigning the     *)
(* same one. As long as no two of them overlap, the one in flight is alone *)
(* and finds no row when it commits (Alone).                               *)
(***************************************************************************)

CONSTANTS Inquiries, Transfers, Drivers, Guide, AssignmentRows, Desks, Nobody
VARIABLES inquiry, driver, rows, desk, once, overlapped

A == INSTANCE Assignments
         WITH Rows <- AssignmentRows, Requests <- Desks, None <- Nobody, request <- desk

\* What the theorems take of the constants.
AssignConstants == Nobody \notin A!Row /\ Nobody \notin A!Request /\ Guide \notin Drivers

Alone ==
    \A r \in Desks, i \in Inquiries, d \in Drivers :
        A!Joins(r, i, d) /\ <<i, d>> \notin overlapped =>
            ~A!Already(i, d) /\ \A s \in Desks : A!Joins(s, i, d) => s = r

\* An assignment in flight has seen its request and its driver approved.
Vetted ==
    \A r \in Desks : desk[r] # Nobody /\ desk[r].op = "add" =>
        /\ desk[r].inquiry \in once \ Transfers
        /\ desk[r].who # Guide => desk[r].who \in once

AssignInv == A!TypeOK /\ Alone /\ Vetted /\ A!AssignedOnce /\ A!AssignedAfterApproval

-----------------------------------------------------------------------------
(* Steps of the requests' state. *)

\* Nobody joins anew and no row is assigned anew: what holds goes on holding.
LEMMA Calm ==
    ASSUME AssignConstants, AssignInv, A!TypeOK', UNCHANGED overlapped, once \subseteq once',
           \A r \in Desks : desk'[r] # Nobody /\ desk'[r].op = "add" => desk'[r] = desk[r],
           \A k \in AssignmentRows : rows'[k] # Nobody =>
               /\ rows[k] # Nobody /\ rows'[k].inquiry = rows[k].inquiry /\ rows'[k].who = rows[k].who
               /\ rows'[k].status = "assigned" => rows[k].status = "assigned"
    PROVE  AssignInv'
  <1>1. \A r \in Desks, i \in Inquiries, d \in Drivers : A!Joins(r, i, d)' => A!Joins(r, i, d)
    BY DEF A!Joins
  <1>2. \A i \in Inquiries, d \in Drivers : A!Already(i, d)' => A!Already(i, d)
    BY DEF A!Already
  <1>3. Alone'
    BY <1>1, <1>2 DEF AssignInv, Alone
  <1>4. Vetted'
    BY DEF AssignInv, Vetted
  <1>5. A!AssignedOnce'
    BY DEF AssignInv, A!AssignedOnce
  <1>6. A!AssignedAfterApproval'
    BY DEF AssignInv, A!AssignedAfterApproval
  <1> QED
    BY <1>3, <1>4, <1>5, <1>6 DEF AssignInv

LEMMA RequestType ==
    ASSUME A!TypeOK, NEW r \in Desks, NEW q \in A!Request \cup {Nobody}, A!Goes(r, q)
    PROVE  /\ desk' \in [Desks -> A!Request \cup {Nobody}]
           /\ \A s \in Desks : desk'[s] = IF s = r THEN q ELSE desk[s]
  BY DEF A!Goes, A!TypeOK

LEMMA ChangesKeep ==
    ASSUME AssignConstants, AssignInv, NEW i \in Inquiries, A!ChangeInquiry(i) \/ A!DeleteInquiry(i)
    PROVE  AssignInv'
  <1>1. \A s \in A!InquiryStatus : A!Moves(s) \subseteq A!InquiryStatus
    BY DEF A!Moves, A!InquiryStatus
  <1>2. CASE A!ChangeInquiry(i)
    <2>1. A!TypeOK' /\ once \subseteq once'
      BY <1>1, <1>2 DEF A!ChangeInquiry, AssignInv, A!TypeOK
    <2> QED
      BY <1>2, <2>1, Calm DEF A!ChangeInquiry
  <1>3. CASE A!DeleteInquiry(i)
    <2>1. \A k \in AssignmentRows : rows'[k] = IF rows[k] # Nobody /\ rows[k].inquiry = i THEN Nobody ELSE rows[k]
      BY <1>3 DEF A!DeleteInquiry
    <2>2. rows' \in [AssignmentRows -> A!Row \cup {Nobody}]
      BY <1>3 DEF A!DeleteInquiry, AssignInv, A!TypeOK
    <2>3. inquiry' \in [Inquiries -> A!InquiryStatus]
      BY <1>3 DEF A!DeleteInquiry, AssignInv, A!TypeOK, A!InquiryStatus
    <2>4. A!TypeOK'
      BY <1>3, <2>2, <2>3 DEF A!DeleteInquiry, AssignInv, A!TypeOK
    <2> QED
      BY <1>3, <2>1, <2>4, Calm DEF A!DeleteInquiry
  <1> QED
    BY <1>2, <1>3

LEMMA DecideDriverKeeps ==
    ASSUME AssignConstants, AssignInv, NEW d \in Drivers, A!DecideDriver(d)
    PROVE  AssignInv'
  <1>1. A!TypeOK' /\ once \subseteq once'
    BY DEF A!DecideDriver, AssignInv, A!TypeOK
  <1> QED
    BY <1>1, Calm DEF A!DecideDriver

LEMMA EndsKeep ==
    ASSUME AssignConstants, AssignInv, NEW r \in Desks, A!Unassign(r) \/ A!Abort(r)
    PROVE  AssignInv'
  <1>1. A!Goes(r, Nobody) /\ UNCHANGED <<inquiry, driver, once, overlapped>>
    BY DEF A!Unassign, A!Abort
  <1>2. /\ desk' \in [Desks -> A!Request \cup {Nobody}]
        /\ \A s \in Desks : desk'[s] = IF s = r THEN Nobody ELSE desk[s]
    BY <1>1, RequestType DEF AssignInv
  <1>3. CASE A!Unassign(r)
    <2> DEFINE k == desk[r].row
    <2>1. k \in AssignmentRows /\ rows[k] # Nobody /\ rows' = [rows EXCEPT ![k].status = "cancelled"]
      BY <1>3 DEF A!Unassign, AssignInv, A!TypeOK, A!Request, AssignConstants
    <2>2. rows[k] \in A!Row
      BY <2>1 DEF AssignInv, A!TypeOK
    <2> DEFINE row == [rows[k] EXCEPT !.status = "cancelled"]
    <2>3. row \in A!Row /\ row.inquiry = rows[k].inquiry /\ row.who = rows[k].who /\ row.status = "cancelled"
      BY <2>2 DEF A!Row
    <2>4. \A l \in AssignmentRows : rows'[l] = IF l = k THEN row ELSE rows[l]
      BY <2>1 DEF AssignInv, A!TypeOK
    <2>5. rows' \in [AssignmentRows -> A!Row \cup {Nobody}]
      BY <2>1, <2>3 DEF AssignInv, A!TypeOK
    <2> HIDE DEF row, k
    <2>6. A!TypeOK'
      BY <1>1, <1>2, <2>5 DEF AssignInv, A!TypeOK
    <2>7. \A l \in AssignmentRows : rows'[l] # Nobody =>
              /\ rows[l] # Nobody /\ rows'[l].inquiry = rows[l].inquiry /\ rows'[l].who = rows[l].who
              /\ rows'[l].status = "assigned" => rows[l].status = "assigned"
      BY <2>1, <2>3, <2>4
    <2> QED
      BY <1>1, <1>2, <2>6, <2>7, Calm
  <1>4. CASE A!Abort(r)
    <2>1. A!TypeOK'
      BY <1>2, <1>4 DEF A!Abort, AssignInv, A!TypeOK
    <2> QED
      BY <1>1, <1>2, <1>4, <2>1, Calm DEF A!Abort
  <1> QED
    BY <1>3, <1>4

LEMMA StartUnassignKeeps ==
    ASSUME AssignConstants, AssignInv, NEW r \in Desks, NEW k \in AssignmentRows, A!StartUnassign(r, k)
    PROVE  AssignInv'
  <1> DEFINE q == [op |-> "drop", row |-> k]
  <1>1. q \in A!Request /\ q.op = "drop"
    BY DEF A!Request
  <1>2. /\ desk' \in [Desks -> A!Request \cup {Nobody}]
        /\ \A s \in Desks : desk'[s] = IF s = r THEN q ELSE desk[s]
    BY <1>1, RequestType DEF A!StartUnassign, AssignInv
  <1>3. A!TypeOK'
    BY <1>2 DEF A!StartUnassign, AssignInv, A!TypeOK
  <1> QED
    BY <1>1, <1>2, <1>3, Calm DEF A!StartUnassign

LEMMA StartAssignKeeps ==
    ASSUME AssignConstants, AssignInv, NEW r \in Desks, NEW i \in Inquiries, NEW w \in Drivers \cup {Guide},
           A!StartAssign(r, i, w), inquiry[i] \in A!Assignable => i \in once,
           w \in Drivers /\ driver[w] = "approved" => w \in once
    PROVE  AssignInv'
  <1> DEFINE q == [op |-> "add", inquiry |-> i, who |-> w]
  <1>1. q \in A!Request /\ q # Nobody /\ q.op = "add" /\ q.inquiry = i /\ q.who = w
    BY DEF A!Request, AssignConstants
  <1>2. /\ desk' \in [Desks -> A!Request \cup {Nobody}]
        /\ \A s \in Desks : desk'[s] = IF s = r THEN q ELSE desk[s]
    BY <1>1, RequestType DEF A!StartAssign, AssignInv
  <1>3. i \in once \ Transfers /\ (w # Guide => w \in once /\ ~A!Already(i, w))
    BY DEF A!StartAssign, A!MayDrive, A!IsTransferOnly
  <1>4. /\ desk[r] = Nobody /\ UNCHANGED <<inquiry, driver, rows, once>>
        /\ overlapped' = IF \E s \in Desks : A!Joins(s, i, w) THEN overlapped \cup {<<i, w>>} ELSE overlapped
    BY DEF A!StartAssign
  <1>5. A!TypeOK'
    BY <1>2, <1>4 DEF AssignInv, A!TypeOK
  <1> HIDE DEF q
  <1>6. \A s \in Desks, j \in Inquiries, d \in Drivers :
            A!Joins(s, j, d)' <=> IF s = r THEN j = i /\ d = w ELSE A!Joins(s, j, d)
    BY <1>1, <1>2 DEF A!Joins
  <1>7. \A j \in Inquiries, d \in Drivers : A!Already(j, d)' <=> A!Already(j, d)
    BY <1>4 DEF A!Already
  <1>8. ASSUME NEW s \in Desks, NEW j \in Inquiries, NEW d \in Drivers, A!Joins(s, j, d)', <<j, d>> \notin overlapped'
        PROVE  ~A!Already(j, d)' /\ \A t \in Desks : A!Joins(t, j, d)' => t = s
    <2>1. CASE j = i /\ d = w
      <3>1. \A t \in Desks : ~A!Joins(t, i, w)
        BY <1>4, <1>8, <2>1
      <3>2. ~A!Already(i, w)
        BY <1>3, <2>1 DEF AssignConstants
      <3> QED
        BY <1>6, <1>7, <1>8, <2>1, <3>1, <3>2
    <2>2. CASE ~(j = i /\ d = w)
      <3>1. s # r /\ A!Joins(s, j, d) /\ <<j, d>> \notin overlapped
        BY <1>4, <1>6, <1>8, <2>2
      <3> QED
        BY <1>6, <1>7, <2>2, <3>1 DEF AssignInv, Alone
    <2> QED
      BY <2>1, <2>2
  <1>9. Alone'
    BY <1>8 DEF Alone
  <1>10. Vetted'
    BY <1>1, <1>2, <1>3, <1>4 DEF AssignInv, Vetted
  <1>11. overlapped \subseteq overlapped'
    BY <1>4
  <1>12. A!AssignedOnce'
    BY <1>4, <1>11 DEF AssignInv, A!AssignedOnce
  <1>13. A!AssignedAfterApproval'
    BY <1>4 DEF AssignInv, A!AssignedAfterApproval
  <1> QED
    BY <1>5, <1>9, <1>10, <1>12, <1>13 DEF AssignInv

LEMMA CreateKeeps ==
    ASSUME AssignConstants, AssignInv, NEW r \in Desks, A!CreateAssignment(r)
    PROVE  AssignInv'
  <1> DEFINE i == desk[r].inquiry
             w == desk[r].who
  <1>1. desk[r] # Nobody /\ desk[r].op = "add" /\ i \in Inquiries /\ w \in Drivers \cup {Guide}
    BY DEF A!CreateAssignment, AssignInv, A!TypeOK, A!Request, AssignConstants
  <1>2. PICK k \in AssignmentRows : rows[k] = Nobody /\ rows' = [rows EXCEPT ![k] = [inquiry |-> i, who |-> w, status |-> "assigned"]]
    BY DEF A!CreateAssignment, A!Fresh
  <1>3. A!Goes(r, Nobody) /\ UNCHANGED <<inquiry, driver, once, overlapped>>
    BY DEF A!CreateAssignment
  <1> DEFINE row == [inquiry |-> i, who |-> w, status |-> "assigned"]
  <1>4. row \in A!Row /\ row.inquiry = i /\ row.who = w /\ row.status = "assigned"
    BY <1>1 DEF A!Row
  <1>5. \A l \in AssignmentRows : rows'[l] = IF l = k THEN row ELSE rows[l]
    BY <1>2 DEF AssignInv, A!TypeOK
  <1>6. /\ desk' \in [Desks -> A!Request \cup {Nobody}]
        /\ \A s \in Desks : desk'[s] = IF s = r THEN Nobody ELSE desk[s]
    BY <1>3, RequestType DEF AssignInv
  <1>7. A!TypeOK'
    BY <1>2, <1>3, <1>4, <1>6 DEF AssignInv, A!TypeOK
  <1>8. i \in once \ Transfers /\ (w # Guide => w \in once)
    BY <1>1 DEF AssignInv, Vetted
  <1>9. \A d \in Drivers : d = w => A!Joins(r, i, d)
    BY <1>1 DEF A!Joins
  <1> HIDE DEF row, i, w
  <1>10. \A s \in Desks, j \in Inquiries, d \in Drivers : A!Joins(s, j, d)' => s # r /\ A!Joins(s, j, d)
    BY <1>6 DEF A!Joins
  <1>11. \A j \in Inquiries, d \in Drivers : A!Already(j, d)' => A!Already(j, d) \/ (j = i /\ d = w)
    BY <1>4, <1>5 DEF A!Already
  <1>12. ASSUME NEW s \in Desks, NEW j \in Inquiries, NEW d \in Drivers, A!Joins(s, j, d)', <<j, d>> \notin overlapped'
         PROVE  ~A!Already(j, d)' /\ \A t \in Desks : A!Joins(t, j, d)' => t = s
    <2>1. s # r /\ A!Joins(s, j, d) /\ <<j, d>> \notin overlapped
      BY <1>3, <1>10, <1>12
    <2>2. ~A!Already(j, d) /\ \A t \in Desks : A!Joins(t, j, d) => t = s
      BY <2>1 DEF AssignInv, Alone
    <2>3. ~(j = i /\ d = w)
      BY <1>9, <2>1, <2>2
    <2> QED
      BY <1>10, <1>11, <2>2, <2>3
  <1>13. Alone'
    BY <1>12 DEF Alone
  <1>14. Vetted'
    BY <1>3, <1>6 DEF AssignInv, Vetted
  <1>15. ASSUME NEW j \in Inquiries, NEW d \in Drivers, <<j, d>> \notin overlapped', NEW l \in AssignmentRows, NEW m \in AssignmentRows,
                rows'[l] # Nobody /\ rows'[l].inquiry = j /\ rows'[l].who = d /\ rows'[l].status = "assigned",
                rows'[m] # Nobody /\ rows'[m].inquiry = j /\ rows'[m].who = d /\ rows'[m].status = "assigned"
         PROVE  l = m
    <2>1. CASE j = i /\ d = w
      <3>1. A!Joins(r, j, d) /\ <<j, d>> \notin overlapped
        BY <1>3, <1>9, <1>15, <2>1
      <3>2. ~A!Already(j, d)
        BY <3>1 DEF AssignInv, Alone
      <3>3. \A n \in AssignmentRows : rows[n] # Nobody /\ rows[n].inquiry = j /\ rows[n].who = d => rows[n].status # "assigned"
        BY <3>2 DEF A!Already
      <3> QED
        BY <1>5, <1>15, <3>3
    <2>2. CASE ~(j = i /\ d = w)
      <3>1. l # k /\ m # k
        BY <1>4, <1>5, <1>15, <2>2
      <3> QED
        BY <1>3, <1>5, <1>15, <3>1 DEF AssignInv, A!AssignedOnce
    <2> QED
      BY <2>1, <2>2
  <1>16. A!AssignedOnce'
    BY <1>15 DEF A!AssignedOnce
  <1>17. A!AssignedAfterApproval'
    BY <1>3, <1>4, <1>5, <1>8 DEF AssignInv, A!AssignedAfterApproval
  <1> QED
    BY <1>7, <1>13, <1>14, <1>16, <1>17 DEF AssignInv

-----------------------------------------------------------------------------
(* Theorems *)

\* Whoever is approved now was approved once.
Approved ==
    /\ \A i \in Inquiries : inquiry[i] \in A!Assignable => i \in once
    /\ \A d \in Drivers : driver[d] = "approved" => d \in once

LEMMA ApprovedKept ==
    ASSUME A!TypeOK, Approved, A!Next
    PROVE  Approved'
  <1>1. ASSUME NEW i \in Inquiries, A!ChangeInquiry(i) PROVE Approved'
    BY <1>1 DEF A!ChangeInquiry, Approved, A!TypeOK
  <1>2. ASSUME NEW i \in Inquiries, A!DeleteInquiry(i) PROVE Approved'
    BY <1>2 DEF A!DeleteInquiry, Approved, A!TypeOK, A!Assignable
  <1>3. ASSUME NEW d \in Drivers, A!DecideDriver(d) PROVE Approved'
    BY <1>3 DEF A!DecideDriver, Approved, A!TypeOK
  <1>4. ASSUME NEW r \in Desks, UNCHANGED <<inquiry, driver, once>> PROVE Approved'
    BY <1>4 DEF Approved
  <1> QED
    BY <1>1, <1>2, <1>3, <1>4 DEF A!Next, A!CreateAssignment, A!Unassign, A!Abort, A!StartAssign, A!StartUnassign

\* Types, what the assignments in flight have seen, and that only approved ones are assigned hold in
\* every reachable state.
THEOREM AssignInvariant == ASSUME AssignConstants PROVE A!Spec => [](AssignInv /\ Approved)
  <1>1. A!Init => AssignInv /\ Approved
    BY DEF A!Init, AssignInv, Approved, A!TypeOK, Alone, Vetted, A!AssignedOnce, A!AssignedAfterApproval, A!Joins, A!Already,
           A!InquiryStatus, A!DriverStatus, A!Assignable
  <1>2. AssignInv /\ Approved /\ [A!Next]_A!vars => AssignInv' /\ Approved'
    <2> SUFFICES ASSUME AssignInv, Approved, [A!Next]_A!vars PROVE AssignInv' /\ Approved'
      OBVIOUS
    <2>1. CASE UNCHANGED A!vars
      BY <2>1 DEF A!vars, AssignInv, Approved, A!TypeOK, Alone, Vetted, A!AssignedOnce, A!AssignedAfterApproval, A!Joins, A!Already
    <2>2. CASE A!Next
      <3>1. Approved'
        BY <2>2, ApprovedKept DEF AssignInv
      <3>2. ASSUME NEW i \in Inquiries, A!ChangeInquiry(i) \/ A!DeleteInquiry(i) PROVE AssignInv'
        BY <3>2, ChangesKeep
      <3>3. ASSUME NEW d \in Drivers, A!DecideDriver(d) PROVE AssignInv'
        BY <3>3, DecideDriverKeeps
      <3>4. ASSUME NEW r \in Desks, A!CreateAssignment(r) PROVE AssignInv'
        BY <3>4, CreateKeeps
      <3>5. ASSUME NEW r \in Desks, A!Unassign(r) \/ A!Abort(r) PROVE AssignInv'
        BY <3>5, EndsKeep
      <3>6. ASSUME NEW r \in Desks, NEW i \in Inquiries, NEW w \in Drivers \cup {Guide}, A!StartAssign(r, i, w)
            PROVE  AssignInv'
        BY <3>6, StartAssignKeeps DEF Approved
      <3>7. ASSUME NEW r \in Desks, NEW k \in AssignmentRows, A!StartUnassign(r, k) PROVE AssignInv'
        BY <3>7, StartUnassignKeeps
      <3> QED
        BY <2>2, <3>1, <3>2, <3>3, <3>4, <3>5, <3>6, <3>7 DEF A!Next
    <2> QED
      BY <2>1, <2>2
  <1> QED
    BY <1>1, <1>2, PTL DEF A!Spec

\* Two rows of one driver and request take two assignments that overlap.
THEOREM DriversAssignedOnce == ASSUME AssignConstants PROVE A!Spec => []A!AssignedOnce
  <1>1. AssignInv => A!AssignedOnce
    BY DEF AssignInv
  <1> QED
    BY <1>1, AssignInvariant, PTL

\* No race assigns a driver who was never approved, or to a request that never was.
THEOREM OnlyVettedAssigned == ASSUME AssignConstants PROVE A!Spec => []A!AssignedAfterApproval
  <1>1. AssignInv => A!AssignedAfterApproval
    BY DEF AssignInv
  <1> QED
    BY <1>1, AssignInvariant, PTL

-----------------------------------------------------------------------------
(***************************************************************************)
(* OneTimeCodes: a check takes the newest code among those that have not   *)
(* expired, while old codes are deleted by their expiry. The two agree     *)
(* because all codes live equally long: no stored code of an address was   *)
(* made, or expires, after its last one (Ordered), and the last one is     *)
(* only deleted when it has expired, and every older one with it           *)
(* (LastKept).                                                             *)
(***************************************************************************)

CONSTANTS Emails, Codes, Texts, Mailers, Lifetime, Limit, MaxTime, MaxAttempts, NoCode
VARIABLES now, count, codeRows, mailer, issued, last, mailed, uses, overwritten

O == INSTANCE OneTimeCodes
         WITH Requests <- Mailers, None <- NoCode, rows <- codeRows, request <- mailer

\* What the theorems take of the constants.
CodeConstants == Lifetime \in Nat /\ Limit \in Nat /\ NoCode \notin O!Row /\ NoCode \notin O!Made

Ordered ==
    \A c \in Codes : O!Stored(c) =>
        LET l == last[codeRows[c].email]
        IN  /\ c \in issued /\ l # NoCode
            /\ codeRows[c].made <= l.made /\ codeRows[c].expires <= l.expires
            /\ codeRows[c].made = l.made => c = l.code

LastKept ==
    \A e \in Emails : last[e] # NoCode =>
        LET c == last[e].code
        IN  /\ c \in issued /\ last[e].made <= count /\ last[e].expires <= now + Lifetime
            /\ \/ ~O!Stored(c) /\ last[e].expires < now
               \/ O!Stored(c) /\ codeRows[c].email = e /\ codeRows[c].made = last[e].made /\ codeRows[c].expires = last[e].expires

Counted ==
    \A c \in Codes : /\ c \notin issued => uses[c] = 0
                     /\ c \notin overwritten => uses[c] <= Limit /\ (O!Stored(c) => uses[c] <= codeRows[c].attempts)

\* A check that is to pass has read less attempts than the limit.
Allowed == \A r \in Mailers : mailer[r].at = "check" /\ mailer[r].ok => mailer[r].seen < Limit

CodesInv == O!TypeOK /\ Ordered /\ LastKept /\ Counted /\ Allowed

-----------------------------------------------------------------------------
(* One request moves to q. *)

LEMMA CheckMoves ==
    ASSUME O!TypeOK, Allowed, NEW r \in Mailers, NEW q \in O!Request, O!Goes(r, q),
           q.at = "check" /\ q.ok => q.seen < Limit
    PROVE  mailer' \in [Mailers -> O!Request] /\ Allowed'
  <1>1. \A s \in Mailers : mailer'[s] = IF s = r THEN q ELSE mailer[s]
    BY DEF O!Goes, O!TypeOK
  <1> QED
    BY <1>1 DEF O!Goes, O!TypeOK, Allowed

LEMMA IdleType == O!Idle \in O!Request /\ O!Idle.at = "idle"
  BY DEF O!Idle, O!Request

LEMMA Rest ==
    ASSUME O!TypeOK, Allowed, NEW r \in Mailers, O!Goes(r, O!Idle)
    PROVE  mailer' \in [Mailers -> O!Request] /\ Allowed'
  BY IdleType, CheckMoves

\* Nothing but requests changes.
LEMMA RowsStay ==
    ASSUME Ordered, LastKept, Counted, UNCHANGED <<now, count, codeRows, issued, last, uses, overwritten>>
    PROVE  Ordered' /\ LastKept' /\ Counted'
  BY DEF Ordered, LastKept, Counted, O!Stored

\* Deleting what has expired disturbs nothing: a code that goes takes the older ones with it.
LEMMA Deletes ==
    ASSUME CodeConstants, CodesInv, NEW e \in Emails, codeRows' = O!DeleteOld(e), UNCHANGED <<now, count, O!history>>
    PROVE  codeRows' \in [Codes -> O!Row \cup {NoCode}] /\ Ordered' /\ LastKept' /\ Counted'
  <1>1. \A c \in Codes : codeRows'[c] = IF O!Stored(c) /\ codeRows[c].email = e /\ codeRows[c].expires < now THEN NoCode ELSE codeRows[c]
    BY DEF O!DeleteOld
  <1>2. codeRows' \in [Codes -> O!Row \cup {NoCode}]
    BY DEF O!DeleteOld, CodesInv, O!TypeOK
  <1>3. \A c \in Codes : codeRows'[c] # NoCode => codeRows[c] # NoCode /\ codeRows'[c] = codeRows[c]
    BY <1>1
  <1>4. Ordered'
    BY <1>3 DEF CodesInv, Ordered, O!Stored, O!history
  <1>5. Counted'
    BY <1>3 DEF CodesInv, Counted, O!Stored, O!history
  <1>6. ASSUME NEW f \in Emails, last[f] # NoCode, NEW c \in Codes, c = last[f].code
        PROVE  \/ codeRows'[c] = NoCode /\ last[f].expires < now
               \/ codeRows'[c] # NoCode /\ codeRows'[c].email = f /\ codeRows'[c].made = last[f].made /\ codeRows'[c].expires = last[f].expires
    BY <1>1, <1>6 DEF CodesInv, LastKept, O!Stored
  <1>7. \A f \in Emails : last[f] # NoCode => last[f].code \in Codes
    BY DEF CodesInv, O!TypeOK, O!Made, CodeConstants
  <1>8. LastKept'
    BY <1>6, <1>7 DEF CodesInv, LastKept, O!Stored, O!history
  <1> QED
    BY <1>2, <1>4, <1>5, <1>8

-----------------------------------------------------------------------------
(* One lemma per operation that changes more than a request. *)

LEMMA CodeTickKeeps ==
    ASSUME CodeConstants, CodesInv, O!Tick
    PROVE  CodesInv'
  <1> USE DEF CodesInv, O!Tick, O!history
  <1>1. O!TypeOK' /\ Allowed'
    BY DEF O!TypeOK, Allowed
  <1>2. Ordered' /\ Counted'
    BY DEF Ordered, Counted, O!Stored
  <1>3. \A f \in Emails : last[f] # NoCode => last[f].expires \in Nat
    BY DEF O!TypeOK, O!Made, CodeConstants
  <1>4. now \in Nat /\ Lifetime \in Nat
    BY DEF O!TypeOK, CodeConstants
  <1>5. LastKept'
    BY <1>3, <1>4 DEF LastKept, O!Stored
  <1> QED
    BY <1>1, <1>2, <1>5

LEMMA StartSendKeeps ==
    ASSUME CodeConstants, CodesInv, NEW r \in Mailers, NEW e \in Emails, O!StartSend(r, e)
    PROVE  CodesInv'
  <1> DEFINE q == [at |-> "insert", email |-> e]
  <1>1. q \in O!Request /\ q.at = "insert"
    BY DEF O!Request
  <1>2. mailer' \in [Mailers -> O!Request] /\ Allowed'
    BY <1>1, CheckMoves DEF O!StartSend, CodesInv
  <1>3. codeRows' \in [Codes -> O!Row \cup {NoCode}] /\ Ordered' /\ LastKept' /\ Counted'
    BY Deletes DEF O!StartSend
  <1>4. O!TypeOK'
    BY <1>2, <1>3 DEF O!StartSend, CodesInv, O!TypeOK, O!history
  <1> QED
    BY <1>2, <1>3, <1>4 DEF CodesInv

LEMMA FailMailKeeps ==
    ASSUME CodeConstants, CodesInv, NEW r \in Mailers, O!FailMail(r)
    PROVE  CodesInv'
  <1>1. mailer[r].email \in Emails
    BY DEF O!FailMail, CodesInv, O!TypeOK, O!Request, O!Idle
  <1>2. mailer' \in [Mailers -> O!Request] /\ Allowed'
    BY Rest DEF O!FailMail, CodesInv
  <1>3. codeRows' \in [Codes -> O!Row \cup {NoCode}] /\ Ordered' /\ LastKept' /\ Counted'
    BY <1>1, Deletes DEF O!FailMail
  <1>4. O!TypeOK'
    BY <1>2, <1>3 DEF O!FailMail, CodesInv, O!TypeOK, O!history
  <1> QED
    BY <1>2, <1>3, <1>4 DEF CodesInv

LEMMA InsertCodeKeeps ==
    ASSUME CodeConstants, CodesInv, NEW r \in Mailers, O!InsertCode(r)
    PROVE  CodesInv'
  <1> DEFINE e == mailer[r].email
  <1>1. e \in Emails
    BY DEF O!InsertCode, CodesInv, O!TypeOK, O!Request, O!Idle
  <1>2. PICK c \in Codes, t \in Texts :
            /\ O!Fresh(c)
            /\ codeRows' = [codeRows EXCEPT ![c] = [email |-> e, text |-> t, made |-> count + 1,
                                            expires |-> O!ExpiresAt(e), attempts |-> 0]]
            /\ issued' = issued \cup {c}
            /\ last' = [last EXCEPT ![e] = [code |-> c, made |-> count + 1, expires |-> O!ExpiresAt(e)]]
            /\ O!Goes(r, [at |-> "mail", email |-> e, code |-> c])
    BY DEF O!InsertCode
  <1>3. count' = count + 1 /\ UNCHANGED <<now, mailed, uses, overwritten>>
    BY DEF O!InsertCode
  <1> DEFINE row == [email |-> e, text |-> t, made |-> count + 1, expires |-> O!ExpiresAt(e), attempts |-> 0]
             new == [code |-> c, made |-> count + 1, expires |-> O!ExpiresAt(e)]
             q == [at |-> "mail", email |-> e, code |-> c]
  <1>4. count \in Nat /\ now \in Nat /\ O!ExpiresAt(e) = now + Lifetime /\ O!ExpiresAt(e) \in Nat
    BY DEF CodesInv, O!TypeOK, O!ExpiresAt, CodeConstants
  <1>5. row \in O!Row /\ new \in O!Made /\ row # NoCode /\ new # NoCode
    BY <1>1, <1>4 DEF O!Row, O!Made, CodeConstants
  <1>6. q \in O!Request /\ q.at = "mail"
    BY <1>1 DEF O!Request
  <1>7. mailer' \in [Mailers -> O!Request] /\ Allowed'
    BY <1>2, <1>6, CheckMoves DEF CodesInv
  <1>8. O!TypeOK'
    BY <1>1, <1>2, <1>3, <1>4, <1>5, <1>7 DEF CodesInv, O!TypeOK
  <1>9. \A d \in Codes : codeRows'[d] = IF d = c THEN row ELSE codeRows[d]
    BY <1>2 DEF CodesInv, O!TypeOK
  <1>10. \A f \in Emails : last'[f] = IF f = e THEN new ELSE last[f]
    BY <1>1, <1>2 DEF CodesInv, O!TypeOK
  <1>11. row.email = e /\ row.made = count + 1 /\ row.expires = O!ExpiresAt(e) /\ row.attempts = 0
         /\ new.code = c /\ new.made = count + 1 /\ new.expires = O!ExpiresAt(e)
    OBVIOUS
  <1>12. c \notin issued
    BY <1>2 DEF O!Fresh
  <1>13. \A d \in Codes : O!Stored(d) => codeRows[d] \in O!Row /\ d # c
    BY <1>12 DEF CodesInv, O!TypeOK, Ordered, O!Stored
  <1>14. \A f \in Emails : last[f] # NoCode => last[f] \in O!Made /\ last[f].made <= count
                                            /\ last[f].expires <= now + Lifetime /\ last[f].code # c
    BY <1>12 DEF CodesInv, O!TypeOK, LastKept
  <1> HIDE DEF row, new, q, e
  <1>15. ASSUME NEW d \in Codes, codeRows'[d] # NoCode
         PROVE  LET l == last'[codeRows'[d].email]
                IN  /\ d \in issued' /\ l # NoCode
                    /\ codeRows'[d].made <= l.made /\ codeRows'[d].expires <= l.expires
                    /\ codeRows'[d].made = l.made => d = l.code
    <2>1. CASE d = c
      BY <1>1, <1>2, <1>4, <1>5, <1>9, <1>10, <1>11, <2>1
    <2>2. CASE d # c
      <3>1. codeRows'[d] = codeRows[d] /\ O!Stored(d) /\ d \in issued'
        BY <1>2, <1>9, <1>15, <2>2 DEF CodesInv, Ordered, O!Stored
      <3>2. codeRows[d] \in O!Row /\ codeRows[d].email \in Emails /\ codeRows[d].made \in Nat /\ codeRows[d].expires \in Nat
        BY <1>13, <3>1 DEF O!Row
      <3>3. last[codeRows[d].email] # NoCode /\ codeRows[d].made <= last[codeRows[d].email].made
            /\ codeRows[d].expires <= last[codeRows[d].email].expires
            /\ (codeRows[d].made = last[codeRows[d].email].made => d = last[codeRows[d].email].code)
        BY <3>1 DEF CodesInv, Ordered
      <3>4. CASE codeRows[d].email = e
        <4>1. last[e] \in O!Made /\ last[e].made <= count /\ last[e].expires <= now + Lifetime
          BY <1>1, <1>14, <3>3, <3>4
        <4>2. last[e].made \in Nat /\ last[e].expires \in Nat
          BY <4>1 DEF O!Made
        <4>3. codeRows[d].made <= count /\ codeRows[d].expires <= now + Lifetime
          BY <1>4, <3>2, <3>3, <3>4, <4>1, <4>2 DEF CodeConstants
        <4>4. codeRows[d].made < count + 1
          BY <1>4, <3>2, <4>3
        <4>5. last'[codeRows'[d].email] = new
          BY <1>1, <1>10, <3>1, <3>4
        <4> QED
          BY <1>4, <1>5, <1>11, <3>1, <3>2, <4>3, <4>4, <4>5
      <3>5. CASE codeRows[d].email # e
        BY <1>10, <3>1, <3>2, <3>3, <3>5
      <3> QED
        BY <3>4, <3>5
    <2> QED
      BY <2>1, <2>2
  <1>16. Ordered'
    BY <1>15 DEF Ordered, O!Stored
  <1>17. ASSUME NEW f \in Emails, last'[f] # NoCode
         PROVE  LET d == last'[f].code
                IN  /\ d \in issued' /\ last'[f].made <= count' /\ last'[f].expires <= now' + Lifetime
                    /\ \/ codeRows'[d] = NoCode /\ last'[f].expires < now'
                       \/ codeRows'[d] # NoCode /\ codeRows'[d].email = f /\ codeRows'[d].made = last'[f].made
                                          /\ codeRows'[d].expires = last'[f].expires
    <2>1. CASE f = e
      BY <1>2, <1>3, <1>4, <1>5, <1>9, <1>10, <1>11, <2>1
    <2>2. CASE f # e
      <3>1. last'[f] = last[f]
        BY <1>10, <2>2
      <3>2. last[f] \in O!Made /\ last[f].made <= count /\ last[f].code # c
        BY <1>14, <1>17, <3>1
      <3>3. last[f].made \in Nat /\ last[f].code \in Codes
        BY <3>2 DEF O!Made
      <3>4. codeRows'[last[f].code] = codeRows[last[f].code]
        BY <1>9, <3>2, <3>3
      <3>5. last[f].made <= count'
        BY <1>3, <1>4, <3>2, <3>3
      <3> QED
        BY <1>2, <1>3, <1>17, <3>1, <3>4, <3>5 DEF CodesInv, LastKept, O!Stored
    <2> QED
      BY <2>1, <2>2
  <1>18. LastKept'
    BY <1>17 DEF LastKept, O!Stored
  <1>19. uses[c] = 0 /\ 0 <= Limit
    BY <1>12 DEF CodesInv, Counted, CodeConstants
  <1>20. Counted'
    BY <1>2, <1>3, <1>9, <1>11, <1>19 DEF CodesInv, Counted, O!Stored
  <1> QED
    BY <1>7, <1>8, <1>16, <1>18, <1>20 DEF CodesInv

LEMMA CountAttemptKeeps ==
    ASSUME CodeConstants, CodesInv, NEW r \in Mailers, O!CountAttempt(r)
    PROVE  CodesInv'
  <1> DEFINE q == mailer[r]
             c == q.code
  <1>1. q.at = "check" /\ c \in Codes /\ q.seen \in Nat /\ q.ok \in BOOLEAN
    BY DEF O!CountAttempt, CodesInv, O!TypeOK, O!Request, O!Idle
  <1>2. /\ O!Stored(c) /\ codeRows' = [codeRows EXCEPT ![c].attempts = q.seen + 1]
        /\ uses' = [uses EXCEPT ![c] = IF q.ok THEN @ + 1 ELSE @]
        /\ overwritten' = IF codeRows[c].attempts = q.seen THEN overwritten ELSE overwritten \cup {c}
        /\ O!Goes(r, O!Idle) /\ UNCHANGED <<now, count, issued, last, mailed>>
    BY DEF O!CountAttempt
  <1>3. mailer' \in [Mailers -> O!Request] /\ Allowed'
    BY <1>2, Rest DEF CodesInv
  <1>4. codeRows[c] \in O!Row
    BY <1>1, <1>2 DEF CodesInv, O!TypeOK, O!Stored
  <1> DEFINE row == [codeRows[c] EXCEPT !.attempts = q.seen + 1]
  <1>5. /\ row \in O!Row /\ row # NoCode /\ row.email = codeRows[c].email /\ row.made = codeRows[c].made
        /\ row.expires = codeRows[c].expires /\ row.attempts = q.seen + 1
    BY <1>1, <1>4 DEF O!Row, CodeConstants
  <1>6. \A d \in Codes : codeRows'[d] = IF d = c THEN row ELSE codeRows[d]
    BY <1>1, <1>2 DEF CodesInv, O!TypeOK
  <1>7. codeRows' \in [Codes -> O!Row \cup {NoCode}]
    BY <1>1, <1>2, <1>5 DEF CodesInv, O!TypeOK
  <1>8. uses[c] \in Nat /\ codeRows[c].attempts \in Nat
    BY <1>1, <1>4 DEF CodesInv, O!TypeOK, O!Row
  <1>9. uses' \in [Codes -> Nat] /\ \A d \in Codes : uses'[d] = IF d = c /\ q.ok THEN uses[d] + 1 ELSE uses[d]
    BY <1>1, <1>2, <1>8 DEF CodesInv, O!TypeOK
  <1>10. O!TypeOK'
    BY <1>1, <1>2, <1>3, <1>7, <1>9 DEF CodesInv, O!TypeOK
  <1>11. c \in issued
    BY <1>1, <1>2 DEF CodesInv, Ordered
  <1>12. q.ok => q.seen < Limit
    BY <1>1 DEF CodesInv, Allowed
  <1> HIDE DEF row, q, c
  <1>13. Ordered'
    BY <1>2, <1>5, <1>6 DEF CodesInv, Ordered, O!Stored
  <1>14. LastKept'
    <2>1. \A f \in Emails : last[f] # NoCode => last[f].code \in Codes
      BY DEF CodesInv, O!TypeOK, O!Made
    <2> QED
      BY <1>2, <1>5, <1>6, <2>1 DEF CodesInv, LastKept, O!Stored
  <1>15. ASSUME NEW d \in Codes, d \notin overwritten'
         PROVE  uses'[d] <= Limit /\ (codeRows'[d] # NoCode => uses'[d] <= codeRows'[d].attempts)
    <2>1. CASE d = c
      <3>1. codeRows[c].attempts = q.seen /\ c \notin overwritten
        BY <1>2, <1>15, <2>1
      <3>2. uses[c] <= Limit /\ uses[c] <= q.seen
        BY <1>1, <1>2, <3>1 DEF CodesInv, Counted
      <3>3. CASE q.ok
        <4>1. uses'[c] = uses[c] + 1 /\ codeRows'[c].attempts = q.seen + 1
          BY <1>1, <1>5, <1>6, <1>9, <3>3
        <4>2. q.seen < Limit /\ Limit \in Nat
          BY <1>12, <3>3 DEF CodeConstants
        <4> QED
          BY <1>1, <1>8, <2>1, <3>2, <4>1, <4>2
      <3>4. CASE ~q.ok
        <4>1. uses'[c] = uses[c] /\ codeRows'[c].attempts = q.seen + 1
          BY <1>1, <1>5, <1>6, <1>9, <3>4
        <4> QED
          BY <1>1, <1>8, <2>1, <3>2, <4>1
      <3> QED
        BY <3>3, <3>4
    <2>2. CASE d # c
      BY <1>2, <1>6, <1>9, <1>15, <2>2 DEF CodesInv, Counted, O!Stored
    <2> QED
      BY <2>1, <2>2
  <1>16. Counted'
    BY <1>2, <1>9, <1>11, <1>15 DEF CodesInv, Counted, O!Stored
  <1> QED
    BY <1>3, <1>10, <1>13, <1>14, <1>16 DEF CodesInv

LEMMA ReadCodeKeeps ==
    ASSUME CodeConstants, CodesInv, NEW r \in Mailers, NEW e \in Emails, NEW t \in Texts, O!ReadCode(r, e, t)
    PROVE  CodesInv'
  <1>1. PICK c \in Codes :
            O!IsLatest(c, e) /\ O!Goes(r, [at |-> "check", code |-> c, seen |-> codeRows[c].attempts, ok |-> O!IsValid(c, t)])
    BY DEF O!ReadCode
  <1> DEFINE q == [at |-> "check", code |-> c, seen |-> codeRows[c].attempts, ok |-> O!IsValid(c, t)]
  <1>2. codeRows[c] \in O!Row
    BY <1>1 DEF O!IsLatest, O!Live, O!Stored, CodesInv, O!TypeOK
  <1>3. codeRows[c].attempts \in Nat /\ O!IsValid(c, t) \in BOOLEAN
    BY <1>2 DEF O!Row, O!IsValid
  <1>4. q \in O!Request /\ q.at = "check" /\ q.seen = codeRows[c].attempts /\ q.ok = O!IsValid(c, t)
    BY <1>3 DEF O!Request
  <1>5. q.ok => q.seen < Limit
    BY <1>4 DEF O!IsValid
  <1> HIDE DEF q
  <1>6. mailer' \in [Mailers -> O!Request] /\ Allowed'
    BY <1>1, <1>4, <1>5, CheckMoves DEF CodesInv, q
  <1>7. Ordered' /\ LastKept' /\ Counted'
    BY RowsStay DEF O!ReadCode, CodesInv, O!history
  <1> QED
    BY <1>6, <1>7 DEF O!ReadCode, CodesInv, O!TypeOK, O!history

LEMMA CheckEndKeeps ==
    ASSUME CodeConstants, CodesInv, NEW r \in Mailers, O!MailCode(r) \/ O!Abort(r)
    PROVE  CodesInv'
  <1>1. mailer' \in [Mailers -> O!Request] /\ Allowed'
    BY Rest DEF O!MailCode, O!Abort, CodesInv
  <1>2. Ordered' /\ LastKept' /\ Counted'
    BY RowsStay DEF O!MailCode, O!Abort, CodesInv, O!history
  <1>3. mailed' \subseteq Codes
    BY DEF O!MailCode, O!Abort, CodesInv, O!TypeOK, O!Request, O!Idle, O!history
  <1> QED
    BY <1>1, <1>2, <1>3 DEF O!MailCode, O!Abort, CodesInv, O!TypeOK, O!history

-----------------------------------------------------------------------------
(* Theorems *)

\* The invariant holds in every reachable state.
THEOREM CodesInvariant == ASSUME CodeConstants PROVE O!Spec => []CodesInv
  <1>1. O!Init => CodesInv
    <2> SUFFICES ASSUME O!Init PROVE CodesInv
      OBVIOUS
    <2>1. O!TypeOK
      BY DEF O!Init, O!TypeOK, O!Request
    <2>2. Allowed
      BY DEF O!Init, Allowed, O!Idle
    <2>3. Ordered /\ LastKept /\ Counted
      BY DEF O!Init, Ordered, LastKept, Counted, O!Stored, CodeConstants
    <2> QED
      BY <2>1, <2>2, <2>3 DEF CodesInv
  <1>2. CodesInv /\ [O!Next]_O!vars => CodesInv'
    <2> SUFFICES ASSUME CodesInv, [O!Next]_O!vars PROVE CodesInv'
      OBVIOUS
    <2>1. CASE UNCHANGED O!vars
      BY <2>1 DEF O!vars, CodesInv, O!TypeOK, Ordered, LastKept, Counted, Allowed, O!Stored
    <2>2. CASE O!Next
      <3>1. CASE O!Tick
        BY <3>1, CodeTickKeeps
      <3>2. ASSUME NEW r \in Mailers, O!InsertCode(r) PROVE CodesInv'
        BY <3>2, InsertCodeKeeps
      <3>3. ASSUME NEW r \in Mailers, O!MailCode(r) \/ O!Abort(r) PROVE CodesInv'
        BY <3>3, CheckEndKeeps
      <3>4. ASSUME NEW r \in Mailers, O!FailMail(r) PROVE CodesInv'
        BY <3>4, FailMailKeeps
      <3>5. ASSUME NEW r \in Mailers, O!CountAttempt(r) PROVE CodesInv'
        BY <3>5, CountAttemptKeeps
      <3>6. ASSUME NEW r \in Mailers, NEW e \in Emails, O!StartSend(r, e) PROVE CodesInv'
        BY <3>6, StartSendKeeps
      <3>7. ASSUME NEW r \in Mailers, NEW e \in Emails, NEW t \in Texts, O!ReadCode(r, e, t) PROVE CodesInv'
        BY <3>7, ReadCodeKeeps
      <3> QED
        BY <2>2, <3>1, <3>2, <3>3, <3>4, <3>5, <3>6, <3>7 DEF O!Next
    <2> QED
      BY <2>1, <2>2
  <1> QED
    BY <1>1, <1>2, PTL DEF O!Spec

\* A check looks at the last code that was made for its address, or at none: deleting by expiry
\* and reading by age never let an older code come back.
THEOREM LastCodeOnly == ASSUME CodeConstants PROVE O!Spec => []O!OnlyTheLastCode
  <1>1. CodesInv => O!OnlyTheLastCode
    <2> SUFFICES ASSUME CodesInv, NEW e \in Emails, NEW c \in Codes, O!IsLatest(c, e)
                 PROVE  last[e] # NoCode /\ c = last[e].code
      BY DEF O!OnlyTheLastCode
    <2>1. O!Stored(c) /\ codeRows[c].email = e /\ codeRows[c].expires > now /\ codeRows[c] \in O!Row
      BY DEF O!IsLatest, O!Live, O!Stored, CodesInv, O!TypeOK
    <2>2. last[e] # NoCode /\ codeRows[c].made <= last[e].made /\ codeRows[c].expires <= last[e].expires
          /\ (codeRows[c].made = last[e].made => c = last[e].code)
      BY <2>1 DEF CodesInv, Ordered
    <2>3. last[e] \in O!Made /\ now \in Nat
      BY <2>2 DEF CodesInv, O!TypeOK
    <2> DEFINE d == last[e].code
    <2>4. d \in Codes /\ last[e].made \in Nat /\ last[e].expires \in Nat
      BY <2>3 DEF O!Made
    <2>5. codeRows[c].made \in Nat /\ codeRows[c].expires \in Nat
      BY <2>1 DEF O!Row
    <2>6. last[e].expires > now
      BY <2>1, <2>2, <2>3, <2>4, <2>5
    <2>7. O!Stored(d) /\ codeRows[d].email = e /\ codeRows[d].made = last[e].made /\ codeRows[d].expires = last[e].expires
      BY <2>2, <2>3, <2>4, <2>6 DEF CodesInv, LastKept
    <2>8. O!Live(d, e)
      BY <2>6, <2>7 DEF O!Live
    <2>9. codeRows[d].made <= codeRows[c].made
      BY <2>4, <2>8 DEF O!IsLatest
    <2>10. codeRows[c].made = last[e].made
      BY <2>2, <2>4, <2>5, <2>7, <2>9
    <2> QED
      BY <2>2, <2>10
  <1> QED
    BY <1>1, CodesInvariant, PTL

\* A code passes Limit checks at most, as long as no two checks of it overlap.
THEOREM CodesWearOut == ASSUME CodeConstants PROVE O!Spec => []O!LimitedUse
  <1>1. CodesInv => O!LimitedUse
    BY DEF CodesInv, Counted, O!LimitedUse
  <1> QED
    BY <1>1, CodesInvariant, PTL

-----------------------------------------------------------------------------
(***************************************************************************)
(* RateLimit: the bucket need not be sorted, but an event comes at most    *)
(* Delay before one that precedes it, and what has left the bucket is out  *)
(* of every window from now on (LimiterInv).                               *)
(***************************************************************************)

CONSTANTS Threads, Calls, Window, Delay, MaxCalls
VARIABLES log, head, clock

R == INSTANCE RateLimit WITH Limit <- Calls, MaxEvents <- MaxCalls

\* What draining the bucket by a clock c gives.
LEMMA Drains ==
    ASSUME R!LimiterConstants, R!LimiterInv, NEW t \in Threads, clock[t] # -1,
           NEW h \in head..(Len(log) + 1), R!Drained(h, clock[t])
    PROVE  \A i \in 1..(h - 1) : log[i] < now - Window
  <1>1. clock[t] \in Nat /\ now \in Nat /\ clock[t] <= now
    BY DEF R!LimiterInv, R!TypeOK
  <1>2. head \in Nat /\ Len(log) \in Nat /\ \A i \in 1..Len(log) : log[i] \in Nat
    BY DEF R!LimiterInv, R!TypeOK
  <1>3. ASSUME NEW i \in 1..(h - 1)
        PROVE  log[i] < now - Window
    <2>1. CASE i < head
      BY <1>2, <2>1 DEF R!LimiterInv
    <2>2. CASE i >= head
      <3>1. i \in head..(h - 1) /\ i \in 1..Len(log)
        BY <1>2, <2>2
      <3>2. log[i] < clock[t] - Window
        BY <3>1 DEF R!Drained, R!Expired
      <3> QED
        BY <1>1, <1>2, <3>1, <3>2 DEF R!LimiterConstants
    <2> QED
      BY <1>2, <2>1, <2>2
  <1> QED
    BY <1>3

LEMMA ClockType ==
    ASSUME R!LimiterInv, NEW t \in Threads, NEW c \in Nat \cup {-1}, clock' = [clock EXCEPT ![t] = c], UNCHANGED now,
           c # -1 => c <= now /\ c >= now - Delay
    PROVE  /\ clock' \in [Threads -> Nat \cup {-1}]
           /\ \A s \in Threads : clock'[s] # -1 => clock'[s] <= now' /\ clock'[s] >= now' - Delay
  <1>1. \A s \in Threads : clock'[s] = IF s = t THEN c ELSE clock[s]
    BY DEF R!LimiterInv, R!TypeOK
  <1> QED
    BY <1>1 DEF R!LimiterInv, R!TypeOK

LEMMA LetThroughKeeps ==
    ASSUME R!LimiterConstants, R!LimiterInv, NEW t \in Threads, R!LetThrough(t)
    PROVE  R!LimiterInv'
  <1>1. PICK h \in head..(Len(log) + 1) : R!Drained(h, clock[t]) /\ R!HasRoom(h) /\ head' = h
    BY DEF R!LetThrough
  <1> DEFINE c == clock[t]
             n == Len(log)
  <1>2. c # -1 /\ log' = Append(log, c) /\ clock' = [clock EXCEPT ![t] = -1] /\ now' = now
    BY DEF R!LetThrough
  <1>3. c \in Nat /\ c <= now /\ c >= now - Delay /\ now \in Nat
    BY <1>2 DEF R!LimiterInv, R!TypeOK
  <1>4. n \in Nat /\ log \in Seq(Nat) /\ \A i \in 1..n : log[i] \in Nat /\ log[i] <= now
    BY DEF R!LimiterInv, R!TypeOK
  <1>5. Len(log') = n + 1 /\ log' \in Seq(Nat) /\ log'[n + 1] = c /\ \A i \in 1..n : log'[i] = log[i]
    BY <1>2, <1>3, <1>4
  <1>6. \A i \in 1..(h - 1) : log[i] < now - Window
    BY <1>1, <1>2, Drains
  <1>7. head \in Nat /\ head >= 1 /\ h \in 1..(n + 1)
    BY <1>1, <1>4 DEF R!LimiterInv, R!TypeOK
  <1>8. n - h + 1 < Calls
    BY <1>1 DEF R!HasRoom
  <1> HIDE DEF c, n
  <1>9. R!TypeOK'
    <2>1. -1 \in Nat \cup {-1} /\ clock' \in [Threads -> Nat \cup {-1}]
      BY <1>2, ClockType
    <2> QED
      BY <1>1, <1>2, <1>3, <1>4, <1>5, <1>7, <2>1 DEF R!TypeOK
  <1>10. \A s \in Threads : clock'[s] # -1 => clock'[s] <= now' /\ clock'[s] >= now' - Delay
    BY <1>2, ClockType
  <1>11. \A i \in 1..Len(log') : log'[i] <= now'
    BY <1>2, <1>3, <1>4, <1>5
  <1>12. ASSUME NEW i \in 1..Len(log'), NEW j \in 1..Len(log'), i < j
         PROVE  log'[j] >= log'[i] - Delay
    <2>1. i \in 1..n /\ log'[i] = log[i] /\ log[i] \in Nat /\ log[i] <= now
      BY <1>4, <1>5, <1>12
    <2>2. CASE j = n + 1
      BY <1>3, <1>5, <2>1, <2>2 DEF R!LimiterConstants
    <2>3. CASE j # n + 1
      <3>1. j \in 1..n /\ log'[j] = log[j]
        BY <1>4, <1>5, <2>3
      <3> QED
        BY <1>12, <2>1, <3>1 DEF R!LimiterInv, n
    <2> QED
      BY <2>2, <2>3
  <1>13. \A i \in 1..(head' - 1) : log'[i] < now' - Window
    BY <1>1, <1>2, <1>4, <1>5, <1>6, <1>7
  <1>14. ASSUME NEW i \in 1..Len(log'), i + Calls <= Len(log')
         PROVE  log'[i + Calls] - log'[i] > Window - Delay
    <2>1. Calls \in Nat /\ Window \in Nat /\ Delay \in Nat
      BY DEF R!LimiterConstants
    <2>2. CASE i + Calls = n + 1
      <3>1. i \in 1..(h - 1) /\ i \in 1..n
        BY <1>4, <1>7, <1>8, <2>1, <2>2
      <3>2. log'[i] = log[i] /\ log[i] \in Nat /\ log[i] < now - Window /\ log'[i + Calls] = c
        BY <1>4, <1>5, <1>6, <2>2, <3>1
      <3> QED
        BY <1>3, <2>1, <3>2
    <2>3. CASE i + Calls # n + 1
      <3>1. i \in 1..n /\ i + Calls \in 1..n /\ i + Calls <= n
        BY <1>4, <1>5, <1>14, <2>1, <2>3
      <3> QED
        BY <1>5, <3>1 DEF R!LimiterInv, R!SpacedOut, n
    <2> QED
      BY <2>2, <2>3
  <1> QED
    BY <1>9, <1>10, <1>11, <1>12, <1>13, <1>14 DEF R!LimiterInv, R!SpacedOut

LEMMA RefuseKeeps ==
    ASSUME R!LimiterConstants, R!LimiterInv, NEW t \in Threads, R!Refuse(t)
    PROVE  R!LimiterInv'
  <1>1. PICK h \in head..(Len(log) + 1) : R!Drained(h, clock[t]) /\ head' = h
    BY DEF R!Refuse
  <1>2. clock[t] # -1 /\ log' = log /\ clock' = [clock EXCEPT ![t] = -1] /\ now' = now
    BY DEF R!Refuse
  <1>3. \A i \in 1..(h - 1) : log[i] < now - Window
    BY <1>1, <1>2, Drains
  <1>4. /\ clock' \in [Threads -> Nat \cup {-1}]
        /\ \A s \in Threads : clock'[s] # -1 => clock'[s] <= now' /\ clock'[s] >= now' - Delay
    BY <1>2, ClockType
  <1>5. h \in 1..(Len(log) + 1)
    BY <1>1 DEF R!LimiterInv, R!TypeOK
  <1> QED
    BY <1>1, <1>2, <1>3, <1>4, <1>5 DEF R!LimiterInv, R!TypeOK, R!SpacedOut

LEMMA LimiterTickKeeps ==
    ASSUME R!LimiterConstants, R!LimiterInv, R!Tick
    PROVE  R!LimiterInv'
  <1>1. now \in Nat /\ now' = now + 1 /\ UNCHANGED <<log, head, clock>>
    BY DEF R!Tick, R!LimiterInv, R!TypeOK
  <1>2. R!TypeOK' /\ R!SpacedOut'
    BY <1>1 DEF R!LimiterInv, R!TypeOK, R!SpacedOut
  <1>3. \A t \in Threads : clock[t] # -1 => clock[t] \in Nat /\ clock[t] <= now' /\ clock[t] >= now' - Delay
    BY <1>1 DEF R!Tick, R!LimiterInv, R!TypeOK, R!LimiterConstants
  <1>4. \A i \in 1..Len(log) : log[i] \in Nat /\ log[i] <= now
    BY DEF R!LimiterInv, R!TypeOK
  <1>5. head \in Nat /\ head - 1 <= Len(log) /\ Len(log) \in Nat
    BY DEF R!LimiterInv, R!TypeOK
  <1>6. \A i \in 1..(head - 1) : log[i] \in Nat /\ log[i] < now' - Window
    BY <1>1, <1>4, <1>5 DEF R!LimiterInv, R!LimiterConstants
  <1>7. \A i \in 1..Len(log) : log[i] <= now'
    BY <1>1, <1>4
  <1> QED
    BY <1>1, <1>2, <1>3, <1>6, <1>7 DEF R!LimiterInv

\* In every reachable state, for any threads, limit, window and delay.
THEOREM LimiterInvariant == ASSUME R!LimiterConstants PROVE R!Spec => []R!LimiterInv
  <1>1. R!Init => R!LimiterInv
    BY DEF R!Init, R!LimiterInv, R!TypeOK, R!SpacedOut, R!LimiterConstants
  <1>2. R!LimiterInv /\ [R!Next]_R!vars => R!LimiterInv'
    <2> SUFFICES ASSUME R!LimiterInv, [R!Next]_R!vars PROVE R!LimiterInv'
      OBVIOUS
    <2>1. CASE UNCHANGED R!vars
      BY <2>1 DEF R!vars, R!LimiterInv, R!TypeOK, R!SpacedOut
    <2>2. CASE R!Tick
      BY <2>2, LimiterTickKeeps
    <2>3. ASSUME NEW t \in Threads, R!ReadClock(t) PROVE R!LimiterInv'
      <3>1. now \in Nat /\ now >= now - Delay /\ now <= now
        BY DEF R!LimiterInv, R!TypeOK, R!LimiterConstants
      <3>2. /\ clock' \in [Threads -> Nat \cup {-1}]
            /\ \A s \in Threads : clock'[s] # -1 => clock'[s] <= now' /\ clock'[s] >= now' - Delay
        BY <2>3, <3>1, ClockType DEF R!ReadClock
      <3> QED
        BY <2>3, <3>2 DEF R!ReadClock, R!LimiterInv, R!TypeOK, R!SpacedOut
    <2>4. ASSUME NEW t \in Threads, R!LetThrough(t) PROVE R!LimiterInv'
      BY <2>4, LetThroughKeeps
    <2>5. ASSUME NEW t \in Threads, R!Refuse(t) PROVE R!LimiterInv'
      BY <2>5, RefuseKeeps
    <2> QED
      BY <2>1, <2>2, <2>3, <2>4, <2>5 DEF R!Next
  <1> QED
    BY <1>1, <1>2, PTL DEF R!Spec

\* No more events pass than the limit allows, but for the threads' delay.
THEOREM LimitKept == ASSUME R!LimiterConstants PROVE R!Spec => []R!SpacedOut
  <1>1. R!LimiterInv => R!SpacedOut
    BY DEF R!LimiterInv
  <1> QED
    BY <1>1, LimiterInvariant, PTL

\* Nobody is refused for events that are out of the window, but for the threads' delay.
THEOREM RefusalsHaveReasons == ASSUME R!LimiterConstants PROVE R!Spec => R!RefusalsAreJustified
  <1>1. ASSUME R!LimiterInv, NEW t \in Threads, R!Refuse(t)
        PROVE  \E h \in 1..(Len(log) + 1) :
                   Len(log) - h + 1 >= Calls /\ \A i \in h..Len(log) : log[i] >= clock[t] - Window - Delay
    <2>1. PICK h \in head..(Len(log) + 1) : R!Drained(h, clock[t]) /\ ~R!HasRoom(h)
      BY <1>1 DEF R!Refuse
    <2>2. clock[t] \in Nat /\ \A i \in 1..Len(log) : log[i] \in Nat
      BY <1>1 DEF R!Refuse, R!LimiterInv, R!TypeOK
    <2>3. h \in 1..(Len(log) + 1) /\ Len(log) \in Nat /\ head \in Nat
      BY <1>1, <2>1 DEF R!LimiterInv, R!TypeOK
    <2>4. Len(log) - h + 1 >= Calls
      BY <2>1, <2>3 DEF R!HasRoom, R!LimiterConstants
    <2>5. ASSUME NEW i \in h..Len(log)
          PROVE  log[i] >= clock[t] - Window - Delay
      <3>1. h \in 1..Len(log) /\ i \in 1..Len(log) /\ h <= Len(log)
        BY <2>3
      <3>2. log[h] >= clock[t] - Window
        BY <2>1, <2>2, <3>1 DEF R!Drained, R!Expired, R!LimiterConstants
      <3>3. log[i] >= log[h] - Delay
        BY <1>1, <2>2, <3>1 DEF R!LimiterInv, R!LimiterConstants
      <3> QED
        BY <2>2, <3>1, <3>2, <3>3 DEF R!LimiterConstants
    <2> QED
      BY <2>3, <2>4, <2>5
  <1>2. R!LimiterInv /\ [R!Next]_R!vars =>
            [\A t \in Threads :
                 R!Refuse(t) => \E h \in 1..(Len(log) + 1) :
                                  /\ Len(log) - h + 1 >= Calls
                                  /\ \A i \in h..Len(log) : log[i] >= clock[t] - Window - Delay]_R!vars
    BY <1>1
  <1> QED
    BY <1>2, LimiterInvariant, PTL DEF R!Spec, R!RefusalsAreJustified

-----------------------------------------------------------------------------
(***************************************************************************)
(* SessionTokens: the keys of the cache were right when Clerk gave them,   *)
(* and may be older than the time they are stamped with by the delay of    *)
(* the thread that stored them and that of the one that dates them         *)
(* (CacheInv).                                                             *)
(***************************************************************************)

CONSTANTS Kids, TTL, Leeway
VARIABLES published, since, cached, cache, cachedAt, pc, began, got

S == INSTANCE SessionTokens

\* What a step says of the threads that it does not move.
Others(t) == \A u \in Threads \ {t} : pc'[u] = pc[u] /\ began'[u] = began[u] /\ got'[u] = got[u]

LEMMA GoesTo ==
    ASSUME S!TypeOK, NEW t \in Threads, NEW where, NEW time, S!Goes(t, where, time)
    PROVE  /\ pc'[t] = where /\ began'[t] = time
           /\ \A u \in Threads \ {t} : pc'[u] = pc[u] /\ began'[u] = began[u]
  BY DEF S!Goes, S!TypeOK

\* A step of a thread that leaves the keys and their time alone keeps the invariant, once it does
\* for that thread.
LEMMA ThreadMoves ==
    ASSUME S!SessionConstants, S!SessionInv, S!TypeOK', NEW t \in Threads, Others(t),
           UNCHANGED <<now, published, since, cached, cache, cachedAt>>,
           began'[t] <= now,
           pc'[t] \in {"storing", "dating", "verifying"} => began'[t] >= now - Delay,
           S!ThreadInv(t)'
    PROVE  S!SessionInv'
  <1>1. S!StampsInv'
    BY DEF S!SessionInv, S!StampsInv, Others
  <1>2. S!CacheInv'
    BY DEF S!SessionInv, S!CacheInv, S!Fits
  <1>3. ASSUME NEW u \in Threads PROVE S!ThreadInv(u)'
    <2>1. CASE u = t
      BY <2>1
    <2>2. CASE u # t
      <3>1. pc'[u] = pc[u] /\ began'[u] = began[u] /\ got'[u] = got[u] /\ S!ThreadInv(u)
        BY <2>2 DEF Others, S!SessionInv
      <3>2. S!Fits(got[u]) => S!Fits(got[u])'
        BY <3>1 DEF S!Fits
      <3> QED
        BY <3>1, <3>2 DEF S!ThreadInv
    <2> QED
      BY <2>1, <2>2
  <1> QED
    BY <1>1, <1>2, <1>3 DEF S!SessionInv

LEMMA SessionTickKeeps == ASSUME S!SessionConstants, S!SessionInv, S!Tick PROVE S!SessionInv'
  <1>1. now \in Nat /\ now' = now + 1 /\ UNCHANGED <<published, since, cached, cache, cachedAt, pc, began, got>>
    BY DEF S!Tick, S!SessionInv, S!TypeOK
  <1>2. S!TypeOK'
    BY <1>1 DEF S!SessionInv, S!TypeOK
  <1>3. S!StampsInv'
    <2>1. cachedAt \in Nat /\ (\A k \in Kids : since[k] \in Nat) /\ \A t \in Threads : began[t] \in Nat
      BY DEF S!SessionInv, S!TypeOK
    <2>2. ASSUME NEW t \in Threads, pc[t] \in {"storing", "dating", "verifying"}
          PROVE  began[t] >= now' - Delay
      BY <1>1, <2>1, <2>2 DEF S!Tick, S!SessionConstants
    <2> QED
      BY <1>1, <2>1, <2>2 DEF S!SessionInv, S!StampsInv
  <1>4. S!CacheInv'
    <2>1. cachedAt \in Nat /\ cache.asOf \in Nat
      BY DEF S!SessionInv, S!TypeOK, S!Answer
    <2>2. cached => cache.asOf <= now'
      BY <1>1, <2>1 DEF S!SessionInv, S!CacheInv
    <2> QED
      BY <1>1, <2>2 DEF S!SessionInv, S!CacheInv, S!Fits
  <1>5. \A t \in Threads : S!ThreadInv(t)'
    BY <1>1 DEF S!SessionInv, S!ThreadInv, S!Fits
  <1> QED
    BY <1>2, <1>3, <1>4, <1>5 DEF S!SessionInv

\* A key that changes now has changed since every answer.
LEMMA RotateKeeps == ASSUME S!SessionConstants, S!SessionInv, NEW k \in Kids, S!Rotate(k) PROVE S!SessionInv'
  <1>1. now \in Nat /\ UNCHANGED <<now, cached, cache, cachedAt, pc, began, got>>
    BY DEF S!Rotate, S!SessionInv, S!TypeOK
  <1>2. /\ since' \in [Kids -> Nat] /\ since'[k] = now
        /\ \A j \in Kids \ {k} : since'[j] = since[j] /\ (j \in published' <=> j \in published)
    BY <1>1 DEF S!Rotate, S!SessionInv, S!TypeOK
  <1>3. S!TypeOK'
    BY <1>1, <1>2 DEF S!Rotate, S!SessionInv, S!TypeOK
  <1>4. S!StampsInv'
    BY <1>1, <1>2 DEF S!SessionInv, S!StampsInv
  <1>5. ASSUME NEW a, a.asOf <= now, S!Fits(a)
        PROVE  \A j \in Kids : (j \in a.keys <=> j \in published') \/ since'[j] >= a.asOf
    <2> SUFFICES ASSUME NEW j \in Kids PROVE (j \in a.keys <=> j \in published') \/ since'[j] >= a.asOf
      OBVIOUS
    <2>1. CASE j = k
      BY <1>1, <1>2, <1>5, <2>1
    <2>2. CASE j # k
      BY <1>2, <1>5, <2>2 DEF S!Fits
    <2> QED
      BY <2>1, <2>2
  <1>6. S!CacheInv'
    BY <1>1, <1>5 DEF S!SessionInv, S!CacheInv, S!Fits
  <1>7. ASSUME NEW t \in Threads PROVE S!ThreadInv(t)'
    <2>1. pc[t] = "storing" => S!Fits(got[t])'
      <3>1. pc[t] = "storing" => S!Fits(got[t]) /\ got[t].asOf <= now
        BY DEF S!SessionInv, S!ThreadInv, S!StampsInv
      <3> QED
        BY <1>1, <1>5, <3>1 DEF S!Fits
    <2> QED
      BY <1>1, <2>1 DEF S!SessionInv, S!ThreadInv
  <1> QED
    BY <1>3, <1>4, <1>6, <1>7 DEF S!SessionInv

\* The steps of a thread that touch none of the globals.
LEMMA HitKeeps == ASSUME S!SessionConstants, S!SessionInv, NEW t \in Threads, S!Hit(t) PROVE S!SessionInv'
  <1>1. now \in Nat /\ cachedAt \in Nat /\ cache.asOf \in Nat
    BY DEF S!SessionInv, S!TypeOK, S!Answer
  <1>2. UNCHANGED <<now, published, since, cached, cache, cachedAt, got>> /\ S!Goes(t, "verifying", now)
    BY DEF S!Hit
  <1>3. pc'[t] = "verifying" /\ began'[t] = now /\ Others(t)
    BY <1>2, GoesTo DEF S!SessionInv, Others
  <1>4. S!TypeOK'
    BY <1>1, <1>2 DEF S!Goes, S!SessionInv, S!TypeOK
  <1>5. cached /\ cache.asOf >= cachedAt - 2 * Delay /\ now - cachedAt < TTL
    BY DEF S!Hit, S!InTime, S!SessionInv, S!CacheInv
  <1>6. cache.asOf > now - TTL - 2 * Delay
    BY <1>1, <1>5 DEF S!SessionConstants
  <1>7. S!ThreadInv(t)'
    BY <1>2, <1>3, <1>5, <1>6 DEF S!ThreadInv
  <1>8. now <= now /\ now >= now - Delay
    BY <1>1 DEF S!SessionConstants
  <1> QED
    BY <1>2, <1>3, <1>4, <1>7, <1>8, ThreadMoves

LEMMA RestKeeps ==
    ASSUME S!SessionConstants, S!SessionInv, NEW t \in Threads, NEW where \in {"idle", "asking"}, S!Goes(t, where, 0),
           UNCHANGED <<now, published, since, cached, cache, cachedAt, got>>
    PROVE  S!SessionInv'
  <1>1. pc'[t] = where /\ began'[t] = 0 /\ Others(t)
    BY GoesTo DEF S!SessionInv, Others
  <1>2. S!TypeOK' /\ 0 <= now
    BY DEF S!Goes, S!SessionInv, S!TypeOK
  <1>3. S!ThreadInv(t)'
    BY <1>1 DEF S!ThreadInv
  <1> QED
    BY <1>1, <1>2, <1>3, ThreadMoves

LEMMA ClerkAnswersKeeps == ASSUME S!SessionConstants, S!SessionInv, NEW t \in Threads, S!ClerkAnswers(t) PROVE S!SessionInv'
  <1> DEFINE a == [keys |-> published, asOf |-> now]
  <1>1. now \in Nat /\ a \in S!Answer /\ a.keys = published /\ a.asOf = now
    BY DEF S!SessionInv, S!TypeOK, S!Answer
  <1>2. UNCHANGED <<now, published, since, cached, cache, cachedAt>> /\ got' = [got EXCEPT ![t] = a]
    BY DEF S!ClerkAnswers
  <1>3. /\ pc'[t] = "storing" /\ began'[t] = now
        /\ \A u \in Threads \ {t} : pc'[u] = pc[u] /\ began'[u] = began[u]
    BY GoesTo DEF S!ClerkAnswers, S!SessionInv
  <1> HIDE DEF a
  <1>4. got'[t] = a /\ Others(t) /\ got' \in [Threads -> S!Answer]
    BY <1>1, <1>2, <1>3 DEF S!SessionInv, S!TypeOK, Others
  <1>5. S!TypeOK'
    BY <1>1, <1>2, <1>4 DEF S!ClerkAnswers, S!Goes, S!SessionInv, S!TypeOK
  <1>6. S!ThreadInv(t)'
    BY <1>1, <1>2, <1>3, <1>4 DEF S!ThreadInv, S!Fits
  <1>7. now <= now /\ now >= now - Delay
    BY <1>1 DEF S!SessionConstants
  <1> QED
    BY <1>2, <1>3, <1>4, <1>5, <1>6, <1>7, ThreadMoves

\* Whatever the other threads go by, the keys that are stored now are at most one delay old.
LEMMA StoreKeysKeeps == ASSUME S!SessionConstants, S!SessionInv, NEW t \in Threads, S!StoreKeys(t) PROVE S!SessionInv'
  <1>1. /\ pc[t] = "storing" /\ cached' = TRUE /\ cache' = got[t] /\ pc' = [pc EXCEPT ![t] = "dating"]
        /\ got' = [got EXCEPT ![t] = S!Nothing]
        /\ UNCHANGED <<now, published, since, cachedAt, began>>
    BY DEF S!StoreKeys
  <1>2. /\ now \in Nat /\ cachedAt \in Nat /\ began \in [Threads -> Nat] /\ got[t] \in S!Answer
        /\ got[t].asOf \in Nat
    BY DEF S!SessionInv, S!TypeOK, S!Answer
  <1>3. S!Nothing \in S!Answer
    BY DEF S!Nothing, S!Answer
  <1>4. S!TypeOK'
    BY <1>1, <1>2, <1>3 DEF S!SessionInv, S!TypeOK
  <1>5. /\ pc'[t] = "dating" /\ \A u \in Threads \ {t} : pc'[u] = pc[u]
        /\ \A u \in Threads \ {t} : got'[u] = got[u]
    BY <1>1 DEF S!SessionInv, S!TypeOK
  <1>6. S!StampsInv'
    BY <1>1, <1>5 DEF S!SessionInv, S!StampsInv
  <1>7. S!Fits(got[t]) /\ got[t].asOf = began[t] /\ began[t] <= now /\ began[t] >= now - Delay
    BY <1>1 DEF S!SessionInv, S!StampsInv, S!ThreadInv
  <1>8. cache'.asOf = began[t] /\ cache'.asOf >= now - Delay
    BY <1>1, <1>7
  <1>9. S!CacheInv'
    <2>1. S!Fits(cache)'
      BY <1>1, <1>7 DEF S!Fits
    <2> QED
      BY <1>1, <1>2, <1>7, <1>8, <2>1 DEF S!SessionInv, S!CacheInv, S!StampsInv, S!SessionConstants
  <1>10. ASSUME NEW u \in Threads PROVE S!ThreadInv(u)'
    <2>1. began[u] \in Nat /\ began[u] <= now /\ began'[u] = began[u]
      BY <1>1, <1>2 DEF S!SessionInv, S!StampsInv
    <2>2. cache'.asOf >= began[u] - Delay /\ cache'.asOf > began[u] - TTL - 2 * Delay
      <3>1. PICK new \in Nat : new = cache'.asOf /\ new >= now - Delay BY <1>2, <1>8
      <3>2. PICK at \in Nat : at = began[u] /\ at <= now BY <2>1
      <3>3. new >= at - Delay /\ new > at - TTL - 2 * Delay BY <1>2, <3>1, <3>2 DEF S!SessionConstants
      <3>4. QED BY <3>1, <3>2, <3>3
    <2>3. CASE u = t
      BY <1>1, <1>5, <2>1, <2>2, <2>3 DEF S!ThreadInv
    <2>4. CASE u # t
      BY <1>1, <1>5, <2>1, <2>2, <2>4 DEF S!SessionInv, S!ThreadInv, S!Fits
    <2> QED
      BY <2>3, <2>4
  <1> QED
    BY <1>4, <1>6, <1>9, <1>10 DEF S!SessionInv

\* The keys may be another thread's by now, which makes them one delay older at most.
LEMMA StoreTimeKeeps == ASSUME S!SessionConstants, S!SessionInv, NEW t \in Threads, S!StoreTime(t) PROVE S!SessionInv'
  <1>1. /\ pc[t] = "dating" /\ cachedAt' = now /\ S!Goes(t, "verifying", now)
        /\ UNCHANGED <<now, published, since, cached, cache, got>>
    BY DEF S!StoreTime
  <1>2. now \in Nat /\ cache.asOf \in Nat /\ began[t] \in Nat
    BY DEF S!SessionInv, S!TypeOK, S!Answer
  <1>3. /\ pc'[t] = "verifying" /\ began'[t] = now
        /\ \A u \in Threads \ {t} : pc'[u] = pc[u] /\ began'[u] = began[u]
    BY <1>1, GoesTo DEF S!SessionInv
  <1>4. S!TypeOK'
    BY <1>1, <1>2 DEF S!Goes, S!SessionInv, S!TypeOK
  <1>5. S!StampsInv'
    BY <1>1, <1>2, <1>3 DEF S!SessionInv, S!StampsInv, S!SessionConstants
  <1>6. cached /\ cache.asOf >= began[t] - Delay /\ began[t] >= now - Delay
    BY <1>1 DEF S!SessionInv, S!ThreadInv, S!StampsInv
  <1>7. cache.asOf >= now - 2 * Delay /\ cache.asOf > now - TTL - 2 * Delay
    BY <1>2, <1>6 DEF S!SessionConstants
  <1>8. S!CacheInv'
    BY <1>1, <1>2, <1>6, <1>7 DEF S!SessionInv, S!CacheInv, S!Fits
  <1>9. ASSUME NEW u \in Threads PROVE S!ThreadInv(u)'
    <2>1. CASE u = t
      BY <1>1, <1>3, <1>6, <1>7, <2>1 DEF S!ThreadInv
    <2>2. CASE u # t
      BY <1>1, <1>3, <2>2 DEF S!SessionInv, S!ThreadInv, S!Fits
    <2> QED
      BY <2>1, <2>2
  <1> QED
    BY <1>4, <1>5, <1>8, <1>9 DEF S!SessionInv

\* In every reachable state, for any threads, keys and delays.
THEOREM SessionInvariant == ASSUME S!SessionConstants PROVE S!Spec => []S!SessionInv
  <1>1. S!Init => S!SessionInv
    <2> SUFFICES ASSUME S!Init PROVE S!SessionInv
      OBVIOUS
    <2>1. S!TypeOK
      BY DEF S!Init, S!Nothing, S!TypeOK, S!Answer
    <2>2. S!StampsInv /\ S!CacheInv /\ \A t \in Threads : S!ThreadInv(t)
      BY DEF S!Init, S!StampsInv, S!CacheInv, S!ThreadInv
    <2> QED
      BY <2>1, <2>2 DEF S!SessionInv
  <1>2. S!SessionInv /\ [S!Next]_S!vars => S!SessionInv'
    <2> SUFFICES ASSUME S!SessionInv, [S!Next]_S!vars PROVE S!SessionInv'
      OBVIOUS
    <2>1. CASE UNCHANGED S!vars
      BY <2>1 DEF S!vars, S!SessionInv, S!TypeOK, S!StampsInv, S!CacheInv, S!ThreadInv, S!Fits
    <2>2. CASE S!Tick
      BY <2>2, SessionTickKeeps
    <2>3. ASSUME NEW k \in Kids, S!Rotate(k) PROVE S!SessionInv'
      BY <2>3, RotateKeeps
    <2>4. ASSUME NEW t \in Threads, S!Hit(t) PROVE S!SessionInv'
      BY <2>4, HitKeeps
    <2>5. ASSUME NEW t \in Threads, S!Ask(t) PROVE S!SessionInv'
      BY <2>5, RestKeeps DEF S!Ask
    <2>6. ASSUME NEW t \in Threads, S!AskInVain(t) PROVE S!SessionInv'
      BY <2>6, RestKeeps DEF S!AskInVain
    <2>7. ASSUME NEW t \in Threads, S!ClerkAnswers(t) PROVE S!SessionInv'
      BY <2>7, ClerkAnswersKeeps
    <2>8. ASSUME NEW t \in Threads, S!StoreKeys(t) PROVE S!SessionInv'
      BY <2>8, StoreKeysKeeps
    <2>9. ASSUME NEW t \in Threads, S!StoreTime(t) PROVE S!SessionInv'
      BY <2>9, StoreTimeKeeps
    <2>10. ASSUME NEW t \in Threads, S!Done(t) PROVE S!SessionInv'
      BY <2>10, RestKeeps DEF S!Done
    <2> QED
      BY <2>1, <2>2, <2>3, <2>4, <2>5, <2>6, <2>7, <2>8, <2>9, <2>10
         DEF S!Next, S!LetIn, S!RefuseExpired, S!RefuseUnknown
  <1> QED
    BY <1>1, <1>2, PTL DEF S!Spec

\* The keys a token is judged by are never older than the time they are kept and three delays,
\* although two threads may each write half of them.
THEOREM TokensJudgedByRecentKeys == ASSUME S!SessionConstants PROVE S!Spec => S!KeysAreRecent
  <1>1. ASSUME S!SessionInv, NEW t \in Threads, NEW k \in Kids, S!Done(t)
        PROVE  (k \in cache.keys <=> k \in published) \/ since[k] > now - S!Age
    <2>1. now \in Nat /\ cache.asOf \in Nat /\ began[t] \in Nat /\ since[k] \in Nat
      BY <1>1 DEF S!SessionInv, S!TypeOK, S!Answer
    <2>2. /\ cached /\ cache.asOf > began[t] - TTL - 2 * Delay /\ began[t] >= now - Delay
      BY <1>1 DEF S!Done, S!SessionInv, S!ThreadInv, S!StampsInv
    <2>3. (k \in cache.keys <=> k \in published) \/ since[k] >= cache.asOf
      BY <1>1, <2>2 DEF S!SessionInv, S!CacheInv, S!Fits
    <2> QED
      BY <2>1, <2>2, <2>3 DEF S!Age, S!SessionConstants
  <1>2. S!SessionInv /\ [S!Next]_S!vars =>
            [\A t \in Threads, k \in Kids :
                 /\ (\E exp \in S!Expiries : S!LetIn(t, k, exp)) => k \in published \/ since[k] > now - S!Age
                 /\ S!RefuseUnknown(t, k) => k \notin published \/ since[k] > now - S!Age]_S!vars
    BY <1>1 DEF S!LetIn, S!RefuseUnknown
  <1> QED
    BY <1>2, SessionInvariant, PTL DEF S!Spec, S!KeysAreRecent
=============================================================================

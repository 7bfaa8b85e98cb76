-------------------------------- MODULE Accounts --------------------------------
(***************************************************************************)
(* The users table and the logins of Clerk that lead to its rows: how a    *)
(* verified token is resolved to an account (app/api/deps.py), how people  *)
(* apply as vendors and administrators create, change and delete accounts  *)
(* (app/api/v1/users.py, app/repositories/user_repo.py, create_admin.py),  *)
(* what drivers' files do to accounts (app/services/driver_service.py,     *)
(* app/repositories/driver_repository.py), and the copy of roles that      *)
(* Clerk is told (app/core/auth/clerk.py).  Which account has a driver's   *)
(* file is left open: any may.                                             *)
(*                                                                         *)
(* Tokens are verified before anything here begins.  is_active is left     *)
(* out, for no request is refused for it, and so are names, countries and  *)
(* the business profile.                                                   *)
(***************************************************************************)
EXTENDS Naturals, FiniteSets, TLC

CONSTANTS
    Accounts,   \* rows that may exist, by their ids
    Logins,     \* users that Clerk may have, by the subjects of their tokens
    Addresses,  \* e-mail addresses
    Given,      \* the roles administrators give
    Decisions,  \* the vendor statuses administrators give
    Requests,   \* requests that may run at the same time
    None,       \* no account, login, address or status
    Idle,       \* nothing runs
    MaxServed   \* bound on the requests that are served

ASSUME SetsAssumption ==
    /\ Given \subseteq {"TOURIST", "VENDOR", "DRIVER", "ADMIN"}
    /\ None \notin Accounts \cup Logins \cup Addresses \cup Decisions \cup Requests
    /\ MaxServed \in Nat

VARIABLES
    account,    \* the users table
    address,    \* the primary address of each of Clerk's users
    profile,    \* _clerk_profile_cache: the addresses of profiles fetched before
    copy,       \* role and vendor status in Clerk's public metadata
    request,
    behind,     \* history: logins whose copy need not match, until they are told again
    served      \* history: how many requests have begun

vars == <<account, address, profile, copy, request, behind, served>>

Roles == {"TOURIST", "VENDOR", "DRIVER", "ADMIN"}
VendorStatus == {None, "pending"} \cup Decisions
User == [login: Logins \cup {None}, email: Addresses, role: Roles, vendor: VendorStatus]

Told(user) == [role |-> user.role, vendor |-> user.vendor]
Copies == [role: Roles, vendor: VendorStatus] \cup {None}

\* row: the account a request has found; seen: the row as it has loaded it; new: the row it will
\* write; own: history, the account its login had all the time
Request == [stage: {"fetch", "check", "write", "create", "signed", "push"}, login: Logins,
            email: Addresses \cup {None}, row: Accounts \cup {None}, seen: User \cup {None},
            new: User \cup {None}, own: Accounts \cup {None}]

ASSUME MarksAssumption ==
    /\ None \notin User
    /\ None \notin [role: Roles, vendor: VendorStatus]
    /\ Idle \notin Request

Init ==
    /\ account = [a \in Accounts |-> None]
    /\ address = [s \in Logins |-> None]
    /\ profile = [s \in Logins |-> None]
    /\ copy = [s \in Logins |-> None]
    /\ request = [c \in Requests |-> Idle]
    /\ behind = {}
    /\ served = 0

-----------------------------------------------------------------------------
(* The table *)

Rows == {a \in Accounts : account[a] # None}
RowsWithLogin(s) == {a \in Rows : account[a].login = s}
RowsWithEmail(e) == {a \in Rows : account[a].email = e}

RowsWithId(s) == Rows \cap {s}

RowOf(set) == IF set = {} THEN None ELSE CHOOSE a \in set : TRUE

\* The unique keys of the table refuse the row.
Clashes(a, user) ==
    \E b \in Rows \ {a} : account[b].email = user.email \/ (user.login # None /\ account[b].login = user.login)

\* Faulty: every column is written as it was loaded.
AllColumns(now, seen, new) == new

\* Only the columns that differ from what was loaded are written.
ChangedColumns(now, seen, new) ==
    [col \in DOMAIN now |-> IF new[col] = seen[col] THEN now[col] ELSE new[col]]

\* Request c commits the row and goes on with w; the others' logins may lose their account.
Commit(c, a, user, w) ==
    LET table == [account EXCEPT ![a] = user]
        Keeps(x) == request[x].own = None
                    \/ (table[request[x].own] # None /\ table[request[x].own].login = request[x].login)
    IN  /\ account' = table
        /\ request' = [x \in Requests |-> IF x = c THEN w
                                         ELSE IF request[x] = Idle THEN Idle
                                         ELSE IF Keeps(x) THEN request[x]
                                         ELSE [request[x] EXCEPT !.own = None]]

Continue(c, w) == request' = [request EXCEPT ![c] = w] /\ UNCHANGED account

Clerk == <<address, profile, copy, behind>>

-----------------------------------------------------------------------------
(* Signing in: _resolve_local_user *)

\* Faulty: the address is tried before the login.
FindByEmailFirst(s, e) ==
    IF e # None /\ RowsWithEmail(e) # {} THEN RowOf(RowsWithEmail(e)) ELSE RowOf(RowsWithLogin(s))

FindLocalUser(s, e) ==
    IF RowsWithLogin(s) # {} THEN RowOf(RowsWithLogin(s))
    ELSE IF e # None /\ RowsWithEmail(e) # {} THEN RowOf(RowsWithEmail(e))
    ELSE RowOf(RowsWithId(s))

RowSeen(a) == IF a = None THEN None ELSE account[a]

\* The row is loaded as it stands: its columns, and those the token or the profile changes.
Found(w, a, e) == [w EXCEPT !.stage = "check", !.email = e, !.row = a, !.seen = account[a]]

\* get_current_user, and with force get_current_user_with_sync: the token may name an address.
SignIn(c, s, told, force) ==
    LET a == FindLocalUser(s, told)
        w == [stage |-> "fetch", login |-> s, email |-> told, row |-> a, seen |-> RowSeen(a),
              new |-> None, own |-> RowOf(RowsWithLogin(s))]
    IN  /\ request[c] = Idle
        /\ Continue(c, IF a # None /\ ~force THEN Found(w, a, told) ELSE w)
        /\ UNCHANGED Clerk

\* _fetch_clerk_user: the profile as it was cached or as Clerk has it, or an error
FetchClerkUser(c) ==
    /\ request[c] # Idle
    /\ request[c].stage = "fetch"
    /\ LET w == request[c]
           cached == profile[w.login] # None
           got == IF cached THEN profile[w.login] ELSE address[w.login]
       IN  \E answer \in {got} \cup (IF cached THEN {} ELSE {None}) :
             LET e == IF answer # None THEN answer ELSE w.email
                 a == IF w.row # None \/ answer = None THEN w.row ELSE FindLocalUser(w.login, e)
             IN  /\ profile' = [profile EXCEPT ![w.login] = IF answer = None THEN @ ELSE answer]
                 /\ Continue(c, IF w.row # None THEN [w EXCEPT !.stage = "check", !.email = e]
                                ELSE IF a # None THEN Found(w, a, e)
                                ELSE IF e # None THEN [w EXCEPT !.stage = "create", !.email = e]
                                ELSE Idle)
                 /\ UNCHANGED <<address, copy, behind>>

ForgetProfile(s) ==
    /\ profile[s] # None
    /\ profile' = [profile EXCEPT ![s] = None]
    /\ UNCHANGED <<account, address, copy, request, behind>>

SignedIn(w, a, user) == [w EXCEPT !.stage = "signed", !.row = a, !.seen = user, !.new = None, !.email = None]

\* _apply_user_updates: the address of another row is left to it.
CheckUpdates(c) ==
    /\ request[c] # Idle
    /\ request[c].stage = "check"
    /\ LET w == request[c]
           e == IF w.email = None \/ RowsWithEmail(w.email) \ {w.row} # {} THEN w.seen.email ELSE w.email
           new == [w.seen EXCEPT !.login = w.login, !.email = e]
       IN  Continue(c, IF new = w.seen THEN SignedIn(w, w.row, w.seen)
                       ELSE [w EXCEPT !.stage = "write", !.new = new])
    /\ UNCHANGED Clerk

\* A row that is gone fails the request; one that clashes by now is rolled back and taken as it is.
WriteUpdates(c) ==
    /\ request[c] # Idle
    /\ request[c].stage = "write"
    /\ LET w == request[c]
           now == account[w.row]
           user == ChangedColumns(now, w.seen, w.new)
       IN  IF now = None THEN Continue(c, Idle) /\ UNCHANGED Clerk
           ELSE IF Clashes(w.row, user) THEN Continue(c, SignedIn(w, w.row, now)) /\ UNCHANGED Clerk
           ELSE /\ Commit(c, w.row, user, SignedIn(w, w.row, user))
                /\ behind' = IF now.login = w.login THEN behind ELSE behind \cup {w.login}
                /\ UNCHANGED <<address, profile, copy>>

\* Nobody was found: an account is made.  Of two requests that both make one, one fails.
CreateSignedIn(c, a) ==
    /\ request[c] # Idle
    /\ request[c].stage = "create"
    /\ LET w == request[c]
           user == [login |-> w.login, email |-> w.email, role |-> "TOURIST", vendor |-> None]
       IN  IF Clashes(a, user) THEN Continue(c, Idle) /\ UNCHANGED Clerk
           ELSE /\ account[a] = None
                /\ Commit(c, a, user, SignedIn(w, a, user))
                /\ behind' = behind \cup {w.login}
                /\ UNCHANGED <<address, profile, copy>>

-----------------------------------------------------------------------------
(* What a signed-in request does *)

IsSigned(c) == request[c] # Idle /\ request[c].stage = "signed"
IsAdmin(c) == IsSigned(c) /\ request[c].seen.role = "ADMIN"

\* It reads, is refused, or fails.
Finish(c) ==
    /\ IsSigned(c)
    /\ Continue(c, Idle)
    /\ UNCHANGED Clerk

\* Faulty: Clerk is not told.
CommitOnly(c, a, user) == Commit(c, a, user, Idle) /\ UNCHANGED Clerk

\* The row is committed, and what it then is will be told to Clerk.
CommitAndTell(c, a, user) ==
    LET w == request[c]
    IN  /\ Commit(c, a, user, IF user.login = None THEN Idle
                              ELSE [w EXCEPT !.stage = "push", !.row = a, !.seen = user, !.own = None])
        /\ UNCHANGED Clerk

ApplyVendor(c) ==
    /\ IsSigned(c)
    /\ LET w == request[c]
           applied == [w.seen EXCEPT !.role = "VENDOR", !.vendor = "pending"]
       IN  /\ account[w.row] # None
           /\ CommitAndTell(c, w.row, ChangedColumns(account[w.row], w.seen, applied))

\* Faulty: anybody may change the role and the status of the own account.
AnyMayUpdate(c, a, role, vendor) == IsAdmin(c) \/ a = request[c].row

\* Others than administrators may change their own account, and neither role nor status.
MayUpdate(c, a, role, vendor) == IsAdmin(c) \/ (a = request[c].row /\ role = None /\ vendor = None)

\* None stands for a field that is not given.
Updated(seen, email, role, vendor) ==
    [seen EXCEPT !.email = IF email = None THEN @ ELSE email,
                 !.role = IF role = None THEN @ ELSE role,
                 !.vendor = IF vendor = None THEN @ ELSE vendor]

UpdateUser(c, a, email, role, vendor) ==
    /\ IsSigned(c)
    /\ account[a] # None
    /\ MayUpdate(c, a, role, vendor)
    /\ LET seen == IF a = request[c].row THEN request[c].seen ELSE account[a]
           user == ChangedColumns(account[a], seen, Updated(seen, email, role, vendor))
       IN  ~Clashes(a, user) /\ CommitAndTell(c, a, user)

\* PATCHed into Clerk's metadata, where a status that is not given stays
Merged(s, user) ==
    [role |-> user.role,
     vendor |-> IF user.vendor # None \/ copy[s] = None THEN user.vendor ELSE copy[s].vendor]

\* create_clerk_user makes a user, or finds the one with the address and tells Clerk its new role,
\* whether the row can be inserted then or not; or it fails, and the row has no login.
CreateClerkUser(s, user) ==
    /\ s # None => address[s] = user.email \/ (address[s] = None /\ \A t \in Logins : address[t] # user.email)
    /\ address' = IF s = None THEN address ELSE [address EXCEPT ![s] = user.email]
    /\ copy' = IF s = None THEN copy ELSE [copy EXCEPT ![s] = Merged(s, user)]
    /\ UNCHANGED profile

\* The row that is inserted has the login that Clerk gave, or none.
NewUser(s, email, role, vendor) == [login |-> s, email |-> email, role |-> role, vendor |-> vendor]

CreateUser(c, a, s, email, role) ==
    LET user == NewUser(s, email, role, IF role \in {"VENDOR", "DRIVER"} THEN "pending" ELSE None)
    IN  /\ IsAdmin(c)
        /\ RowsWithEmail(email) = {}
        /\ role # "ADMIN"
        /\ account[a] = None
        /\ CreateClerkUser(s, user)
        /\ IF Clashes(a, user)
             THEN Continue(c, Idle) /\ behind' = behind \cup {s}
             ELSE /\ Commit(c, a, user, IF s = None THEN Idle
                                        ELSE [request[c] EXCEPT !.stage = "push", !.row = a, !.seen = user, !.own = None])
                  /\ UNCHANGED behind

\* The logins, if it has one, of an account whose role or status is written and Clerk not told
Untold(a, user) ==
    IF account[a] # None /\ Told(account[a]) = Told(user) THEN {} ELSE {user.login} \ {None}

\* update_driver_status: an administrator decides on the driver, which his account mirrors.
DecideDriver(c, a, vendor) ==
    /\ IsAdmin(c)
    /\ account[a] # None
    /\ LET user == [account[a] EXCEPT !.vendor = vendor]
       IN  /\ Commit(c, a, user, Idle)
           /\ behind' = behind \cup Untold(a, user)
    /\ UNCHANGED <<address, profile, copy>>

DeleteUser(c, a) ==
    /\ IsAdmin(c)
    /\ account[a] # None
    /\ Commit(c, a, None, Idle)
    /\ UNCHANGED Clerk

\* sync_user_metadata_to_clerk, after the commit; a failure is logged and not repeated.
Push(c, fails) ==
    /\ request[c] # Idle
    /\ request[c].stage = "push"
    /\ LET w == request[c]
           s == w.seen.login
           overtaken == \E b \in RowsWithLogin(s) : Told(account[b]) # Told(w.seen)
       IN  /\ copy' = IF fails THEN copy ELSE [copy EXCEPT ![s] = Merged(s, w.seen)]
           /\ behind' = IF fails \/ overtaken THEN behind \cup {s} ELSE behind \ {s}
    /\ Continue(c, Idle)
    /\ UNCHANGED <<address, profile>>

-----------------------------------------------------------------------------
(* The operator's script, and Clerk's own changes *)

\* create_admin.py: a row with the address is promoted, or made; it is linked to a login only when
\* it has none.  The script tells Clerk the role at once.
CreateAdmin(a, s, email, fails) ==
    LET old == account[a]
        user == IF old = None THEN [login |-> s, email |-> email, role |-> "ADMIN", vendor |-> None]
                ELSE [old EXCEPT !.role = "ADMIN", !.login = IF old.login = None THEN s ELSE @]
        linked == old = None \/ old.login # user.login
    IN  /\ IF old = None THEN RowsWithEmail(email) = {} ELSE old.email = email
        /\ s # None => address[s] = email
        /\ old # None /\ s # None /\ old.login # None => old.login = s
        /\ ~Clashes(a, user)
        /\ Commit(None, a, user, Idle)
        /\ IF user.login = None THEN UNCHANGED <<copy, behind>>
           ELSE /\ copy' = IF fails THEN copy
                           ELSE [copy EXCEPT ![user.login] = Merged(user.login, [user EXCEPT !.vendor = None])]
                /\ behind' = IF fails \/ (linked /\ user.vendor # None) THEN behind \cup {user.login} ELSE behind
        /\ UNCHANGED <<address, profile>>

\* signup_driver, for which nobody is signed in: whoever has the address already becomes a driver.
BecomeDriver(a) ==
    /\ account[a] # None
    /\ LET user == [account[a] EXCEPT !.role = "DRIVER"]
       IN  /\ Commit(None, a, user, Idle)
           /\ behind' = behind \cup Untold(a, user)
    /\ UNCHANGED <<address, profile, copy>>

\* Otherwise the account is made, with the login that the form names or with one that is made for it
\* and told of it at once, though with another status; the form may still be refused after that.
SignUpDriver(a, s, email, made) ==
    LET user == NewUser(s, email, "DRIVER", None)
        untold == behind \cup ({s} \ {None})
    IN  /\ RowsWithEmail(email) = {}
        /\ account[a] = None
        /\ IF made THEN CreateClerkUser(s, [user EXCEPT !.vendor = "pending"])
           ELSE UNCHANGED <<address, profile, copy>>
        /\ \/ made /\ behind' = untold /\ UNCHANGED <<account, request>>
           \/ /\ ~Clashes(a, user)
              /\ Commit(None, a, user, Idle)
              /\ behind' = IF made THEN behind ELSE untold

\* A person signs up with Clerk, changes the address there, or leaves.
ChangeAddress(s, e) ==
    /\ address[s] # e
    /\ e # None => \A t \in Logins : address[t] # e
    /\ address' = [address EXCEPT ![s] = e]
    /\ UNCHANGED <<account, profile, copy, request, behind>>

Counts == served < MaxServed /\ served' = served + 1

Next ==
    \/ \E c \in Requests, s \in Logins : \E told \in {None, address[s]}, force \in BOOLEAN :
         address[s] # None /\ Counts /\ SignIn(c, s, told, force)
    \/ \E a \in Accounts, s \in Logins \cup {None}, e \in Addresses, fails \in BOOLEAN :
         Counts /\ (CreateAdmin(a, s, e, fails) \/ SignUpDriver(a, s, e, fails))
    \/ \E a \in Accounts : Counts /\ BecomeDriver(a)
    \/ /\ UNCHANGED served
       /\ \/ \E c \in Requests :
               \/ FetchClerkUser(c) \/ CheckUpdates(c) \/ WriteUpdates(c)
               \/ \E a \in Accounts : CreateSignedIn(c, a) \/ DeleteUser(c, a)
               \/ ApplyVendor(c) \/ Finish(c)
               \/ \E a \in Accounts, e \in Addresses \cup {None}, role \in Given \cup {None},
                     vendor \in Decisions \cup {None} : UpdateUser(c, a, e, role, vendor)
               \/ \E a \in Accounts, s \in Logins \cup {None}, e \in Addresses, role \in Given :
                     CreateUser(c, a, s, e, role)
               \/ \E a \in Accounts, vendor \in {"pending"} \cup Decisions : DecideDriver(c, a, vendor)
               \/ \E fails \in BOOLEAN : Push(c, fails)
          \/ \E s \in Logins : ForgetProfile(s) \/ \E e \in Addresses \cup {None} : ChangeAddress(s, e)

Spec == Init /\ [][Next]_vars

-----------------------------------------------------------------------------
\* No address and no login leads to two accounts, however requests for one person race.
TypeOK ==
    /\ account \in [Accounts -> User \cup {None}]
    /\ \A a, b \in Rows : a # b => /\ account[a].email # account[b].email
                                   /\ account[a].login = None \/ account[a].login # account[b].login
    /\ address \in [Logins -> Addresses \cup {None}] /\ profile \in [Logins -> Addresses \cup {None}]
    /\ copy \in [Logins -> Copies]
    /\ request \in [Requests -> Request \cup {Idle}]
    /\ behind \subseteq Logins /\ served \in 0 .. MaxServed

\* A login that has an account all the time a request runs is signed in to that account, whatever
\* addresses move between the accounts and Clerk meanwhile.
SignedInAsOwn == \A c \in Requests : IsSigned(c) /\ request[c].own # None => request[c].row = request[c].own

\* What an administrator has decided of a vendor is changed by an administrator or by the vendor's
\* own new application only: no request that loaded the account before the decision undoes it.
DecisionsStand ==
    [][\A a \in Accounts :
         account[a] # None /\ account'[a] # None /\ account'[a].vendor # account[a].vendor =>
             \E c \in Requests : /\ IsSigned(c) /\ request'[c] # request[c]
                                 /\ IsAdmin(c) \/ (request[c].row = a /\ account'[a].vendor = "pending")]_vars

\* Clerk's copy of an account's role and status is the table's, but for a telling that failed, was
\* overtaken or is under way, for a login that was only linked when it signed in, and for what a
\* driver's sign-up or a decision about a driver wrote, of which Clerk is never told; each until the
\* next telling that arrives.
ClerkFollows ==
    \A a \in Rows :
        LET s == account[a].login
            telling == \E c \in Requests : request[c] # Idle /\ request[c].stage = "push" /\ request[c].seen.login = s
        IN  s # None /\ s \notin behind /\ ~telling =>
                /\ copy[s] # None
                /\ copy[s].role = account[a].role
                /\ account[a].vendor # None => copy[s].vendor = account[a].vendor

-----------------------------------------------------------------------------
(* What the documents say, and the code does not keep.                      *)

\* "Sync user's role and vendor status back to Clerk's public_metadata": a step that writes the role or
\* the status of an account with a login is one that tells Clerk, or tries to.
ClerkIsTold ==
    [][\A a \in Accounts :
         account[a] # None /\ account'[a] # None /\ Told(account'[a]) # Told(account[a])
         /\ account'[a].login # None
            => \/ \E c \in Requests : /\ request'[c] # Idle /\ request'[c].stage = "push"
                                      /\ request'[c].seen.login = account'[a].login
               \/ \E s \in Logins \cup {None}, e \in Addresses, fails \in BOOLEAN :
                     CreateAdmin(a, s, e, fails)]_vars
=============================================================================

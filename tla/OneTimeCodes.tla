---------------------------- MODULE OneTimeCodes ----------------------------
(***************************************************************************)
(* The codes that are mailed to check an address: the rows of otp_codes    *)
(* (app/models/otp.py, app/repositories/otp_repo.py) and the two requests  *)
(* about them, /auth/send-verification and /auth/verify-code               *)
(* (app/services/email_service.py).                                        *)
(*                                                                         *)
(* Every commit is a step of its own: a code is stored, and seen by        *)
(* others, before its e-mail is sent, and a check writes the number of     *)
(* attempts it has read, plus one.  A code is a row, what it says is one   *)
(* of a few texts; time passes in units of the lifetime's resolution.      *)
(***************************************************************************)
EXTENDS Integers

CONSTANTS
    Emails,
    Codes,
    Texts,          \* what a code may say: two codes may say the same
    Requests,
    Lifetime,       \* of a code: ten minutes
    Limit,          \* attempts a code allows: three
    MaxTime,        \* bound on the time
    MaxAttempts,    \* bound on the attempts a row counts
    None

VARIABLES
    now,
    count,          \* codes made so far, which orders their created_at
    rows,           \* otp_codes
    request,        \* the requests in flight
    issued,         \* history: codes that were ever stored
    last,           \* history: the newest code of each address, with its times
    mailed,         \* history: codes whose e-mail has gone out
    uses,           \* history: the checks that each code has passed
    overwritten     \* history: codes whose attempts were written over unread ones

history == <<issued, last, mailed, uses, overwritten>>
vars == <<now, count, rows, request, issued, last, mailed, uses, overwritten>>

Row == [email: Emails, text: Texts, made: Nat, expires: Nat, attempts: Nat]

Idle == [at |-> "idle"]

Request ==
    {Idle} \cup [at: {"insert"}, email: Emails] \cup [at: {"mail"}, email: Emails, code: Codes]
           \cup [at: {"check"}, code: Codes, seen: Nat, ok: BOOLEAN]

Made == [code: Codes, made: Nat, expires: Nat]

Init ==
    /\ now = 0 /\ count = 0
    /\ rows = [c \in Codes |-> None]
    /\ request = [r \in Requests |-> Idle]
    /\ last = [e \in Emails |-> None]
    /\ issued = {} /\ mailed = {} /\ uses = [c \in Codes |-> 0] /\ overwritten = {}

Goes(r, q) == request' = [request EXCEPT ![r] = q]

Stored(c) == rows[c] # None

Tick ==
    /\ now < MaxTime
    /\ now' = now + 1
    /\ UNCHANGED <<count, rows, request, history>>

-----------------------------------------------------------------------------
(* Sending a code *)

\* Only what has expired is deleted.
DeleteOld(e) ==
    [c \in Codes |-> IF Stored(c) /\ rows[c].email = e /\ rows[c].expires < now THEN None ELSE rows[c]]

StartSend(r, e) ==
    /\ request[r] = Idle
    /\ rows' = DeleteOld(e)
    /\ Goes(r, [at |-> "insert", email |-> e])
    /\ UNCHANGED <<now, count, history>>

\* Faulty: the lifetime counts from the e-mail's previous code.
Extended(e) == IF last[e] = None THEN now + Lifetime ELSE last[e].expires - 1

ExpiresAt(e) == now + Lifetime

\* A row is inserted under a new key.
Fresh(c) == c \notin issued

InsertCode(r) ==
    LET q == request[r]
    IN  /\ q # Idle /\ q.at = "insert"
        /\ \E c \in Codes, t \in Texts :
               /\ Fresh(c)
               /\ rows' = [rows EXCEPT ![c] = [email |-> q.email, text |-> t, made |-> count + 1,
                                               expires |-> ExpiresAt(q.email), attempts |-> 0]]
               /\ issued' = issued \cup {c}
               /\ last' = [last EXCEPT ![q.email] = [code |-> c, made |-> count + 1, expires |-> ExpiresAt(q.email)]]
               /\ Goes(r, [at |-> "mail", email |-> q.email, code |-> c])
        /\ count' = count + 1
        /\ UNCHANGED <<now, mailed, uses, overwritten>>

MailCode(r) ==
    /\ request[r] # Idle /\ request[r].at = "mail"
    /\ mailed' = mailed \cup {request[r].code}
    /\ Goes(r, Idle)
    /\ UNCHANGED <<now, count, rows, issued, last, uses, overwritten>>

\* The e-mail cannot be sent: what has expired is deleted once more.
FailMail(r) ==
    /\ request[r] # Idle /\ request[r].at = "mail"
    /\ rows' = DeleteOld(request[r].email)
    /\ Goes(r, Idle)
    /\ UNCHANGED <<now, count, history>>

-----------------------------------------------------------------------------
(* Checking a code *)

Live(c, e) == Stored(c) /\ rows[c].email = e /\ rows[c].expires > now

\* Faulty: the oldest code is taken.
Oldest(c, e) == Live(c, e) /\ \A d \in Codes : Live(d, e) => rows[c].made <= rows[d].made

IsLatest(c, e) == Live(c, e) /\ \A d \in Codes : Live(d, e) => rows[d].made <= rows[c].made

\* Faulty: attempts are counted but not limited.
SaysSo(c, t) == rows[c].text = t

IsValid(c, t) == rows[c].attempts < Limit /\ rows[c].text = t

\* Without a live code the request is refused and changes nothing.
ReadCode(r, e, t) ==
    /\ request[r] = Idle
    /\ \E c \in Codes :
           /\ IsLatest(c, e)
           /\ rows[c].attempts < MaxAttempts
           /\ Goes(r, [at |-> "check", code |-> c, seen |-> rows[c].attempts, ok |-> IsValid(c, t)])
    /\ UNCHANGED <<now, count, rows, history>>

\* Both answers count as an attempt.
CountAttempt(r) ==
    LET q == request[r]
    IN  /\ q # Idle /\ q.at = "check"
        /\ Stored(q.code)
        /\ rows' = [rows EXCEPT ![q.code].attempts = q.seen + 1]
        /\ uses' = [uses EXCEPT ![q.code] = IF q.ok THEN @ + 1 ELSE @]
        /\ overwritten' = IF rows[q.code].attempts = q.seen THEN overwritten ELSE overwritten \cup {q.code}
        /\ Goes(r, Idle)
        /\ UNCHANGED <<now, count, issued, last, mailed>>

\* The request fails: in the database, because another one has deleted the row, or before.
Abort(r) ==
    /\ request[r] # Idle /\ request[r].at # "mail"
    /\ Goes(r, Idle)
    /\ UNCHANGED <<now, count, rows, history>>

-----------------------------------------------------------------------------
Next ==
    \/ Tick
    \/ \E r \in Requests :
           \/ InsertCode(r) \/ MailCode(r) \/ FailMail(r) \/ CountAttempt(r) \/ Abort(r)
           \/ \E e \in Emails : StartSend(r, e) \/ \E t \in Texts : ReadCode(r, e, t)

Spec == Init /\ [][Next]_vars

-----------------------------------------------------------------------------
(* Properties *)

\* The rows, the requests and the history are of their types.
TypeOK ==
    /\ now \in Nat /\ count \in Nat
    /\ rows \in [Codes -> Row \cup {None}]
    /\ request \in [Requests -> Request]
    /\ last \in [Emails -> Made \cup {None}]
    /\ issued \subseteq Codes /\ mailed \subseteq Codes /\ overwritten \subseteq Codes
    /\ uses \in [Codes -> Nat]

\* Whatever is still stored, the code that a check would look at is the last one that was made
\* for the address: an older code, live or not, never comes back (get_latest_by_email and
\* delete_old_by_email order the codes by different columns).
OnlyTheLastCode == \A e \in Emails, c \in Codes : IsLatest(c, e) => last[e] # None /\ c = last[e].code

\* A code whose attempts were never written over unread ones passes at most three checks, a
\* passed check being an attempt like any other.
LimitedUse == \A c \in Codes \ overwritten : uses[c] <= Limit

\* What email_service.py:25 calls a rollback: a code that could not be mailed does not replace
\* the one that was.
MailedCodeIsLooked ==
    \A e \in Emails, c \in Codes :
        IsLatest(c, e) /\ (\A r \in Requests : request[r] = Idle) /\ (\E d \in mailed : Live(d, e))
            => c \in mailed
=============================================================================

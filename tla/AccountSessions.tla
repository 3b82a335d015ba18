--------------------------- MODULE AccountSessions ---------------------------
(***************************************************************************)
(* One account: its password, its authenticator, the codes mailed to it and   *)
(* its sessions (server/src/routes/auth.ts and security.ts). A transaction of  *)
(* the code is one step; what a request reads before its transaction, or does  *)
(* between two of them, is a step of its own. Time is counted in the steps of  *)
(* the authenticator, 30 s each.                                            *)
(***************************************************************************)
EXTENDS Integers, Sequences

CONSTANTS
  Sessions,        \* rows of sessions
  Mails, NoMail,   \* codes that are mailed, of which one may return when it is forgotten
  GuessLimit,      \* TOTP_MAX_ATTEMPTS, OTP_MAX_ATTEMPTS and MAX_FAILED_ATTEMPTS, all 5
  AttemptWindow,   \* TOTP_ATTEMPT_WINDOW_SECONDS
  LockTime,        \* TOTP_LOCK_SECONDS and LOCK_SECONDS, both 15 minutes
  CodeTtl,         \* OTP_TTL_SECONDS
  ResendCooldown,  \* OTP_RESEND_COOLDOWN_SECONDS
  LastStep, MaxWrong, MaxMisses, MaxSecret, MaxPassword, MaxVersion   \* bounds

ASSUME AccountAssumption ==
  /\ NoMail \notin Mails
  /\ GuessLimit \in Nat \ {0, 1}
  /\ AttemptWindow \in Nat \ {0} /\ LockTime \in Nat /\ AttemptWindow <= LockTime
  /\ CodeTtl \in Nat /\ ResendCooldown \in Nat \ {0}
  /\ {LastStep, MaxWrong, MaxMisses, MaxSecret, MaxPassword, MaxVersion} \subseteq Nat

VARIABLES
  account,   \* the row of users
  session,   \* the rows of sessions, with the requests they have under way
  sending,   \* the codes whose mail is under way
  wrong,     \* when wrong codes were entered since one was accepted
  step       \* the authenticator's present step

accountVars == <<account, session, sending, wrong, step>>

Account ==
  [verified : BOOLEAN, password : Nat, misses : Nat, closedUntil : Nat, version : Nat,
   enabled : BOOLEAN, secret : Nat, secrets : Nat, lastUsed : Nat,
   failed : Nat, windowStart : Nat, lockedUntil : Nat,
   code : Mails \cup {NoMail}, codeAt : Nat, codeTries : Nat]

(* A session with the request it has between two steps, what that request    *)
(* read, and what the session has shown: under which password it was opened, *)
(* and of which secret it entered a code. Of a revoked row nothing is read    *)
(* again: it is none, and a request it had under way can only be refused.    *)
Session ==
  [status : {"none", "pending_2fa", "active"}, version : Nat, tries : Nat,
   request : {"none", "password", "setup", "others"}, read : Nat,
   under : Nat, shown : Nat]

NoSession ==
  [status |-> "none", version |-> 0, tries |-> 0, request |-> "none", read |-> 0,
   under |-> 0, shown |-> 0]

AccountTypeOK ==
  /\ account \in Account
  /\ session \in [Sessions -> Session]
  /\ sending \subseteq Mails
  /\ wrong \in Seq(Nat)
  /\ step \in Nat

(* An account that was just created: 0 stands for nothing yet, and `secrets`  *)
(* counts the authenticator secrets there have been.                        *)
AccountInit ==
  /\ account = [verified |-> FALSE, password |-> 1, misses |-> 0, closedUntil |-> 0, version |-> 0,
                enabled |-> FALSE, secret |-> 0, secrets |-> 0, lastUsed |-> 0,
                failed |-> 0, windowStart |-> 0, lockedUntil |-> 0,
                code |-> NoMail, codeAt |-> 0, codeTries |-> 0]
  /\ session = [s \in Sessions |-> NoSession]
  /\ sending = {}
  /\ wrong = <<>>
  /\ step = 2

-----------------------------------------------------------------------------
(* A session the server accepts (resolveSession). *)
Usable(s) ==
  session[s].status \in {"pending_2fa", "active"} /\ session[s].version = account.version

SignedIn(s) == Usable(s) /\ session[s].status = "active"

Pending(s) == Usable(s) /\ session[s].status = "pending_2fa"

NoCode(a) == [a EXCEPT !.code = NoMail, !.codeAt = 0, !.codeTries = 0]

(* createSession, which asks for a second factor if the account has one. *)
OpenedAs(status) ==
  [status |-> status, version |-> account.version, tries |-> 0, request |-> "none", read |-> 0,
   under |-> account.password, shown |-> 0]

Entrance == IF account.enabled THEN "pending_2fa" ELSE "active"

(* invalidateOtherSessions: a new credential version for the account and the  *)
(* session s, the end of all others.                                        *)
NewVersion(a) == [NoCode(a) EXCEPT !.version = @ + 1]

OthersEnded(rows, s) ==
  [x \in Sessions |->
     IF x = s THEN [rows[s] EXCEPT !.version = account.version + 1] ELSE NoSession]

-----------------------------------------------------------------------------
(* Codes sent by mail. *)

CoolingDown == account.code # NoMail /\ step < account.codeAt + ResendCooldown

(* reserveOtp: signing up, asking again, or asking for a code to log in with. *)
RequestCode(m) ==
  /\ m \notin sending \cup {account.code}
  /\ ~CoolingDown
  /\ account' = [account EXCEPT !.code = m, !.codeAt = step, !.codeTries = 0]
  /\ sending' = sending \cup {m}
  /\ UNCHANGED <<session, wrong, step>>

MailSent(m) ==
  /\ m \in sending
  /\ sending' = sending \ {m}
  /\ UNCHANGED <<account, session, wrong, step>>

(* clearUndeliveredOtp *)
Withdrawn(m) == IF account.code = m THEN NoCode(account) ELSE account

MailFails(m) ==
  /\ m \in sending
  /\ sending' = sending \ {m}
  /\ account' = Withdrawn(m)
  /\ UNCHANGED <<session, wrong, step>>

CodeOpen ==
  account.code # NoMail /\ step <= account.codeAt + CodeTtl /\ account.codeTries < GuessLimit

(* verify-email: the first code makes the account usable. *)
VerifyEmail(s) ==
  /\ session[s].status = "none"
  /\ CodeOpen /\ ~account.verified
  /\ account' = [NoCode(account) EXCEPT !.verified = TRUE]
  /\ session' = [session EXCEPT ![s] = OpenedAs("active")]
  /\ UNCHANGED <<sending, wrong, step>>

(* otp/verify: a code instead of the password. *)
CodeLogIn(s) ==
  /\ session[s].status = "none"
  /\ CodeOpen
  /\ account' = [NoCode(account) EXCEPT !.verified = TRUE, !.misses = 0, !.closedUntil = 0]
  /\ session' = [session EXCEPT ![s] = OpenedAs(Entrance)]
  /\ UNCHANGED <<sending, wrong, step>>

WrongMailCode ==
  /\ CodeOpen
  /\ account' = [account EXCEPT !.codeTries = @ + 1]
  /\ UNCHANGED <<session, sending, wrong, step>>

-----------------------------------------------------------------------------
(* Sessions. *)

Closed == account.closedUntil > step

(* login with the password. *)
LogIn(s) ==
  /\ session[s].status = "none"
  /\ account.verified /\ ~Closed
  /\ account' = [account EXCEPT !.misses = 0, !.closedUntil = 0]
  /\ session' = [session EXCEPT ![s] = OpenedAs(Entrance)]
  /\ UNCHANGED <<sending, wrong, step>>

(* A wrong password closes the account for a while, and again from then on,   *)
(* until one is accepted.                                                   *)
WrongPassword ==
  /\ account.verified
  /\ account.misses < MaxMisses                                         \* bound
  /\ account' = [account EXCEPT !.misses = @ + 1,
                    !.closedUntil = IF account.misses + 1 >= GuessLimit THEN step + LockTime ELSE 0]
  /\ UNCHANGED <<session, sending, wrong, step>>

(* The organization's identity provider vouches for a member. *)
SsoLogIn(s) ==
  /\ session[s].status = "none"
  /\ account.verified /\ ~Closed
  /\ session' = [session EXCEPT ![s] = OpenedAs(Entrance)]
  /\ UNCHANGED <<account, sending, wrong, step>>

(* Logging out, revocation from another session, or the end of its time. *)
SessionEnds(s) ==
  /\ session[s].status # "none"
  /\ session' = [session EXCEPT ![s] = NoSession]
  /\ UNCHANGED <<account, sending, wrong, step>>

RequestOver(s) == [session EXCEPT ![s].request = "none", ![s].read = 0]

(* A request that reads before its transaction: password, 2fa/setup,        *)
(* revoke-others. The owner enters the present password.                    *)
BeginRequest(s, request) ==
  /\ SignedIn(s) /\ session[s].request = "none"
  /\ request = "setup" => ~account.enabled
  /\ session' = [session EXCEPT ![s].request = request, ![s].read = account.password]
  /\ UNCHANGED <<account, sending, wrong, step>>

(* It is refused, or its instance stops. *)
RequestEnds(s) ==
  /\ session[s].request # "none"
  /\ session' = RequestOver(s)
  /\ UNCHANGED <<account, sending, wrong, step>>

(* POST /password *)
ChangePassword(s) ==
  /\ session[s].request = "password" /\ SignedIn(s)
  /\ session[s].read = account.password
  /\ account.password < MaxPassword                                    \* bound
  /\ account' = [NewVersion(account) EXCEPT !.password = @ + 1]
  /\ session' = OthersEnded([RequestOver(s) EXCEPT ![s].under = account.password + 1], s)
  /\ UNCHANGED <<sending, wrong, step>>

(* POST /revoke-others *)
RevokeOthers(s) ==
  /\ session[s].request = "others" /\ SignedIn(s)
  /\ account.version < MaxVersion                                      \* bound
  /\ account' = NewVersion(account)
  /\ session' = OthersEnded(RequestOver(s), s)
  /\ UNCHANGED <<sending, wrong, step>>

-----------------------------------------------------------------------------
(* The authenticator. *)

(* POST /2fa/setup: a new secret, whose codes no session has entered. *)
SetUp(s) ==
  /\ session[s].request = "setup" /\ SignedIn(s)
  /\ ~account.enabled
  /\ account.secrets < MaxSecret                                       \* bound
  /\ account' = [account EXCEPT !.secret = account.secrets + 1, !.secrets = @ + 1, !.lastUsed = 0]
  /\ session' = RequestOver(s)
  /\ UNCHANGED <<sending, wrong, step>>

Locked == account.lockedUntil > step

FreshWindow == account.windowStart = 0 \/ step - account.windowStart >= AttemptWindow

Failures == (IF FreshWindow THEN 0 ELSE account.failed) + 1

(* Mutant: the lock ends when the window does. *)
LockedUntil_WindowEnd ==
  IF Failures >= GuessLimit
    THEN (IF FreshWindow THEN step ELSE account.windowStart) + AttemptWindow ELSE 0

LockedUntil == IF Failures >= GuessLimit THEN step + LockTime ELSE 0

(* Which sessions may enter a code, and for what (attemptTotp). *)
MayEnter(s, purpose) ==
  /\ IF purpose = "login" THEN Pending(s) /\ session[s].tries < GuessLimit ELSE SignedIn(s)
  /\ account.enabled = (purpose # "enable")
  /\ account.secret # 0
  /\ ~Locked

(* A pending session that used up its attempts, or the account's, ends. *)
AfterWrongCode(row) ==
  IF Failures >= GuessLimit \/ row.tries + 1 >= GuessLimit
    THEN NoSession ELSE [row EXCEPT !.tries = @ + 1]

(* A code of no step near the present one, or of one that was used already. *)
WrongCode(s, purpose) ==
  /\ MayEnter(s, purpose)
  /\ Len(wrong) < MaxWrong                                             \* bound
  /\ account' = [account EXCEPT !.failed = Failures,
                                !.windowStart = IF FreshWindow THEN step ELSE @,
                                !.lockedUntil = LockedUntil]
  /\ session' = IF purpose # "login" THEN session
                ELSE [session EXCEPT ![s] = AfterWrongCode(@)]
  /\ wrong' = Append(wrong, step)
  /\ UNCHANGED <<sending, step>>

(* A code of step n, within one of the present one, is accepted once. *)
Accepted(n) ==
  [account EXCEPT !.lastUsed = n, !.failed = 0, !.windowStart = 0, !.lockedUntil = 0]

RightCode(s, purpose, n) ==
  MayEnter(s, purpose) /\ n > account.lastUsed

(* verify-2fa *)
VerifySecondFactor(s, n) ==
  /\ RightCode(s, "login", n)
  /\ account' = Accepted(n)
  /\ session' = [session EXCEPT ![s].status = "active", ![s].shown = account.secret]
  /\ wrong' = <<>>
  /\ UNCHANGED <<sending, step>>

(* Mutant: enabling leaves the other sessions as they are. *)
Enable_OthersStay(s, n) ==
  /\ RightCode(s, "enable", n)
  /\ account' = [Accepted(n) EXCEPT !.enabled = TRUE]
  /\ session' = [session EXCEPT ![s].shown = account.secret]
  /\ wrong' = <<>>
  /\ UNCHANGED <<sending, step>>

(* 2fa/enable *)
Enable(s, n) ==
  /\ RightCode(s, "enable", n)
  /\ account' = [NewVersion(Accepted(n)) EXCEPT !.enabled = TRUE]
  /\ session' = OthersEnded([session EXCEPT ![s].shown = account.secret], s)
  /\ wrong' = <<>>
  /\ UNCHANGED <<sending, step>>

(* 2fa/disable *)
Disable(s, n) ==
  /\ RightCode(s, "disable", n)
  /\ account' = [NewVersion(Accepted(n)) EXCEPT !.enabled = FALSE, !.secret = 0, !.lastUsed = 0]
  /\ session' = OthersEnded(session, s)
  /\ wrong' = <<>>
  /\ UNCHANGED <<sending, step>>

StepPasses ==
  /\ step < LastStep                                                   \* bound
  /\ step' = step + 1
  /\ UNCHANGED <<account, session, sending, wrong>>

AccountNext ==
  \/ \E m \in Mails : RequestCode(m) \/ MailSent(m) \/ MailFails(m)
  \/ WrongMailCode \/ WrongPassword
  \/ \E s \in Sessions :
       \/ VerifyEmail(s) \/ CodeLogIn(s) \/ LogIn(s) \/ SsoLogIn(s) \/ SessionEnds(s)
       \/ \E r \in {"password", "setup", "others"} : BeginRequest(s, r)
       \/ RequestEnds(s) \/ ChangePassword(s) \/ RevokeOthers(s) \/ SetUp(s)
       \/ \E purpose \in {"login", "enable", "disable"} : WrongCode(s, purpose)
       \/ \E n \in (step - 1) .. (step + 1) : VerifySecondFactor(s, n) \/ Enable(s, n) \/ Disable(s, n)
  \/ StepPasses

AccountSpec == AccountInit /\ [][AccountNext]_accountVars

-----------------------------------------------------------------------------
(* Every session the server accepts has shown what the account asks for now,  *)
(* whatever was under way when it changed: it was opened, or made the change, *)
(* under the present password, and past the second step it entered a code of *)
(* the present authenticator (routes/auth.ts:126, 177).                     *)
SessionsVouched ==
  \A s \in Sessions : Usable(s) =>
    /\ session[s].under = account.password
    /\ account.enabled /\ session[s].status = "active" => session[s].shown = account.secret

(* Guessing is slow however many sessions share in it, and across the edges    *)
(* of the counting windows: without a right code in between, so many wrong     *)
(* ones (8 in the server's setting) are all that fit into one window          *)
(* (routes/auth.ts:146-160).                                               *)
GuessesBounded ==
  \A i \in 1..Len(wrong) : i + 2 * GuessLimit - 2 <= Len(wrong) =>
    wrong[i + 2 * GuessLimit - 2] - wrong[i] >= AttemptWindow
=============================================================================

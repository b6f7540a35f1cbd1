------------------------------- MODULE Login -------------------------------
(***************************************************************************)
(* The account of one phone number: the one-time codes that are sent to it *)
(* and verified against its LoginOtpChallenge row, the challenges of an    *)
(* administrator who has given the password, registration, and operators   *)
(* who change the account meanwhile.  Sending holds the row of the code    *)
(* while the provider is called.                                           *)
(***************************************************************************)
EXTENDS Integers, Sequences, FiniteSets

CONSTANTS Workers,
          Nobody,           \* a row is not locked
          NoRow,            \* the number has no account, or no code yet
          MfaEnabled,       \* ADMIN_MFA_ENABLED
          MaxAttempts,      \* 5 in the code
          Resend, Expiry, MfaTtl, \* one minute and the two settings, in units of time
          MaxTime, MaxCodes \* bounds of the clock and of the codes sent

ASSUME LoginAssumption ==
    /\ Nobody \notin Workers
    /\ MfaEnabled \in BOOLEAN
    /\ MaxAttempts \in Nat \ {0}
    /\ {Resend, Expiry, MfaTtl, MaxTime, MaxCodes} \subseteq Nat

VARIABLES user,      \* the User row
          otp,       \* the LoginOtpChallenge row
          mfa,       \* AdminMfaChallenge rows, in the order of their creation
          sessions,  \* refresh tokens in use: the code and the challenge they came from
          otpLock, userLock,
          job,       \* the request each worker serves
          clock,
          codes,     \* how many codes were sent; a code is its number, 0 is a guess
          failed,    \* wrong codes tried at a customer's login against each code
          admitted   \* sessions opened with each code

rows == <<user, otp, mfa, sessions>>
history == <<clock, codes, failed, admitted>>
vars == <<rows, otpLock, userLock, job, history>>

Roles == {"CUSTOMER", "TECHNICIAN", "ADMIN"}   \* ADMIN stands for SUPER_ADMIN too
Codes == 1..MaxCodes
Idle == [kind |-> "idle"]
IsAdmin == user # NoRow /\ user.role = "ADMIN"

Init ==
    /\ user \in {NoRow} \cup [role : Roles, active : {TRUE}, password : BOOLEAN]
    /\ otp = NoRow /\ mfa = <<>> /\ sessions = {}
    /\ otpLock = Nobody /\ userLock = Nobody
    /\ job = [w \in Workers |-> Idle]
    /\ clock = 0 /\ codes = 0
    /\ failed = [c \in Codes |-> 0] /\ admitted = [c \in Codes |-> 0]

Session(mfaClaim, code, challenge) == [mfa |-> mfaClaim, code |-> code, challenge |-> challenge]
LoginResult(mfaClaim, code, challenge) ==
    /\ sessions' = sessions \cup {Session(mfaClaim, code, challenge)}
    /\ admitted' = IF code = 0 THEN admitted ELSE [admitted EXCEPT ![code] = @ + 1]

End(w) ==
    /\ job' = [job EXCEPT ![w] = Idle]
    /\ otpLock' = IF otpLock = w THEN Nobody ELSE otpLock
    /\ userLock' = IF userLock = w THEN Nobody ELSE userLock
-----------------------------------------------------------------------------
(* Sending a code: send_otp, by itself or within an administrator's login *)

TakeOtpRow(w) == otpLock = Nobody /\ otpLock' = w

BeginSend(w, kind) ==
    /\ job[w] = Idle
    /\ otp # NoRow => clock - otp.sent >= Resend
    /\ TakeOtpRow(w)
    /\ job' = [job EXCEPT ![w] = [kind |-> kind, at |-> clock]]
    /\ UNCHANGED <<rows, userLock, history>>

SendLoginOtp(w) == ~IsAdmin /\ BeginSend(w, "send")

PasswordAccepted == user # NoRow /\ user.active /\ user.password

StartAdminLogin(w) == PasswordAccepted /\ IsAdmin /\ MfaEnabled /\ BeginSend(w, "login")

NewOtp(w, code) == [code |-> code, sent |-> job[w].at, expires |-> job[w].at + Expiry,
                    attempts |-> 0, consumed |-> FALSE]

Deliver(w) ==
    /\ job[w].kind \in {"send", "login"} /\ codes < MaxCodes
    /\ codes' = codes + 1
    /\ IF job[w].kind = "send"
       THEN otp' = NewOtp(w, codes + 1) /\ End(w)
       ELSE /\ job' = [job EXCEPT ![w] = [kind |-> "challenge", otp |-> NewOtp(w, codes + 1)]]
            /\ UNCHANGED <<otp, otpLock, userLock>>
    /\ UNCHANGED <<user, mfa, sessions, clock, failed, admitted>>

\* The older challenges end and a new one begins, in the transaction that sent the code.
Superseded(i) == [mfa[i] EXCEPT !.consumed = TRUE]
CreateChallenge(w) ==
    /\ job[w].kind = "challenge" /\ userLock = Nobody
    /\ mfa' = Append([i \in DOMAIN mfa |-> Superseded(i)], [expires |-> clock + MfaTtl, consumed |-> FALSE])
    /\ otp' = job[w].otp
    /\ End(w)
    /\ UNCHANGED <<user, sessions, history>>

\* A refusal, a failed delivery, a deadlock the database ends, the end of the process.
Rollback(w) ==
    /\ job[w] # Idle
    /\ End(w)
    /\ UNCHANGED <<rows, history>>
-----------------------------------------------------------------------------
(* Verifying a code *)

Judged == /\ otp # NoRow /\ otp.expires > clock
          /\ ~otp.consumed /\ otp.attempts < MaxAttempts
Valid(guess) == Judged /\ guess = otp.code

Verified_Reusable(guess) == [otp EXCEPT !.attempts = @ + 1]
Verified(guess) ==
    [otp EXCEPT !.attempts = @ + 1, !.consumed = Valid(guess)]

RejectedRow_RolledBack(guess) == otp
RejectedRow(guess) == IF Judged THEN Verified(guess) ELSE otp

\* A customer's login: the code is judged and counted in a transaction of its own, and
\* the account is looked up in the next one.
VerifyOtp(w, guess) ==
    /\ job[w] = Idle /\ ~IsAdmin /\ otpLock = Nobody
    /\ Valid(guess)
    /\ otp' = Verified(guess)
    /\ job' = [job EXCEPT ![w] = [kind |-> "verified", code |-> guess]]
    /\ UNCHANGED <<user, mfa, sessions, otpLock, userLock, history>>

RejectOtp(guess) ==
    /\ ~IsAdmin /\ otpLock = Nobody
    /\ ~Valid(guess)
    /\ otp' = RejectedRow(guess)
    /\ failed' = IF Judged THEN [failed EXCEPT ![otp.code] = @ + 1] ELSE failed
    /\ UNCHANGED <<user, mfa, sessions, otpLock, userLock, job, clock, codes, admitted>>

NewCustomer(password) == [role |-> "CUSTOMER", active |-> TRUE, password |-> password]

\* authenticate_verified_phone, also the end of a login with Firebase (code 0).
AuthenticateVerifiedPhone(w) ==
    /\ job[w].kind = "verified" /\ userLock = Nobody
    /\ user' = IF user = NoRow THEN NewCustomer(FALSE) ELSE user
    /\ user'.active /\ user'.role # "ADMIN"
    /\ LoginResult(FALSE, job[w].code, 0)
    /\ End(w)
    /\ UNCHANGED <<otp, mfa, clock, codes, failed>>

AuthenticateWithFirebase(w) ==
    /\ job[w] = Idle
    /\ job' = [job EXCEPT ![w] = [kind |-> "verified", code |-> 0]]
    /\ UNCHANGED <<rows, otpLock, userLock, history>>

\* complete_admin_mfa locks the challenge and the account, and judges the code after.
BeginMfa(w, i) ==
    /\ job[w] = Idle /\ userLock = Nobody
    /\ ~mfa[i].consumed /\ mfa[i].expires > clock
    /\ IsAdmin /\ user.active
    /\ userLock' = w
    /\ job' = [job EXCEPT ![w] = [kind |-> "mfa", challenge |-> i]]
    /\ UNCHANGED <<rows, otpLock, history>>

ConsumeChallenge(i) == mfa' = [mfa EXCEPT ![i].consumed = TRUE]

\* With a wrong code the whole transaction is rolled back, the attempt included: see Rollback.
CompleteMfa(w) ==
    /\ job[w].kind = "mfa" /\ otpLock = Nobody
    /\ Judged
    /\ otp' = Verified(otp.code)
    /\ ConsumeChallenge(job[w].challenge)
    /\ LoginResult(TRUE, otp.code, job[w].challenge)
    /\ End(w)
    /\ UNCHANGED <<user, clock, codes, failed>>
-----------------------------------------------------------------------------
(* Without a code *)

\* Name and phone number only.
AuthenticateCustomerAccess ==
    /\ userLock = Nobody
    /\ user' = IF user = NoRow THEN NewCustomer(FALSE) ELSE user
    /\ user'.role = "CUSTOMER" /\ user'.active
    /\ LoginResult(FALSE, 0, 0)
    /\ UNCHANGED <<otp, mfa, otpLock, userLock, job, clock, codes, failed>>

AuthenticateWithPassword ==
    /\ PasswordAccepted /\ ~(IsAdmin /\ MfaEnabled)
    /\ LoginResult(IsAdmin, 0, 0)
    /\ UNCHANGED <<user, otp, mfa, otpLock, userLock, job, clock, codes, failed>>

\* register_with_password writes every column of the row as it was read, without a lock.
Registrable == user # NoRow => user.role = "CUSTOMER" /\ ~user.password

BeginRegistration(w) ==
    /\ job[w] = Idle /\ Registrable
    /\ job' = [job EXCEPT ![w] = [kind |-> "register", seen |-> user]]
    /\ UNCHANGED <<rows, otpLock, userLock, history>>

\* Sessions hold a mark of the password and end with it.
Register(w) ==
    /\ job[w].kind = "register" /\ userLock = Nobody
    /\ job[w].seen = NoRow => user = NoRow
    /\ user' = NewCustomer(TRUE)
    /\ sessions' = {Session(FALSE, 0, 0)}
    /\ End(w)
    /\ UNCHANGED <<otp, mfa, history>>

\* The staff pages and the admin pages; ensure_superuser at a deployment.
SetUser(role, active) ==
    /\ user # NoRow /\ userLock = Nobody
    /\ user' = [user EXCEPT !.role = role, !.active = active]
    /\ UNCHANGED <<otp, mfa, sessions, otpLock, userLock, job, history>>

CreateStaff ==
    /\ user = NoRow
    /\ user' = [role |-> "ADMIN", active |-> TRUE, password |-> TRUE]
    /\ UNCHANGED <<otp, mfa, sessions, otpLock, userLock, job, history>>

EnsureSuperuser ==
    /\ userLock = Nobody
    /\ user' = [role |-> "ADMIN", active |-> TRUE, password |-> TRUE]
    /\ sessions' = {}
    /\ UNCHANGED <<otp, mfa, otpLock, userLock, job, history>>

\* MfaEnforcedJWTAuthentication looks the account up at every request.
Authenticates_AnyToken(s) == user # NoRow /\ user.active
Authenticates(s) == user # NoRow /\ user.active /\ (MfaEnabled /\ IsAdmin => s.mfa)

Logout(s) ==
    /\ \E t \in sessions : Authenticates(t)
    /\ sessions' = sessions \ {s}
    /\ UNCHANGED <<user, otp, mfa, otpLock, userLock, job, history>>

Tick ==
    /\ clock < MaxTime
    /\ clock' = clock + 1
    /\ UNCHANGED <<rows, otpLock, userLock, job, codes, failed, admitted>>
-----------------------------------------------------------------------------
Guesses == 0..codes   \* a wrong guess, or a code that was sent

Step(w) ==
    \/ SendLoginOtp(w) \/ StartAdminLogin(w) \/ Deliver(w) \/ CreateChallenge(w)
    \/ \E guess \in Guesses : VerifyOtp(w, guess)
    \/ AuthenticateVerifiedPhone(w) \/ AuthenticateWithFirebase(w)
    \/ \E i \in DOMAIN mfa : BeginMfa(w, i)
    \/ CompleteMfa(w) \/ BeginRegistration(w) \/ Register(w)
    \/ Rollback(w)

Next ==
    \/ \E w \in Workers : Step(w)
    \/ \E guess \in Guesses : RejectOtp(guess)
    \/ AuthenticateCustomerAccess \/ AuthenticateWithPassword
    \/ \E role \in Roles, active \in BOOLEAN : SetUser(role, active)
    \/ CreateStaff \/ EnsureSuperuser
    \/ \E s \in sessions : Logout(s)
    \/ Tick

Spec == Init /\ [][Next]_vars
-----------------------------------------------------------------------------
(* Properties *)

OtpRows == {NoRow} \cup [code : Codes, sent : 0..MaxTime, expires : 0..MaxTime + Expiry,
                         attempts : 0..MaxAttempts, consumed : BOOLEAN]

\* The state space; the rows' counters stay within their limits, and a lock is held by
\* a request that will release it.
TypeOK ==
    /\ user \in {NoRow} \cup [role : Roles, active : BOOLEAN, password : BOOLEAN]
    /\ otp \in OtpRows
    /\ mfa \in Seq([expires : Nat, consumed : BOOLEAN])
    /\ sessions \subseteq [mfa : BOOLEAN, code : 0..MaxCodes, challenge : 0..Len(mfa)]
    /\ \A w \in Workers :
          /\ otpLock = w => job[w].kind \in {"send", "login", "challenge"}
          /\ userLock = w => job[w].kind = "mfa"
    /\ clock \in 0..MaxTime /\ codes \in 0..MaxCodes
    /\ failed \in [Codes -> Nat] /\ admitted \in [Codes -> Nat]

\* "Verification locks after five failed attempts, and successful codes cannot be reused"
\* (docs/cart-msg91.md), of customers' logins: however requests to send, verify and log
\* in interleave, no code admits anyone after so many wrong ones, and none is judged.
\* (Attempts at an administrator's challenge are not counted: they are rolled back.)
LocksAfterFailedAttempts ==
    \A c \in Codes : failed[c] <= MaxAttempts /\ (admitted[c] > 0 => failed[c] < MaxAttempts)

\* A code opens one session at most, whoever verifies it at the same time and for
\* whatever purpose it was sent, and so does a challenge: with a later code it admits
\* nobody again.
AdmitsOnce ==
    /\ \A c \in Codes : admitted[c] <= 1
    /\ \A s, t \in sessions : s.challenge # 0 /\ s.challenge = t.challenge => s = t

\* No session acts for an administrator but one that a
\* password, a challenge and a code opened, however the account became one.
AdministratorsPassedMfa ==
    MfaEnabled => \A s \in sessions : Authenticates(s) /\ IsAdmin => s.challenge # 0 /\ s.code # 0
=============================================================================

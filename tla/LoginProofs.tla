---------------------------- MODULE LoginProofs ----------------------------
(***************************************************************************)
(* For any number of requests, codes and attempts: a code is judged a      *)
(* limited number of times and opens one session at most, and no session   *)
(* acts for an administrator without a code.  A code that can still admit  *)
(* somebody is in one place only: in the row, unconsumed, or with the one  *)
(* request that consumed it.  The invariant says so, and that nobody was   *)
(* admitted with it yet.                                                   *)
(***************************************************************************)
EXTENDS Login, SequenceTheorems, TLAPS

Users == [role : Roles, active : BOOLEAN, password : BOOLEAN]
OtpRow == [code : Codes, sent : 0..MaxTime, expires : 0..MaxTime + Expiry,
           attempts : 0..MaxAttempts, consumed : BOOLEAN]
Challenge == [expires : Nat, consumed : BOOLEAN]

Jobs == {Idle} \cup [kind : {"send", "login"}, at : 0..MaxTime]
               \cup [kind : {"challenge"}, otp : OtpRow]
               \cup [kind : {"verified"}, code : 0..MaxCodes]
               \cup [kind : {"mfa"}, challenge : Nat]
               \cup [kind : {"register"}, seen : {NoRow} \cup Users]

Verifies(w, c) == job[w].kind = "verified" /\ job[w].code = c

\* A request that sends a code holds the code's row until the code is stored,
\* and one at an administrator's challenge holds the account.
LocksAreHeld ==
    \A w \in Workers :
       /\ job[w].kind \in {"send", "login", "challenge"} => otpLock = w
       /\ job[w].kind = "mfa" => /\ userLock = w
                                 /\ job[w].challenge \in DOMAIN mfa
                                 /\ ~mfa[job[w].challenge].consumed

\* The row counts every wrong attempt at its code, and while the code is not
\* consumed nobody was admitted with it or is about to be.
RowIsCurrent ==
    otp # NoRow =>
       /\ otp.code <= codes /\ failed[otp.code] <= otp.attempts
       /\ ~otp.consumed => admitted[otp.code] = 0 /\ \A w \in Workers : ~Verifies(w, otp.code)

\* A code consumed by a request that has not logged in yet is that request's
\* alone, and a code that is not stored yet is nobody's.
CodesInHand ==
    \A w \in Workers :
       /\ \A c \in Codes : Verifies(w, c) =>
             /\ c <= codes /\ admitted[c] = 0 /\ failed[c] < MaxAttempts
             /\ \A v \in Workers : Verifies(v, c) => v = w
       /\ job[w].kind = "challenge" => LET c == job[w].otp.code IN
             /\ c <= codes /\ admitted[c] = 0 /\ failed[c] = 0
             /\ \A v \in Workers : ~Verifies(v, c)

\* Nothing was tried with a code that was not sent.
UnsentCodes == \A c \in Codes : c > codes => failed[c] = 0 /\ admitted[c] = 0

\* A challenge that opened a session is consumed, and only challenges open
\* sessions that claim them.
SessionsAreOpened ==
    \A s \in sessions :
       /\ s.challenge # 0 => mfa[s.challenge].consumed
       /\ MfaEnabled /\ s.mfa => s.challenge # 0 /\ s.code # 0

IInv == /\ TypeOK /\ job \in [Workers -> Jobs]
        /\ LocksAreHeld /\ RowIsCurrent /\ CodesInHand /\ UnsentCodes /\ SessionsAreOpened
        /\ LocksAfterFailedAttempts /\ AdmitsOnce
-----------------------------------------------------------------------------
\* The fields of a request, by its kind.
LEMMA JobFacts ==
    ASSUME job \in [Workers -> Jobs], NEW w \in Workers
    PROVE  /\ job[w] = Idle => job[w].kind = "idle"
           /\ job[w].kind = "idle" => job[w] = Idle
           /\ job[w].kind \in {"send", "login"} => job[w].at \in 0..MaxTime
           /\ job[w].kind = "challenge" => job[w].otp \in OtpRow
           /\ job[w].kind = "verified" => job[w].code \in 0..MaxCodes
           /\ job[w].kind = "mfa" => job[w].challenge \in Nat
           /\ job[w].kind = "register" => job[w].seen \in {NoRow} \cup Users
BY DEF Jobs, Idle

\* The codes and bounds are numbers.
LEMMA Numbers ==
    /\ MaxAttempts \in Nat \ {0} /\ Resend \in Nat /\ Expiry \in Nat /\ MfaTtl \in Nat
    /\ MaxTime \in Nat /\ MaxCodes \in Nat
    /\ Nobody \notin Workers /\ MfaEnabled \in BOOLEAN
    /\ Codes \subseteq Nat /\ 0 \notin Codes /\ 0 \in 0..MaxCodes
BY LoginAssumption DEF Codes

\* The row of a code.
LEMMA OtpFacts ==
    ASSUME TypeOK
    PROVE  /\ otp = NoRow \/ otp \in OtpRow
           /\ otp # NoRow => /\ otp.code \in Codes /\ otp.code \in Nat /\ otp.attempts \in 0..MaxAttempts
                             /\ otp.consumed \in BOOLEAN /\ failed[otp.code] \in Nat
                             /\ admitted[otp.code] \in Nat
           /\ Judged => otp # NoRow /\ ~otp.consumed /\ otp.attempts < MaxAttempts
<1>1. otp = NoRow \/ otp \in OtpRow
  BY DEF TypeOK, OtpRows, OtpRow
<1>2. \A o \in OtpRow : /\ o.code \in Codes /\ o.attempts \in 0..MaxAttempts
                        /\ o.consumed \in BOOLEAN
  BY DEF OtpRow
<1>3. QED BY <1>1, <1>2, Numbers DEF TypeOK, Judged

\* A code that was judged: the attempt is counted, and a right one consumes it.
LEMMA VerifiedFacts ==
    ASSUME TypeOK, Judged, NEW guess
    PROVE  /\ Verified(guess) \in OtpRow
           /\ Verified(guess).code = otp.code
           /\ Verified(guess).attempts = otp.attempts + 1
           /\ Verified(guess).consumed = (guess = otp.code)
<1>1. otp \in OtpRow /\ otp.attempts + 1 \in 0..MaxAttempts
  BY OtpFacts, Numbers
<1>2. \A o \in OtpRow, n \in 0..MaxAttempts, b \in BOOLEAN :
         LET new == [o EXCEPT !.attempts = n, !.consumed = b]
         IN new \in OtpRow /\ new.code = o.code /\ new.attempts = n /\ new.consumed = b
  BY DEF OtpRow
<1> DEFINE new == Verified(guess)
<1>3. new = [otp EXCEPT !.attempts = otp.attempts + 1, !.consumed = Valid(guess)]
  BY DEF Verified
<1>4. CASE guess = otp.code
  <2>1. Valid(guess) = TRUE
    BY <1>4 DEF Valid
  <2>2. new = [otp EXCEPT !.attempts = otp.attempts + 1, !.consumed = TRUE]
    BY <1>3, <2>1
  <2> HIDE DEF new
  <2>3. /\ new \in OtpRow /\ new.code = otp.code
        /\ new.attempts = otp.attempts + 1 /\ new.consumed = TRUE
    BY <1>1, <1>2, <2>2
  <2>4. QED BY <1>4, <2>3 DEF new
<1>5. CASE guess # otp.code
  <2>1. Valid(guess) = FALSE
    BY <1>5 DEF Valid
  <2>2. new = [otp EXCEPT !.attempts = otp.attempts + 1, !.consumed = FALSE]
    BY <1>3, <2>1
  <2> HIDE DEF new
  <2>3. /\ new \in OtpRow /\ new.code = otp.code
        /\ new.attempts = otp.attempts + 1 /\ new.consumed = FALSE
    BY <1>1, <1>2, <2>2
  <2>4. QED BY <1>5, <2>3 DEF new
<1>6. QED BY <1>4, <1>5

\* What a request begins or goes on with.
LEMMA JobEffect ==
    ASSUME job \in [Workers -> Jobs], NEW w \in Workers, NEW j \in Jobs,
           job' = [job EXCEPT ![w] = j]
    PROVE  /\ job' \in [Workers -> Jobs] /\ job'[w] = j
           /\ \A v \in Workers \ {w} : job'[v] = job[v]
OBVIOUS

\* The end of a request frees its locks and no other's.
LEMMA EndEffect ==
    ASSUME job \in [Workers -> Jobs], NEW w \in Workers, End(w)
    PROVE  /\ job' \in [Workers -> Jobs]
           /\ job'[w] = Idle /\ job'[w].kind = "idle"
           /\ \A v \in Workers \ {w} : job'[v] = job[v]
           /\ \A v \in Workers : /\ otpLock' = v <=> otpLock = v /\ v # w
                                 /\ userLock' = v <=> userLock = v /\ v # w
           /\ \A v \in Workers : \A c : Verifies(v, c)' <=> Verifies(v, c) /\ v # w
<1>1. Idle \in Jobs /\ Idle.kind = "idle"
  BY DEF Jobs, Idle
<1>2. QED BY <1>1, JobEffect, Numbers DEF End, Verifies

LEMMA InitIInv == Init => IInv
<1> SUFFICES ASSUME Init PROVE IInv
  OBVIOUS
<1> USE DEF Init
<1>1. /\ job \in [Workers -> Jobs] /\ \A w \in Workers : job[w].kind = "idle"
  BY DEF Jobs, Idle
<1>2. TypeOK
  <2>1. user \in {NoRow} \cup [role : Roles, active : BOOLEAN, password : BOOLEAN]
    OBVIOUS
  <2>2. /\ failed \in [Codes -> Nat] /\ admitted \in [Codes -> Nat]
        /\ clock \in 0..MaxTime /\ codes \in 0..MaxCodes
        /\ mfa \in Seq([expires : Nat, consumed : BOOLEAN])
    BY Numbers
  <2>3. QED BY <1>1, <2>1, <2>2, Numbers DEF TypeOK, OtpRows
<1>3. LocksAreHeld /\ RowIsCurrent /\ CodesInHand /\ UnsentCodes
  BY <1>1 DEF LocksAreHeld, RowIsCurrent, CodesInHand, UnsentCodes, Verifies
<1>4. LocksAfterFailedAttempts /\ AdmitsOnce /\ SessionsAreOpened
  BY Numbers DEF LocksAfterFailedAttempts, AdmitsOnce, SessionsAreOpened
<1>5. QED BY <1>1, <1>2, <1>3, <1>4 DEF IInv
-----------------------------------------------------------------------------
\* What the invariant says of codes, and of sessions: a step that touches one
\* of the two only has to keep that one.
CodeInv == /\ LocksAreHeld /\ RowIsCurrent /\ CodesInHand /\ UnsentCodes
           /\ LocksAfterFailedAttempts /\ \A c \in Codes : admitted[c] <= 1

SessionInv == /\ SessionsAreOpened
              /\ \A s, t \in sessions : s.challenge # 0 /\ s.challenge = t.challenge => s = t

LEMMA IInvParts == IInv <=> TypeOK /\ job \in [Workers -> Jobs] /\ CodeInv /\ SessionInv
BY DEF IInv, CodeInv, SessionInv, AdmitsOnce

\* Sending a code, by itself or within an administrator's login.
LEMMA BeginSendStep ==
    ASSUME IInv, NEW w \in Workers, NEW kind \in {"send", "login"}, BeginSend(w, kind)
    PROVE  IInv'
<1> DEFINE j == [kind |-> kind, at |-> clock]
<1>1. /\ job[w] = Idle /\ otpLock = Nobody /\ otpLock' = w
      /\ job' = [job EXCEPT ![w] = j] /\ UNCHANGED <<rows, userLock, history>>
  BY DEF BeginSend, TakeOtpRow
<1>2. /\ job' \in [Workers -> Jobs] /\ job'[w].kind = kind
      /\ \A v \in Workers \ {w} : job'[v] = job[v]
  BY <1>1, JobEffect DEF Jobs, IInv, TypeOK
<1>3. TypeOK'
  BY <1>1, <1>2, JobFacts DEF IInv, TypeOK, rows, history
<1>4. \A v \in Workers : \A c : Verifies(v, c)' => Verifies(v, c)
  BY <1>2 DEF Verifies
<1>5. CodeInv'
  <2>1. LocksAreHeld'
    BY <1>1, <1>2, Numbers DEF IInv, LocksAreHeld, rows
  <2>2. RowIsCurrent'
    BY <1>1, <1>4 DEF IInv, RowIsCurrent, rows, history
  <2>3. CodesInHand'
    BY <1>1, <1>2 DEF IInv, CodesInHand, Verifies, history
  <2>4. QED BY <1>1, <2>1, <2>2, <2>3, IInvParts DEF CodeInv, UnsentCodes, LocksAfterFailedAttempts, history
<1>6. SessionInv'
  BY <1>1, IInvParts DEF SessionInv, SessionsAreOpened, rows
<1>7. (IInv <=> TypeOK /\ job \in [Workers -> Jobs] /\ CodeInv /\ SessionInv)'
  BY IInvParts, PTL
<1>8. QED BY <1>2, <1>3, <1>5, <1>6, <1>7

\* The end of a request that leaves the codes alone.
LEMMA EndStep ==
    ASSUME IInv, NEW w \in Workers, End(w), UNCHANGED <<otp, mfa, history>>,
           user' \in {NoRow} \cup Users, SessionInv',
           sessions' \subseteq [mfa : BOOLEAN, code : 0..MaxCodes, challenge : 0..Len(mfa)]
    PROVE  IInv'
<1> USE DEF history
<1>1. job' \in [Workers -> Jobs]
  BY EndEffect DEF IInv
<1>2. TypeOK'
  BY EndEffect, JobFacts DEF IInv, TypeOK, Users
<1>3. CodeInv'
  <2>1. LocksAreHeld'
    BY EndEffect DEF IInv, LocksAreHeld
  <2>2. RowIsCurrent'
    BY EndEffect DEF IInv, RowIsCurrent
  <2>3. CodesInHand'
    BY EndEffect DEF IInv, CodesInHand
  <2>4. QED BY <2>1, <2>2, <2>3, IInvParts DEF CodeInv, UnsentCodes, LocksAfterFailedAttempts
<1>4. (IInv <=> TypeOK /\ job \in [Workers -> Jobs] /\ CodeInv /\ SessionInv)'
  BY IInvParts, PTL
<1>5. QED BY <1>1, <1>2, <1>3, <1>4

LEMMA IInvNext == (IInv <=> TypeOK /\ job \in [Workers -> Jobs] /\ CodeInv /\ SessionInv)'
BY IInvParts, PTL

\* The provider took the code: a code by itself is stored, one for an
\* administrator waits for its challenge.
LEMMA DeliverStep ==
    ASSUME IInv, NEW w \in Workers, Deliver(w)
    PROVE  IInv'
<1> DEFINE new == NewOtp(w, codes + 1)
<1>1. /\ job[w].kind \in {"send", "login"} /\ codes < MaxCodes /\ codes' = codes + 1
      /\ UNCHANGED <<user, mfa, sessions, clock, failed, admitted>>
  BY DEF Deliver
<1>2. TypeOK /\ job \in [Workers -> Jobs] /\ codes \in Nat /\ codes + 1 \in Codes
  BY <1>1, Numbers DEF IInv, TypeOK, Codes
<1>3. /\ new \in OtpRow /\ new.code = codes + 1 /\ new.attempts = 0 /\ ~new.consumed
  <2>1. job[w].at + Expiry \in 0..MaxTime + Expiry /\ job[w].at \in 0..MaxTime
    BY <1>1, <1>2, JobFacts, Numbers
  <2>2. QED BY <1>2, <2>1, Numbers DEF NewOtp, OtpRow
<1>4. /\ failed[codes + 1] = 0 /\ admitted[codes + 1] = 0
      /\ \A v \in Workers : ~Verifies(v, codes + 1)
      /\ otp # NoRow => otp.code <= codes
  BY <1>2 DEF IInv, UnsentCodes, CodesInHand, RowIsCurrent
<1>5. SessionInv'
  BY <1>1, IInvParts DEF SessionInv, SessionsAreOpened
<1>6. UnsentCodes' /\ LocksAfterFailedAttempts' /\ \A c \in Codes : admitted'[c] <= 1
  BY <1>1, <1>2, Numbers DEF IInv, UnsentCodes, LocksAfterFailedAttempts, AdmitsOnce
<1> HIDE DEF new
<1>7. /\ \A c \in Codes : c <= codes => c <= codes + 1
      /\ \A v \in Workers : job[v].kind = "challenge" => job[v].otp.code \in Codes
  <2>1. \A o \in OtpRow : o.code \in Codes
    BY DEF OtpRow
  <2>2. QED BY <1>2, <2>1, JobFacts, Numbers
<1>8. CASE job[w].kind = "send"
  <2>1. otp' = new /\ End(w)
    BY <1>8 DEF Deliver, new
  <2>2. TypeOK'
    <3>1. otp' \in OtpRows
      BY <1>3, <2>1 DEF OtpRows, OtpRow
    <3>2. codes' \in 0..MaxCodes
      BY <1>1, <1>2, Numbers DEF Codes
    <3>3. QED BY <1>1, <1>2, <2>1, <3>1, <3>2, EndEffect, JobFacts DEF TypeOK
  <2>3. LocksAreHeld'
    BY <1>1, <2>1, EndEffect DEF IInv, LocksAreHeld
  <2>4. RowIsCurrent'
    BY <1>1, <1>2, <1>3, <1>4, <2>1, EndEffect DEF RowIsCurrent, IInv
  <2>5. CodesInHand'
    <3>1. \A v \in Workers : job'[v].kind = "challenge" => v # w /\ job'[v] = job[v]
      BY <2>1, EndEffect DEF IInv
    <3>2. \A v \in Workers : \A c : Verifies(v, c)' => Verifies(v, c)
      BY <1>2, <2>1, EndEffect
    <3>3. QED BY <1>1, <1>2, <1>7, <3>1, <3>2 DEF IInv, CodesInHand
  <2>6. QED BY <1>2, <1>5, <1>6, <2>1, <2>2, <2>3, <2>4, <2>5, EndEffect, IInvNext DEF CodeInv
<1>9. CASE job[w].kind # "send"
  <2> DEFINE j == [kind |-> "challenge", otp |-> new]
  <2>1. job' = [job EXCEPT ![w] = j] /\ UNCHANGED <<otp, otpLock, userLock>>
    BY <1>9 DEF Deliver, new
  <2>2. j \in Jobs
    BY <1>3 DEF Jobs
  <2>3. /\ job' \in [Workers -> Jobs] /\ job'[w].kind = "challenge" /\ job'[w].otp = new
        /\ \A v \in Workers \ {w} : job'[v] = job[v]
    BY <1>2, <2>1, <2>2, JobEffect
  <2>4. \A v \in Workers : \A c : Verifies(v, c)' <=> Verifies(v, c)
    BY <1>1, <2>3 DEF Verifies
  <2>5. TypeOK'
    BY <1>1, <1>2, <2>1, <2>3, JobFacts, Numbers DEF TypeOK
  <2>6. LocksAreHeld'
    BY <1>1, <2>1, <2>3 DEF IInv, LocksAreHeld
  <2>7. RowIsCurrent'
    BY <1>1, <1>2, <2>1, <2>4, OtpFacts DEF RowIsCurrent, IInv
  <2>8. CodesInHand'
    <3>1. \A v \in Workers \ {w} : job'[v].kind = "challenge" =>
             LET c == job'[v].otp.code IN
             /\ c <= codes + 1 /\ admitted[c] = 0 /\ failed[c] = 0
             /\ \A u \in Workers : ~Verifies(u, c)
      BY <1>2, <1>7, <2>3 DEF IInv, CodesInHand
    <3>2. \A v \in Workers, c \in Codes : Verifies(v, c) =>
             /\ c <= codes + 1 /\ admitted[c] = 0 /\ failed[c] < MaxAttempts
             /\ \A u \in Workers : Verifies(u, c) => u = v
      BY <1>2, <1>7 DEF IInv, CodesInHand
    <3>3. codes + 1 <= codes + 1
      BY <1>2
    <3>4. QED BY <1>1, <1>3, <1>4, <2>3, <2>4, <3>1, <3>2, <3>3 DEF CodesInHand
  <2>9. QED BY <1>5, <1>6, <2>3, <2>5, <2>6, <2>7, <2>8, IInvNext DEF CodeInv
<1>10. QED BY <1>8, <1>9

\* The challenges that are left of an account after it has got a new one.
LEMMA ChallengesAfter ==
    ASSUME TypeOK, NEW new \in Challenge,
           mfa' = Append([i \in DOMAIN mfa |-> Superseded(i)], new)
    PROVE  /\ mfa' \in Seq(Challenge) /\ Len(mfa') = Len(mfa) + 1 /\ Len(mfa) \in Nat
           /\ DOMAIN mfa = 1..Len(mfa) /\ DOMAIN mfa' = 1..Len(mfa) + 1
           /\ \A i \in DOMAIN mfa : mfa'[i].consumed
<1> DEFINE old == [i \in DOMAIN mfa |-> Superseded(i)]
<1>1. /\ Len(mfa) \in Nat /\ DOMAIN mfa = 1..Len(mfa)
      /\ \A i \in DOMAIN mfa : mfa[i] \in Challenge
  <2>1. mfa \in Seq(Challenge)
    BY DEF TypeOK, Challenge
  <2> HIDE DEF Challenge
  <2>2. QED BY <2>1, LenProperties, ElementOfSeq
<1>2. \A c \in Challenge : LET ended == [c EXCEPT !.consumed = TRUE]
                           IN ended \in Challenge /\ ended.consumed = TRUE
  BY DEF Challenge
<1>3. \A i \in 1..Len(mfa) : Superseded(i) \in Challenge /\ Superseded(i).consumed
  BY <1>1, <1>2 DEF Superseded
<1>4. old \in Seq(Challenge) /\ Len(old) = Len(mfa)
  BY <1>1, <1>3, IsASeq, LenProperties
<1>5. \A i \in 1..Len(mfa) : old[i].consumed
  BY <1>1, <1>3
<1> HIDE DEF old
<1>6. mfa' = Append(old, new)
  BY DEF old
<1>7. QED BY <1>1, <1>4, <1>5, <1>6, AppendProperties, LenProperties

\* The new challenge and its code are stored, in place of those before.
LEMMA CreateChallengeStep ==
    ASSUME IInv, NEW w \in Workers, CreateChallenge(w)
    PROVE  IInv'
<1> DEFINE new == [expires |-> clock + MfaTtl, consumed |-> FALSE]
<1>1. /\ job[w].kind = "challenge" /\ userLock = Nobody
      /\ mfa' = Append([i \in DOMAIN mfa |-> Superseded(i)], new)
      /\ otp' = job[w].otp /\ End(w) /\ UNCHANGED <<user, sessions, clock, codes, failed, admitted>>
  BY DEF CreateChallenge, history
<1>2. TypeOK /\ job \in [Workers -> Jobs] /\ job[w].otp \in OtpRow
  BY <1>1, JobFacts DEF IInv
<1>3. /\ job[w].otp.code \in Codes /\ job[w].otp.attempts \in Nat
  BY <1>2, Numbers DEF OtpRow
<1>4. new \in Challenge
  BY <1>2, Numbers DEF Challenge, TypeOK
<1> HIDE DEF new
<1>5. /\ mfa' \in Seq(Challenge) /\ Len(mfa') = Len(mfa) + 1 /\ Len(mfa) \in Nat
      /\ DOMAIN mfa = 1..Len(mfa) /\ \A i \in DOMAIN mfa : mfa'[i].consumed
  BY <1>1, <1>2, <1>4, ChallengesAfter
<1>6. TypeOK'
  <2>1. sessions' \subseteq [mfa : BOOLEAN, code : 0..MaxCodes, challenge : 0..Len(mfa')]
    BY <1>1, <1>2, <1>5 DEF TypeOK
  <2>2. otp' \in OtpRows
    BY <1>1, <1>2 DEF OtpRows, OtpRow
  <2>3. QED BY <1>1, <1>2, <1>5, <2>1, <2>2, EndEffect, JobFacts DEF TypeOK, Challenge
<1>7. SessionInv'
  <2>1. \A s \in sessions : s.challenge # 0 => s.challenge \in DOMAIN mfa
    BY <1>2, <1>5 DEF TypeOK
  <2>2. QED BY <1>1, <1>5, <2>1, IInvParts DEF SessionInv, SessionsAreOpened
<1>8. CodeInv'
  <2>1. LocksAreHeld'
    <3>1. \A v \in Workers : job'[v].kind = "mfa" => FALSE
      BY <1>1, <1>2, EndEffect, Numbers DEF IInv, LocksAreHeld
    <3>2. QED BY <1>1, <1>2, <3>1, EndEffect DEF IInv, LocksAreHeld
  <2>2. RowIsCurrent'
    BY <1>1, <1>2, <1>3, EndEffect DEF IInv, CodesInHand, RowIsCurrent
  <2>3. CodesInHand'
    BY <1>1, <1>2, EndEffect DEF IInv, CodesInHand
  <2>4. QED BY <1>1, <2>1, <2>2, <2>3, IInvParts DEF CodeInv, UnsentCodes, LocksAfterFailedAttempts
<1>9. QED BY <1>1, <1>2, <1>6, <1>7, <1>8, EndEffect, IInvNext

\* A right code is consumed by the request that verified it.
LEMMA VerifyOtpStep ==
    ASSUME IInv, NEW w \in Workers, NEW guess, VerifyOtp(w, guess)
    PROVE  IInv'
<1> DEFINE j == [kind |-> "verified", code |-> guess]
<1>1. /\ job[w] = Idle /\ Judged /\ guess = otp.code /\ otp' = Verified(guess)
      /\ job' = [job EXCEPT ![w] = j]
      /\ UNCHANGED <<user, mfa, sessions, otpLock, userLock, clock, codes, failed, admitted>>
  BY DEF VerifyOtp, Valid, history
<1>2. /\ TypeOK /\ job \in [Workers -> Jobs] /\ otp # NoRow /\ ~otp.consumed
      /\ otp.attempts < MaxAttempts /\ otp.attempts \in Nat /\ guess \in Codes /\ guess \in Nat
      /\ failed[guess] \in Nat
  BY <1>1, OtpFacts, Numbers DEF IInv
<1>3. /\ otp' \in OtpRow /\ otp'.code = guess /\ otp'.attempts = otp.attempts + 1 /\ otp'.consumed
  BY <1>1, <1>2, VerifiedFacts
<1>4. /\ guess <= codes /\ failed[guess] <= otp.attempts /\ admitted[guess] = 0
      /\ \A v \in Workers : ~Verifies(v, guess)
  BY <1>1, <1>2 DEF IInv, RowIsCurrent
<1>5. j \in Jobs
  BY <1>2 DEF Jobs, Codes
<1>6. /\ job' \in [Workers -> Jobs] /\ job'[w].kind = "verified" /\ job'[w].code = guess
      /\ \A v \in Workers \ {w} : job'[v] = job[v]
  BY <1>1, <1>2, <1>5, JobEffect
<1>7. \A v \in Workers : \A c : Verifies(v, c)' <=> Verifies(v, c) \/ (v = w /\ c = guess)
  BY <1>1, <1>2, <1>6, JobFacts DEF Verifies
<1>8. TypeOK'
  <2>1. otp' \in OtpRows
    BY <1>3 DEF OtpRows, OtpRow
  <2>2. QED BY <1>1, <1>2, <1>6, <2>1, JobFacts DEF TypeOK
<1>9. SessionInv'
  BY <1>1, IInvParts DEF SessionInv, SessionsAreOpened
<1>10. CodeInv'
  <2>1. LocksAreHeld'
    BY <1>1, <1>6 DEF IInv, LocksAreHeld
  <2>2. RowIsCurrent'
    BY <1>1, <1>2, <1>3, <1>4 DEF RowIsCurrent
  <2>3. CodesInHand'
    <3>1. \A v \in Workers : job'[v].kind = "challenge" =>
             job[v].kind = "challenge" /\ job'[v].otp = job[v].otp /\ otpLock = v
      BY <1>6 DEF IInv, LocksAreHeld
    <3>2. \A v \in Workers : job'[v].kind # "challenge"
      BY <3>1, Numbers DEF VerifyOtp
    <3>3. failed[guess] < MaxAttempts
      BY <1>2, <1>4, Numbers
    <3>4. QED BY <1>1, <1>4, <1>7, <3>2, <3>3 DEF IInv, CodesInHand
  <2>4. QED BY <1>1, <2>1, <2>2, <2>3, IInvParts DEF CodeInv, UnsentCodes, LocksAfterFailedAttempts
<1>11. QED BY <1>6, <1>8, <1>9, <1>10, IInvNext

\* A wrong code is counted against the code of the row, if that one is judged at all.
LEMMA RejectOtpStep ==
    ASSUME IInv, NEW guess, RejectOtp(guess)
    PROVE  IInv'
<1>1. /\ otpLock = Nobody /\ ~Valid(guess) /\ otp' = RejectedRow(guess)
      /\ UNCHANGED <<user, mfa, sessions, otpLock, userLock, job, clock, codes, admitted>>
  BY DEF RejectOtp
<1>2. TypeOK /\ job \in [Workers -> Jobs]
  BY DEF IInv
<1>3. SessionInv'
  BY <1>1, IInvParts DEF SessionInv, SessionsAreOpened
<1>4. \A v \in Workers : \A c : Verifies(v, c)' <=> Verifies(v, c)
  BY <1>1 DEF Verifies
<1>5. LocksAreHeld'
  BY <1>1 DEF IInv, LocksAreHeld
<1>6. CASE ~Judged
  <2>1. UNCHANGED <<otp, failed>>
    BY <1>1, <1>6 DEF RejectOtp, RejectedRow
  <2>2. TypeOK'
    BY <1>1, <1>2, <2>1 DEF TypeOK
  <2>3. CodeInv'
    BY <1>1, <1>4, <1>5, <2>1, IInvParts DEF CodeInv, RowIsCurrent, CodesInHand, UnsentCodes,
       LocksAfterFailedAttempts
  <2>4. QED BY <1>1, <1>2, <1>3, <2>2, <2>3, IInvNext
<1>7. CASE Judged
  <2> DEFINE code == otp.code
  <2>1. /\ otp' = Verified(guess) /\ failed' = [failed EXCEPT ![code] = failed[code] + 1]
        /\ guess # code
    BY <1>1, <1>7 DEF RejectOtp, RejectedRow, Valid
  <2>2. /\ otp # NoRow /\ ~otp.consumed /\ otp.attempts < MaxAttempts /\ otp.attempts \in Nat
        /\ code \in Codes /\ failed[code] \in Nat
    BY <1>2, <1>7, OtpFacts
  <2>3. /\ otp' \in OtpRow /\ otp'.code = code /\ otp'.attempts = otp.attempts + 1
        /\ ~otp'.consumed
    BY <1>2, <1>7, <2>1, VerifiedFacts
  <2>4. /\ code <= codes /\ failed[code] <= otp.attempts /\ admitted[code] = 0
        /\ \A v \in Workers : ~Verifies(v, code)
    BY <2>2 DEF IInv, RowIsCurrent
  <2>5. /\ failed' \in [Codes -> Nat] /\ failed'[code] = failed[code] + 1
        /\ \A c \in Codes \ {code} : failed'[c] = failed[c]
    BY <1>2, <2>1, <2>2 DEF TypeOK
  <2>6. failed'[code] <= otp'.attempts /\ failed'[code] <= MaxAttempts
    BY <2>2, <2>3, <2>4, <2>5, Numbers
  <2>7. TypeOK'
    <3>1. otp' \in OtpRows
      BY <2>3 DEF OtpRows, OtpRow
    <3>2. QED BY <1>1, <1>2, <2>5, <3>1 DEF TypeOK
  <2>8. RowIsCurrent'
    BY <1>1, <1>4, <2>3, <2>4, <2>6 DEF RowIsCurrent
  <2>9. CodesInHand'
    <3>1. \A v \in Workers : job[v].kind # "challenge"
      BY <1>1, Numbers DEF IInv, LocksAreHeld
    <3>2. \A v \in Workers, c \in Codes : Verifies(v, c) => failed'[c] = failed[c]
      BY <2>4, <2>5
    <3>3. QED BY <1>1, <1>4, <3>1, <3>2 DEF IInv, CodesInHand
  <2>10. UnsentCodes'
    <3>1. codes \in Nat /\ code \in Nat
      BY <1>2, <2>2, Numbers DEF TypeOK
    <3>2. QED BY <1>1, <2>4, <2>5, <3>1 DEF IInv, UnsentCodes
  <2>11. LocksAfterFailedAttempts'
    BY <1>1, <2>4, <2>5, <2>6 DEF IInv, LocksAfterFailedAttempts
  <2>12. CodeInv'
    BY <1>1, <1>5, <2>8, <2>9, <2>10, <2>11, IInvParts DEF CodeInv
  <2>13. QED BY <1>1, <1>2, <1>3, <2>7, <2>12, IInvNext
<1>8. QED BY <1>6, <1>7

\* A session that no challenge opened, with or without a code, opened without a claim
\* to have passed one.
LEMMA PlainSession ==
    ASSUME IInv, NEW code \in 0..MaxCodes, LoginResult(FALSE, code, 0), UNCHANGED mfa
    PROVE  /\ SessionInv'
           /\ sessions' \subseteq [mfa : BOOLEAN, code : 0..MaxCodes, challenge : 0..Len(mfa')]
           /\ admitted' \in [Codes -> Nat]
           /\ \A c \in Codes : admitted'[c] = IF c = code THEN admitted[c] + 1 ELSE admitted[c]
<1> DEFINE new == Session(FALSE, code, 0)
<1>1. /\ sessions' = sessions \cup {new} /\ new.challenge = 0 /\ new.mfa = FALSE
      /\ admitted' = IF code = 0 THEN admitted ELSE [admitted EXCEPT ![code] = admitted[code] + 1]
  BY DEF LoginResult, Session
<1>2. Len(mfa) \in Nat
  BY LenProperties DEF IInv, TypeOK
<1>3. new \in [mfa : BOOLEAN, code : 0..MaxCodes, challenge : 0..Len(mfa)]
  BY <1>2 DEF Session
<1>4. admitted \in [Codes -> Nat] /\ code # 0 => code \in Codes
  BY DEF IInv, TypeOK, Codes
<1> HIDE DEF new
<1>5. SessionInv'
  BY <1>1, IInvParts DEF SessionInv, SessionsAreOpened
<1>6. QED BY <1>1, <1>3, <1>4, <1>5, Numbers DEF IInv, TypeOK

\* The owner of a verified number is logged in, once for the code.
LEMMA AuthenticateVerifiedPhoneStep ==
    ASSUME IInv, NEW w \in Workers, AuthenticateVerifiedPhone(w)
    PROVE  IInv'
<1> DEFINE code == job[w].code
<1>1. /\ job[w].kind = "verified" /\ LoginResult(FALSE, code, 0) /\ End(w)
      /\ user' = IF user = NoRow THEN NewCustomer(FALSE) ELSE user
      /\ UNCHANGED <<otp, mfa, clock, codes, failed>>
  BY DEF AuthenticateVerifiedPhone
<1>2. TypeOK /\ job \in [Workers -> Jobs] /\ code \in 0..MaxCodes
  BY <1>1, JobFacts DEF IInv
<1>3. /\ SessionInv'
      /\ sessions' \subseteq [mfa : BOOLEAN, code : 0..MaxCodes, challenge : 0..Len(mfa')]
      /\ admitted' \in [Codes -> Nat]
      /\ \A c \in Codes : admitted'[c] = IF c = code THEN admitted[c] + 1 ELSE admitted[c]
  BY <1>1, <1>2, PlainSession
<1>4. user' \in {NoRow} \cup [role : Roles, active : BOOLEAN, password : BOOLEAN]
  BY <1>1, <1>2 DEF TypeOK, NewCustomer, Roles
<1>5. TypeOK'
  <2>1. \A v \in Workers :
           /\ otpLock' = v => job'[v].kind \in {"send", "login", "challenge"}
           /\ userLock' = v => job'[v].kind = "mfa"
    BY <1>1, <1>2, EndEffect DEF TypeOK
  <2>2. QED BY <1>1, <1>2, <1>3, <1>4, <2>1 DEF TypeOK
<1>6. code \in Codes => /\ Verifies(w, code) /\ code <= codes /\ admitted[code] = 0
                        /\ failed[code] < MaxAttempts
                        /\ \A v \in Workers : Verifies(v, code) => v = w
  BY <1>1 DEF IInv, CodesInHand, Verifies
<1>7. CodeInv'
  <2>1. LocksAreHeld'
    BY <1>1, <1>2, EndEffect DEF IInv, LocksAreHeld
  <2>2. RowIsCurrent'
    <3>1. otp # NoRow /\ ~otp.consumed => otp.code \in Codes /\ otp.code # code
      BY <1>2, <1>6, OtpFacts DEF IInv, RowIsCurrent
    <3>2. QED BY <1>1, <1>2, <1>3, <3>1, EndEffect DEF IInv, RowIsCurrent
  <2>3. CodesInHand'
    <3>1. \A v \in Workers : job[v].kind = "challenge" => job[v].otp.code \in Codes /\ job[v].otp.code # code
      <4>1. \A o \in OtpRow : o.code \in Codes
        BY DEF OtpRow
      <4>2. QED BY <1>2, <1>6, <4>1, JobFacts DEF IInv, CodesInHand
    <3>2. \A v \in Workers \ {w}, c \in Codes : Verifies(v, c) => c # code
      BY <1>6
    <3>3. QED BY <1>1, <1>2, <1>3, <3>1, <3>2, EndEffect DEF IInv, CodesInHand
  <2>4. UnsentCodes'
    <3>1. \A c \in Codes : c > codes => c # code
      BY <1>2, <1>6, Numbers DEF TypeOK
    <3>2. QED BY <1>1, <1>3, <3>1 DEF IInv, UnsentCodes
  <2>5. LocksAfterFailedAttempts' /\ \A c \in Codes : admitted'[c] <= 1
    BY <1>1, <1>3, <1>6 DEF IInv, LocksAfterFailedAttempts, AdmitsOnce
  <2>6. QED BY <2>1, <2>2, <2>3, <2>4, <2>5 DEF CodeInv
<1>8. QED BY <1>1, <1>2, <1>3, <1>5, <1>7, EndEffect, IInvNext

\* A request that begins without a code or a lock.
LEMMA QuietJob ==
    ASSUME IInv, NEW w \in Workers, job[w] = Idle, NEW j \in Jobs, job' = [job EXCEPT ![w] = j],
           j.kind = "register" \/ (j.kind = "verified" /\ j.code = 0),
           UNCHANGED <<rows, otpLock, userLock, history>>
    PROVE  IInv'
<1> USE DEF rows, history
<1>1. /\ job' \in [Workers -> Jobs] /\ job'[w] = j
      /\ \A v \in Workers \ {w} : job'[v] = job[v]
  BY JobEffect DEF IInv
<1>2. job[w].kind = "idle"
  BY DEF Idle
<1>3. \A v \in Workers, c \in Codes : Verifies(v, c)' <=> Verifies(v, c)
  BY <1>1, <1>2, Numbers DEF Verifies
<1>4. TypeOK'
  BY <1>1, <1>2 DEF IInv, TypeOK
<1>5. LocksAreHeld'
  BY <1>1 DEF IInv, LocksAreHeld
<1>6. RowIsCurrent'
  BY <1>3, OtpFacts DEF IInv, RowIsCurrent
<1>7. CodesInHand'
  <2>1. \A o \in OtpRow : o.code \in Codes
    BY DEF OtpRow
  <2>2. \A v \in Workers : job'[v].kind = "challenge" =>
           job[v].kind = "challenge" /\ job'[v].otp = job[v].otp /\ job[v].otp.code \in Codes
    BY <1>1, <2>1, JobFacts DEF IInv
  <2>3. QED BY <1>3, <2>2 DEF IInv, CodesInHand
<1>8. CodeInv' /\ SessionInv'
  BY <1>5, <1>6, <1>7, IInvParts DEF CodeInv, UnsentCodes, LocksAfterFailedAttempts,
     SessionInv, SessionsAreOpened
<1>9. QED BY <1>1, <1>4, <1>8, IInvNext

\* A challenge and its account are locked while the code is judged.
LEMMA BeginMfaStep ==
    ASSUME IInv, NEW w \in Workers, NEW i \in DOMAIN mfa, BeginMfa(w, i)
    PROVE  IInv'
<1> DEFINE j == [kind |-> "mfa", challenge |-> i]
<1>1. /\ job[w] = Idle /\ userLock = Nobody /\ userLock' = w /\ ~mfa[i].consumed
      /\ job' = [job EXCEPT ![w] = j] /\ UNCHANGED <<rows, otpLock, history>>
  BY DEF BeginMfa
<1>2. job \in [Workers -> Jobs] /\ i \in Nat
  BY LenProperties DEF IInv, TypeOK
<1>3. /\ job' \in [Workers -> Jobs] /\ job'[w].kind = "mfa" /\ job'[w].challenge = i
      /\ \A v \in Workers \ {w} : job'[v] = job[v]
  BY <1>1, <1>2, JobEffect DEF Jobs
<1>4. job[w].kind = "idle"
  BY <1>1 DEF Idle
<1>5. \A v \in Workers : \A c : Verifies(v, c)' <=> Verifies(v, c)
  BY <1>3, <1>4 DEF Verifies
<1> USE DEF rows, history
<1>6. TypeOK'
  BY <1>1, <1>3, <1>4, Numbers DEF IInv, TypeOK
<1>7. LocksAreHeld'
  BY <1>1, <1>3, Numbers DEF IInv, LocksAreHeld
<1>8. RowIsCurrent'
  BY <1>1, <1>5 DEF IInv, RowIsCurrent
<1>9. CodesInHand'
  BY <1>1, <1>3, <1>5 DEF IInv, CodesInHand
<1>10. CodeInv' /\ SessionInv'
  BY <1>1, <1>7, <1>8, <1>9, IInvParts DEF CodeInv, UnsentCodes, LocksAfterFailedAttempts,
     SessionInv, SessionsAreOpened
<1>11. QED BY <1>3, <1>6, <1>10, IInvNext

\* The administrator's code and challenge are consumed together, and open one session.
LEMMA CompleteMfaStep ==
    ASSUME IInv, NEW w \in Workers, CompleteMfa(w)
    PROVE  IInv'
<1> DEFINE code == otp.code
           i == job[w].challenge
           new == Session(TRUE, code, i)
<1>1. /\ job[w].kind = "mfa" /\ otpLock = Nobody /\ Judged /\ otp' = Verified(code)
      /\ ConsumeChallenge(i) /\ LoginResult(TRUE, code, i) /\ End(w)
      /\ UNCHANGED <<user, clock, codes, failed>>
  BY DEF CompleteMfa
<1>2. /\ TypeOK /\ job \in [Workers -> Jobs] /\ otp # NoRow /\ ~otp.consumed
      /\ otp.attempts < MaxAttempts /\ otp.attempts \in Nat /\ code \in Codes /\ code \in Nat
      /\ code # 0 /\ failed[code] \in Nat
  BY <1>1, OtpFacts, Numbers DEF IInv
<1>3. /\ otp' \in OtpRow /\ otp'.code = code /\ otp'.attempts = otp.attempts + 1 /\ otp'.consumed
  BY <1>1, <1>2, VerifiedFacts
<1>4. /\ code <= codes /\ failed[code] <= otp.attempts /\ admitted[code] = 0
      /\ \A v \in Workers : ~Verifies(v, code)
  BY <1>2 DEF IInv, RowIsCurrent
<1>5. /\ userLock = w /\ i \in DOMAIN mfa /\ ~mfa[i].consumed
      /\ \A v \in Workers : job[v].kind = "mfa" => v = w
      /\ \A v \in Workers : job[v].kind # "challenge"
  BY <1>1, Numbers DEF IInv, LocksAreHeld
<1>6. /\ mfa' \in Seq(Challenge) /\ Len(mfa') = Len(mfa) /\ Len(mfa) \in Nat
      /\ DOMAIN mfa = 1..Len(mfa) /\ DOMAIN mfa' = DOMAIN mfa /\ mfa'[i].consumed
      /\ \A k \in DOMAIN mfa \ {i} : mfa'[k] = mfa[k]
  <2>1. mfa \in Seq(Challenge)
    BY <1>2 DEF TypeOK, Challenge
  <2>2. mfa[i] \in Challenge /\ i \in 1..Len(mfa)
    BY <1>5, <2>1, ElementOfSeq, LenProperties
  <2> DEFINE ended == [mfa[i] EXCEPT !.consumed = TRUE]
  <2>3. ended \in Challenge /\ ended.consumed
    BY <2>2 DEF Challenge
  <2>4. mfa' = [mfa EXCEPT ![i] = ended]
    BY <1>1 DEF ConsumeChallenge
  <2> HIDE DEF ended
  <2>5. QED BY <1>5, <2>1, <2>2, <2>3, <2>4, ExceptSeq, LenProperties
<1>7. /\ sessions' = sessions \cup {new} /\ new.challenge = i /\ new.code = code
      /\ admitted' = [admitted EXCEPT ![code] = admitted[code] + 1]
  BY <1>1, <1>2 DEF LoginResult, Session
<1>8. /\ admitted' \in [Codes -> Nat] /\ admitted'[code] = 1
      /\ \A c \in Codes \ {code} : admitted'[c] = admitted[c]
  BY <1>2, <1>4, <1>7 DEF TypeOK
<1>9. new \in [mfa : BOOLEAN, code : 0..MaxCodes, challenge : 0..Len(mfa)]
  BY <1>2, <1>5, <1>6 DEF Session, Codes
<1> HIDE DEF new
<1>10. TypeOK'
  <2>1. \A v \in Workers :
           /\ otpLock' = v => job'[v].kind \in {"send", "login", "challenge"}
           /\ userLock' = v => job'[v].kind = "mfa"
    BY <1>1, <1>2, EndEffect DEF TypeOK
  <2>2. otp' \in OtpRows
    BY <1>3 DEF OtpRows, OtpRow
  <2>3. sessions' \subseteq [mfa : BOOLEAN, code : 0..MaxCodes, challenge : 0..Len(mfa')]
    BY <1>2, <1>6, <1>7, <1>9 DEF TypeOK
  <2>4. QED BY <1>1, <1>2, <1>6, <1>8, <2>1, <2>2, <2>3 DEF TypeOK, Challenge
<1>11. SessionInv'
  <2>1. \A s \in sessions : s.challenge # 0 => s.challenge # i /\ s.challenge \in DOMAIN mfa
    BY <1>2, <1>5, <1>6 DEF IInv, SessionsAreOpened, TypeOK
  <2>2. i # 0
    BY <1>5, <1>6
  <2>3. SessionsAreOpened'
    BY <1>2, <1>6, <1>7, <2>1, <2>2 DEF IInv, SessionsAreOpened
  <2>4. QED BY <1>7, <2>1, <2>2, <2>3, IInvParts DEF SessionInv
<1>12. CodeInv'
  <2>1. LocksAreHeld'
    BY <1>1, <1>2, <1>5, EndEffect DEF IInv, LocksAreHeld
  <2>2. RowIsCurrent'
    BY <1>1, <1>2, <1>3, <1>4 DEF RowIsCurrent
  <2>3. CodesInHand'
    <3>1. \A v \in Workers : job'[v].kind # "challenge"
      BY <1>1, <1>2, <1>5, EndEffect
    <3>2. \A v \in Workers, c \in Codes : Verifies(v, c)' => Verifies(v, c) /\ admitted'[c] = admitted[c]
      BY <1>1, <1>2, <1>4, <1>8, EndEffect
    <3>3. QED BY <1>1, <3>1, <3>2 DEF IInv, CodesInHand
  <2>4. UnsentCodes'
    <3>1. \A c \in Codes : c > codes => c # code
      BY <1>2, <1>4, Numbers DEF TypeOK
    <3>2. QED BY <1>1, <1>8, <3>1 DEF IInv, UnsentCodes
  <2>5. LocksAfterFailedAttempts' /\ \A c \in Codes : admitted'[c] <= 1
    BY <1>1, <1>2, <1>4, <1>8, Numbers DEF IInv, LocksAfterFailedAttempts, AdmitsOnce
  <2>6. QED BY <2>1, <2>2, <2>3, <2>4, <2>5 DEF CodeInv
<1>13. QED BY <1>1, <1>2, <1>10, <1>11, <1>12, EndEffect, IInvNext

\* A step outside the codes: the account, the sessions and the clock.
LEMMA AccountStep ==
    ASSUME IInv, UNCHANGED <<otp, mfa, codes, failed, admitted, otpLock, userLock, job>>,
           user' \in {NoRow} \cup Users, clock' \in 0..MaxTime,
           SessionInv', sessions' \subseteq [mfa : BOOLEAN, code : 0..MaxCodes, challenge : 0..Len(mfa)]
    PROVE  IInv'
<1>1. TypeOK'
  BY DEF IInv, TypeOK, Users
<1>2. \A v \in Workers : \A c : Verifies(v, c)' <=> Verifies(v, c)
  BY DEF Verifies
<1>3. CodeInv'
  BY <1>2, IInvParts DEF CodeInv, LocksAreHeld, RowIsCurrent, CodesInHand, UnsentCodes, LocksAfterFailedAttempts
<1>4. QED BY <1>1, <1>3, IInvNext DEF IInv

\* Registration, which ends every session of the account but its own.
LEMMA RegisterStep ==
    ASSUME IInv, NEW w \in Workers, Register(w)
    PROVE  IInv'
<1>1. /\ user' = NewCustomer(TRUE) /\ sessions' = {Session(FALSE, 0, 0)}
      /\ End(w) /\ UNCHANGED <<otp, mfa, history>>
  BY DEF Register
<1>2. user' \in Users
  BY <1>1 DEF NewCustomer, Users, Roles
<1>3. Len(mfa) \in Nat
  BY LenProperties DEF IInv, TypeOK
<1>4. sessions' \subseteq [mfa : BOOLEAN, code : 0..MaxCodes, challenge : 0..Len(mfa)]
  BY <1>1, <1>3, Numbers DEF Session
<1>5. SessionInv'
  BY <1>1 DEF SessionInv, SessionsAreOpened, Session
<1>6. QED BY <1>1, <1>2, <1>4, <1>5, EndStep

\* Logins without a code.
LEMMA CodelessStep ==
    ASSUME IInv, AuthenticateCustomerAccess \/ AuthenticateWithPassword
    PROVE  IInv'
<1>1. /\ user' \in {NoRow} \cup Users
      /\ UNCHANGED <<otp, mfa, codes, failed, otpLock, userLock, job, clock>>
  <2>1. user \in {NoRow} \cup Users /\ NewCustomer(FALSE) \in Users
    BY DEF IInv, TypeOK, NewCustomer, Users, Roles
  <2>2. CASE AuthenticateCustomerAccess
    BY <2>1, <2>2 DEF AuthenticateCustomerAccess
  <2>3. CASE AuthenticateWithPassword
    BY <2>1, <2>3 DEF AuthenticateWithPassword
  <2>4. QED BY <2>2, <2>3
<1>2. admitted' = admitted
  BY DEF AuthenticateCustomerAccess, AuthenticateWithPassword, LoginResult
<1>3. /\ SessionInv'
      /\ sessions' \subseteq [mfa : BOOLEAN, code : 0..MaxCodes, challenge : 0..Len(mfa')]
  <2>1. CASE LoginResult(FALSE, 0, 0)
    BY <1>1, <2>1, PlainSession, Numbers
  <2>2. CASE LoginResult(IsAdmin, 0, 0) /\ ~(IsAdmin /\ MfaEnabled)
    <3> DEFINE new == Session(IsAdmin, 0, 0)
    <3>1. /\ sessions' = sessions \cup {new} /\ new.challenge = 0 /\ new.mfa = IsAdmin
      BY <2>2 DEF LoginResult, Session
    <3>2. Len(mfa) \in Nat
      BY LenProperties DEF IInv, TypeOK
    <3>3. IsAdmin \in BOOLEAN
      BY DEF IsAdmin
    <3>4. new \in [mfa : BOOLEAN, code : 0..MaxCodes, challenge : 0..Len(mfa)]
      BY <3>2, <3>3, Numbers DEF Session
    <3>5. SessionInv'
      <4> HIDE DEF new
      <4>1. MfaEnabled => ~new.mfa
        BY <2>2, <3>1
      <4>2. QED BY <1>1, <3>1, <4>1, IInvParts DEF SessionInv, SessionsAreOpened
    <3>6. QED BY <1>1, <3>1, <3>4, <3>5 DEF IInv, TypeOK
  <2>3. QED BY <2>1, <2>2 DEF AuthenticateCustomerAccess, AuthenticateWithPassword
<1>4. clock \in 0..MaxTime
  BY DEF IInv, TypeOK
<1>5. QED BY <1>1, <1>2, <1>3, <1>4, AccountStep

\* Operators' changes of the account, logouts and the clock.
LEMMA OtherStep ==
    ASSUME IInv,
           \/ \E role \in Roles, active \in BOOLEAN : SetUser(role, active)
           \/ CreateStaff \/ EnsureSuperuser \/ Tick
           \/ \E s \in sessions : Logout(s)
    PROVE  IInv'
<1>1. UNCHANGED <<otp, mfa, codes, failed, admitted, otpLock, userLock, job>>
  BY DEF SetUser, CreateStaff, EnsureSuperuser, Tick, Logout, history, rows
<1>2. user' \in {NoRow} \cup Users
  <2>1. user \in {NoRow} \cup Users
    BY DEF IInv, TypeOK, Users
  <2>2. ASSUME NEW role \in Roles, NEW active \in BOOLEAN, SetUser(role, active)
        PROVE  user' \in Users
    <3>1. \A u \in Users : [u EXCEPT !.role = role, !.active = active] \in Users
      BY DEF Users
    <3>2. QED BY <2>1, <2>2, <3>1 DEF SetUser
  <2>3. ASSUME CreateStaff \/ EnsureSuperuser PROVE user' \in Users
    <3>1. [role |-> "ADMIN", active |-> TRUE, password |-> TRUE] \in Users
      BY DEF Users, Roles
    <3>2. QED BY <2>3, <3>1 DEF CreateStaff, EnsureSuperuser
  <2>4. QED BY <2>1, <2>2, <2>3 DEF Tick, Logout, rows
<1>3. clock' \in 0..MaxTime
  <2>1. clock \in 0..MaxTime
    BY DEF IInv, TypeOK
  <2>2. clock' = clock \/ (clock < MaxTime /\ clock' = clock + 1)
    BY DEF SetUser, CreateStaff, EnsureSuperuser, Tick, Logout, history
  <2>3. QED BY <2>1, <2>2, Numbers
<1>4. sessions' \subseteq sessions
  BY DEF SetUser, CreateStaff, EnsureSuperuser, Tick, Logout, rows
<1>5. SessionInv'
  BY <1>1, <1>4, IInvParts DEF SessionInv, SessionsAreOpened
<1>6. sessions' \subseteq [mfa : BOOLEAN, code : 0..MaxCodes, challenge : 0..Len(mfa)]
  BY <1>4 DEF IInv, TypeOK
<1>7. QED BY <1>1, <1>2, <1>3, <1>5, <1>6, AccountStep
-----------------------------------------------------------------------------
LEMMA StepIInv == IInv /\ [Next]_vars => IInv'
<1> SUFFICES ASSUME IInv, [Next]_vars PROVE IInv'
  OBVIOUS
<1>1. /\ user \in {NoRow} \cup Users /\ clock \in 0..MaxTime
      /\ sessions \subseteq [mfa : BOOLEAN, code : 0..MaxCodes, challenge : 0..Len(mfa)]
  BY DEF IInv, TypeOK, Users
<1>2. UNCHANGED <<mfa, sessions>> => SessionInv'
  BY IInvParts DEF SessionInv, SessionsAreOpened
<1>3. CASE UNCHANGED vars
  BY <1>1, <1>2, <1>3, AccountStep DEF vars, rows, history
<1>4. ASSUME NEW w \in Workers, Step(w) PROVE IInv'
  <2>1. ASSUME Rollback(w) PROVE IInv'
    BY <1>1, <1>2, <2>1, EndStep DEF Rollback, rows
  <2>2. ASSUME SendLoginOtp(w) \/ StartAdminLogin(w) PROVE IInv'
    BY <2>2, BeginSendStep DEF SendLoginOtp, StartAdminLogin
  <2>3. ASSUME AuthenticateWithFirebase(w) PROVE IInv'
    <3>1. [kind |-> "verified", code |-> 0] \in Jobs
      BY Numbers DEF Jobs
    <3>2. QED BY <2>3, <3>1, QuietJob DEF AuthenticateWithFirebase
  <2>4. ASSUME BeginRegistration(w) PROVE IInv'
    <3>1. [kind |-> "register", seen |-> user] \in Jobs
      BY <1>1 DEF Jobs
    <3>2. QED BY <2>4, <3>1, QuietJob DEF BeginRegistration
  <2>5. QED
    BY <1>4, <2>1, <2>2, <2>3, <2>4, DeliverStep, CreateChallengeStep, VerifyOtpStep,
       AuthenticateVerifiedPhoneStep, BeginMfaStep, CompleteMfaStep, RegisterStep DEF Step
<1>5. CASE Next
  BY <1>4, <1>5, RejectOtpStep, CodelessStep, OtherStep DEF Next
<1>6. QED BY <1>3, <1>5

LEMMA Invariance == Spec => []IInv
BY InitIInv, StepIInv, PTL DEF Spec

\* The rows, locks and sessions of an account stay within their types; a code's row never
\* counts more attempts than are allowed (LoginOtpChallenge.attempts).
THEOREM TypeCorrect == Spec => []TypeOK
<1>1. IInv => TypeOK
  BY DEF IInv
<1>2. QED BY <1>1, Invariance, PTL

\* verify_otp: however attempts and deliveries interleave, no code takes more wrong
\* attempts than are allowed, and one that took them all admits nobody.
THEOREM AttemptsAreLimited == Spec => []LocksAfterFailedAttempts
<1>1. IInv => LocksAfterFailedAttempts
  BY DEF IInv
<1>2. QED BY <1>1, Invariance, PTL

\* A code opens one session at most, for a customer or an administrator, and so does an
\* administrator's challenge (verify_otp, complete_admin_mfa).
THEOREM CodesAdmitOnce == Spec => []AdmitsOnce
<1>1. IInv => AdmitsOnce
  BY DEF IInv
<1>2. QED BY <1>1, Invariance, PTL

\* MfaEnforcedJWTAuthentication: with the second factor on, a session that acts for an
\* administrator came from a challenge and a code, also when the account was promoted
\* after the session began.
THEOREM AdministratorsHaveCodes == Spec => []AdministratorsPassedMfa
<1>1. IInv => AdministratorsPassedMfa
  BY DEF IInv, SessionsAreOpened, AdministratorsPassedMfa, Authenticates
<1>2. QED BY <1>1, Invariance, PTL
=============================================================================

--------------------------- MODULE TwoFactorProofs ---------------------------
(***************************************************************************)
(* Proofs about TwoFactor: an authenticator is on only with the secret     *)
(* that was confirmed, a challenge buys one session, and no backup code is *)
(* spent for nothing by calls that overlap.                                *)
(*                                                                         *)
(* A call works with the row it read. The invariant says what it may       *)
(* still rely on when it commits (Knows), that of one set-up at a time the *)
(* secret it read is the one stored (Orderly), which calls may hold a      *)
(* challenge or owe a session for it (Pays), and who holds a backup code   *)
(* that has bought nothing yet (Held).                                     *)
(***************************************************************************)
EXTENDS TwoFactor, TLAPS

\* What a call knows of the challenge and the backup code it works with.
Knows(h) ==
    LET j == job[h]
    IN /\ j.pc \in {"verify", "redeem", "issue"} =>
             j.challenge \in Challenges \cap issued
       /\ j.code # None => /\ j.pc \in {"disable", "redeem", "issue"}
                           /\ backup[j.code] = "used"
                           /\ bought[j.code] = [by |-> "pending",
                                                challenge |-> j.challenge]

\* As long as no two set-ups overlap, the one there is has read what is there,
\* and only an authenticator that is on has backup codes.
Orderly ==
    ~contested =>
        /\ \A g, h \in SettingUp : g = h
        /\ \A h \in SettingUp : job[h].pc \in {"begin", "confirm"} => ~enabled
        /\ \A h \in Handlers : job[h].pc = "confirm" => /\ job[h].secret # None
                                                        /\ job[h].secret = secret
        /\ ~enabled => \A c \in Codes : backup[c] # "unused"

\* A challenge is unused, owed for by one call, or paid: a session at most.
Pays(ch) ==
    LET Owes(h) == job[h].pc = "issue" /\ job[h].challenge = ch
    IN /\ \A g, h \in Handlers : Owes(g) /\ Owes(h) => g = h
       /\ ch \notin issued => challenge # ch
       /\ \/ sessions[ch] = 0
          \/ /\ sessions[ch] = 1 /\ ch \in issued /\ challenge # ch
             /\ \A h \in Handlers : ~Owes(h)
       /\ challenge = ch => \A h \in Handlers : ~Owes(h)

\* A backup code that has bought nothing yet is in the hands of one call, or
\* was spent on a challenge that is gone.
Held(c) ==
    /\ \A g, h \in Handlers : job[g].code = c /\ job[h].code = c => g = h
    /\ bought[c].by = "pending" /\ (\A h \in Handlers : job[h].code # c) =>
          /\ bought[c].challenge \in Challenges \cap issued
          /\ bought[c].challenge # challenge

Inv ==
    /\ TypeOK
    /\ \A h \in Handlers : Knows(h)
    /\ Orderly /\ FactorWasProven
    /\ \A ch \in Challenges : Pays(ch)
    /\ \A c \in Codes : Held(c)

-----------------------------------------------------------------------------
\* With no second factor, the invariant holds.
LEMMA InitInv == ASSUME NoneIsNoRow, Init PROVE Inv
  BY DEF Init, NoneIsNoRow, Inv, TypeOK, Knows, Orderly, FactorWasProven, Pays, Held,
         SettingUp, Job, Idle, Purchases

\* What a step does to the record of h alone.
OnlyJob(h) == \A g \in Handlers \ {h} : job'[g] = job[g]

\* A set-up that begins, of which there is no other or the two are contested.
LEMMA NewSetup ==
  ASSUME Inv, NEW h \in Handlers, Contest, OnlyJob(h),
         UNCHANGED <<secret, enabled, proven>>,
         \A c \in Codes : backup'[c] = "unused" => backup[c] = "unused",
         job'[h].pc \in {"begin", "confirm"} => ~enabled,
         job'[h].pc = "confirm" => job'[h].secret # None /\ job'[h].secret = secret
  PROVE  Orderly' /\ FactorWasProven'
<1>1. FactorWasProven'
  BY DEF Inv, FactorWasProven, Contest, TypeOK
<1> SUFFICES ASSUME ~contested' PROVE Orderly'
  BY <1>1 DEF Orderly
<1>2. SettingUp = {} /\ ~contested
  BY DEF Contest, Inv, TypeOK
<1>3. SettingUp' \subseteq {h}
  BY <1>2 DEF SettingUp, OnlyJob
<1>4. \A g \in Handlers : job'[g].pc = "confirm" => g = h
  BY <1>3 DEF SettingUp
<1>5. ~enabled => \A c \in Codes : backup[c] # "unused"
  BY <1>2 DEF Inv, Orderly
<1> QED
  BY <1>3, <1>4, <1>5 DEF Orderly

\* A step that leaves the authenticator and its set-ups alone.
LEMMA SameSetup ==
  ASSUME Inv, UNCHANGED <<contested, secret, enabled, proven>>,
         \A c \in Codes : backup'[c] = "unused" => backup[c] = "unused",
         \A g \in Handlers : job'[g].pc \in {"begin", "confirm", "disable"} =>
             job'[g].pc = job[g].pc /\ job'[g].secret = job[g].secret
  PROVE  Orderly' /\ FactorWasProven'
<1>1. FactorWasProven'
  BY DEF Inv, FactorWasProven
<1>2. SettingUp' \subseteq SettingUp
  BY DEF SettingUp
<1>3. Orderly'
  BY <1>2 DEF Inv, Orderly, SettingUp
<1> QED
  BY <1>1, <1>3

\* A step that pays for no challenge and owes for none: the challenge stays,
\* is gone, or is a new one.
LEMMA SamePays ==
  ASSUME Inv, sessions' = sessions, issued \subseteq issued',
         \/ challenge' = challenge
         \/ challenge' \notin Challenges
         \/ challenge' \in issued' \ issued,
         \A g \in Handlers : job'[g].pc = "issue" =>
             job[g].pc = "issue" /\ job'[g].challenge = job[g].challenge,
         \A g \in Handlers : job[g].pc = "issue" => job[g].challenge \in issued
  PROVE  \A ch \in Challenges : Pays(ch)'
<1> SUFFICES ASSUME NEW ch \in Challenges PROVE Pays(ch)'
  OBVIOUS
<1>1. Pays(ch)
  BY DEF Inv
<1>2. CASE challenge' = ch /\ ch \notin issued
  <2>1. sessions[ch] = 0 /\ ch \in issued'
    BY <1>1, <1>2 DEF Pays, Inv
  <2> QED
    BY <1>1, <1>2, <2>1 DEF Pays
<1>3. CASE challenge' = ch => challenge = ch
  BY <1>1, <1>3 DEF Pays
<1> QED
  BY <1>2, <1>3

\* A step that spends no backup code and lets none go.
LEMMA SameHeld ==
  ASSUME Inv, bought' = bought, issued \subseteq issued',
         \/ challenge' = challenge
         \/ challenge' \notin Challenges
         \/ challenge' \in issued' \ issued,
         \A g \in Handlers : job'[g].code = job[g].code
  PROVE  \A c \in Codes : Held(c)'
<1> SUFFICES ASSUME NEW c \in Codes PROVE Held(c)'
  OBVIOUS
<1>1. Held(c)
  BY DEF Inv
<1> QED
  BY <1>1 DEF Held

\* ReadBegin keeps the invariant.
LEMMA ReadBeginInv ==
  ASSUME NoneIsNoRow, Inv, NEW h \in Handlers, ReadBegin(h)
  PROVE  Inv'
<1>1. TypeOK'
  BY DEF NoneIsNoRow, Inv, ReadBegin, MayBegin, Goto, Contest, account, TypeOK,
      Job, Purchases
<1>2. \A x \in Handlers : Knows(x)'
  BY DEF NoneIsNoRow, Inv, ReadBegin, MayBegin, Goto, Contest, account, Knows,
      Held, Pays, TypeOK, Job, Purchases
<1>3. Orderly' /\ FactorWasProven'
  <2>1. OnlyJob(h) /\ job'[h].pc = "begin"
    BY DEF Inv, ReadBegin, Goto, OnlyJob, TypeOK, Job
  <2> QED
    BY <2>1, NewSetup DEF ReadBegin, MayBegin, account
<1>4. \A x \in Challenges : Pays(x)'
  BY DEF NoneIsNoRow, Inv, ReadBegin, MayBegin, Goto, Contest, account, Pays,
      Knows, TypeOK, Job, Purchases
<1>5. \A x \in Codes : Held(x)'
  BY DEF NoneIsNoRow, Inv, ReadBegin, MayBegin, Goto, Contest, account, Held,
      Knows, Pays, TypeOK, Job, Purchases
<1> QED
  BY <1>1, <1>2, <1>3, <1>4, <1>5 DEF Inv

\* Begin keeps the invariant.
LEMMA BeginInv ==
  ASSUME NoneIsNoRow, Inv, NEW h \in Handlers, NEW s \in Secrets, Begin(h, s)
  PROVE  Inv'
<1>1. TypeOK'
  BY DEF NoneIsNoRow, Inv, Begin, End, Idle, TypeOK, Job, Purchases
<1>2. \A x \in Handlers : Knows(x)'
  BY DEF NoneIsNoRow, Inv, Begin, End, Idle, Knows, Held, Pays, TypeOK, Job,
      Purchases
<1>3. Orderly' /\ FactorWasProven'
  BY DEF NoneIsNoRow, Inv, Begin, End, Idle, Orderly, FactorWasProven, SettingUp,
      Knows, TypeOK, Job, Purchases
<1>4. \A x \in Challenges : Pays(x)'
  BY DEF NoneIsNoRow, Inv, Begin, End, Idle, Pays, Knows, TypeOK, Job, Purchases
<1>5. \A x \in Codes : Held(x)'
  <2>1. job[h].code = None
    BY DEF Inv, Knows, Begin
  <2>2. \A g \in Handlers : job'[g].code = job[g].code
    BY <2>1 DEF Inv, Begin, End, Idle, TypeOK, Job
  <2> QED
    BY <2>2, SameHeld DEF Begin
<1> QED
  BY <1>1, <1>2, <1>3, <1>4, <1>5 DEF Inv

\* ReadConfirm keeps the invariant.
LEMMA ReadConfirmInv ==
  ASSUME NoneIsNoRow, Inv, NEW h \in Handlers, ReadConfirm(h)
  PROVE  Inv'
<1>1. TypeOK'
  BY DEF NoneIsNoRow, Inv, ReadConfirm, Contest, Idle, account, TypeOK, Job,
      Purchases
<1>2. \A x \in Handlers : Knows(x)'
  BY DEF NoneIsNoRow, Inv, ReadConfirm, Contest, Idle, account, Knows, Held, Pays,
      TypeOK, Job, Purchases
<1>3. Orderly' /\ FactorWasProven'
  <2>1. OnlyJob(h) /\ job'[h].pc = "confirm" /\ job'[h].secret = secret
    BY DEF Inv, ReadConfirm, Idle, OnlyJob, TypeOK
  <2> QED
    BY <2>1, NewSetup DEF ReadConfirm, account
<1>4. \A x \in Challenges : Pays(x)'
  BY DEF NoneIsNoRow, Inv, ReadConfirm, Contest, Idle, account, Pays, Knows,
      TypeOK, Job, Purchases
<1>5. \A x \in Codes : Held(x)'
  <2>1. job[h].code = None
    BY DEF Inv, Knows, ReadConfirm
  <2>2. \A g \in Handlers : job'[g].code = job[g].code
    BY <2>1 DEF Inv, ReadConfirm, Idle, TypeOK, Job
  <2> QED
    BY <2>2, SameHeld DEF ReadConfirm, account
<1> QED
  BY <1>1, <1>2, <1>3, <1>4, <1>5 DEF Inv

\* Confirm keeps the invariant.
LEMMA ConfirmInv ==
  ASSUME NoneIsNoRow, Inv, NEW h \in Handlers, NEW c \in Codes, Confirm(h, c)
  PROVE  Inv'
<1>1. TypeOK'
  BY DEF NoneIsNoRow, Inv, Confirm, End, Idle, TypeOK, Job, Purchases
<1>2. \A x \in Handlers : Knows(x)'
  BY DEF NoneIsNoRow, Inv, Confirm, End, Idle, Knows, Held, Pays, TypeOK, Job,
      Purchases
<1>3. Orderly' /\ FactorWasProven'
  BY DEF NoneIsNoRow, Inv, Confirm, End, Idle, Orderly, FactorWasProven,
      SettingUp, Knows, TypeOK, Job, Purchases
<1>4. \A x \in Challenges : Pays(x)'
  BY DEF NoneIsNoRow, Inv, Confirm, End, Idle, Pays, Knows, TypeOK, Job,
      Purchases
<1>5. \A x \in Codes : Held(x)'
  <2>1. job[h].code = None
    BY DEF Inv, Knows, Confirm
  <2>2. \A g \in Handlers : job'[g].code = job[g].code
    BY <2>1 DEF Inv, Confirm, End, Idle, TypeOK, Job
  <2> QED
    BY <2>2, SameHeld DEF Confirm
<1> QED
  BY <1>1, <1>2, <1>3, <1>4, <1>5 DEF Inv

\* ReadDisable keeps the invariant.
LEMMA ReadDisableInv ==
  ASSUME NoneIsNoRow, Inv, NEW h \in Handlers, ReadDisable(h)
  PROVE  Inv'
<1>1. /\ job[h].pc = "idle" /\ enabled /\ Contest
      /\ UNCHANGED <<secret, enabled, sms, challenge, stale, issued, proven, sessions>>
  BY DEF ReadDisable
<1>2. job[h].code = None
  BY <1>1 DEF Inv, Knows
<1>3. CASE ByApp /\ Goto(h, "disable")
  <2>1. /\ OnlyJob(h) /\ job'[h] = [job[h] EXCEPT !.pc = "disable"]
        /\ UNCHANGED <<backup, bought>>
    BY <1>3 DEF Inv, ByApp, Goto, OnlyJob, TypeOK
  <2>2. /\ job'[h].pc = "disable" /\ job'[h].code = None
        /\ job' \in [Handlers -> Job]
    <3>1. job[h] \in Job
      BY DEF Inv, TypeOK
    <3>2. [job[h] EXCEPT !.pc = "disable"] \in Job
      BY <3>1 DEF Job
    <3>3. job' = [job EXCEPT ![h] = [job[h] EXCEPT !.pc = "disable"]]
      BY <1>3 DEF Goto
    <3>4. job' \in [Handlers -> Job]
      BY <3>2, <3>3 DEF Inv, TypeOK
    <3> QED
      BY <1>2, <2>1, <3>1, <3>4 DEF Job
  <2>3. TypeOK'
    BY <1>1, <2>1, <2>2 DEF Inv, Contest, TypeOK
  <2>4. ASSUME NEW x \in Handlers PROVE Knows(x)'
    <3>1. CASE x = h
      BY <2>2, <3>1 DEF Knows
    <3>2. CASE x # h
      <4>1. Knows(x) /\ job'[x] = job[x]
        BY <2>1, <3>2 DEF Inv, OnlyJob
      <4> QED
        BY <1>1, <2>1, <4>1 DEF Knows
    <3> QED
      BY <3>1, <3>2
  <2>5. Orderly' /\ FactorWasProven'
    BY <1>1, <2>1, <2>2, NewSetup
  <2>6. \A x \in Challenges : Pays(x)'
    <3>1. \A g \in Handlers : job[g].pc = "issue" => job[g].challenge \in issued
      BY DEF Inv, Knows
    <3> QED
      BY <1>1, <2>1, <2>2, <3>1, SamePays DEF OnlyJob
  <2>7. \A x \in Codes : Held(x)'
    BY <1>1, <1>2, <2>1, <2>2, SameHeld DEF OnlyJob
  <2> QED
    BY <2>3, <2>4, <2>5, <2>6, <2>7 DEF Inv
<1>4. ASSUME NEW c \in Codes, Spend(c, None),
             job' = [job EXCEPT ![h] = [Idle EXCEPT !.pc = "disable", !.code = c]]
      PROVE  Inv'
  <2>1. /\ OnlyJob(h) /\ job'[h].pc = "disable" /\ job'[h].code = c
        /\ job'[h].challenge = None /\ job'[h].secret = None
        /\ job' \in [Handlers -> Job]
    BY <1>4 DEF Inv, OnlyJob, TypeOK, Job, Idle
  <2>2. /\ backup[c] = "unused" /\ backup'[c] = "used"
        /\ bought'[c] = [by |-> "pending", challenge |-> None]
        /\ \A x \in Codes \ {c} : backup'[x] = backup[x] /\ bought'[x] = bought[x]
    BY <1>4 DEF Inv, Spend, TypeOK
  <2>3. \A g \in Handlers : job[g].code # c
    BY <2>2, NoneIsNoRow DEF Inv, Knows, NoneIsNoRow
  <2>4. TypeOK'
    <3>1. backup' \in [Codes -> {"none", "unused", "used"}]
      BY <1>4 DEF Inv, Spend, TypeOK
    <3>2. [by |-> "pending", challenge |-> None]
             \in [by : Purchases, challenge : Challenges \cup {None}]
      BY DEF Purchases
    <3>3. bought' \in [Codes -> [by : Purchases, challenge : Challenges \cup {None}]]
      BY <1>4, <3>2 DEF Inv, Spend, TypeOK
    <3> QED
      BY <1>1, <2>1, <3>1, <3>3 DEF Inv, Contest, TypeOK
  <2>5. \A x \in Handlers : Knows(x)'
    <3> SUFFICES ASSUME NEW x \in Handlers PROVE Knows(x)'
      OBVIOUS
    <3>1. CASE x = h
      BY <2>1, <2>2, <3>1 DEF Knows
    <3>2. CASE x # h
      <4>1. job'[x] = job[x] /\ job[x].code # c /\ Knows(x) /\ job[x].code \in Codes \cup {None}
        BY <2>1, <2>3, <3>2 DEF OnlyJob, Inv, TypeOK, Job
      <4> QED
        BY <1>1, <2>2, <4>1 DEF Knows
    <3> QED
      BY <3>1, <3>2
  <2>6. Orderly' /\ FactorWasProven'
    <3>1. \A x \in Codes : backup'[x] = "unused" => backup[x] = "unused"
      BY <2>2
    <3> QED
      BY <1>1, <2>1, <3>1, NewSetup
  <2>7. \A x \in Challenges : Pays(x)'
    <3>1. \A g \in Handlers : job[g].pc = "issue" => job[g].challenge \in issued
      BY DEF Inv, Knows
    <3> QED
      BY <1>1, <2>1, <3>1, SamePays DEF OnlyJob
  <2>8. ASSUME NEW x \in Codes PROVE Held(x)'
    <3>1. Held(x)
      BY DEF Inv
    <3>2. CASE x = c
      BY <2>1, <2>3, <3>2 DEF OnlyJob, Held
    <3>3. CASE x # c
      <4>1. /\ bought'[x] = bought[x] /\ job'[h].code # x /\ job[h].code # x
            /\ issued' = issued /\ challenge' = challenge
        BY <1>1, <1>2, <2>1, <2>2, <3>3 DEF NoneIsNoRow
      <4>2. \A g \in Handlers : job'[g].code = x <=> job[g].code = x
        BY <2>1, <4>1 DEF OnlyJob
      <4> QED
        BY <3>1, <4>1, <4>2 DEF Held
    <3> QED
      BY <3>2, <3>3
  <2> QED
    BY <2>4, <2>5, <2>6, <2>7, <2>8 DEF Inv
<1> QED
  BY <1>3, <1>4 DEF ReadDisable

\* Disable keeps the invariant.
LEMMA DisableInv ==
  ASSUME NoneIsNoRow, Inv, NEW h \in Handlers, Disable(h)
  PROVE  Inv'
<1>1. TypeOK'
  <2>1. job' \in [Handlers -> Job]
    BY DEF Inv, Disable, End, Idle, TypeOK, Job
  <2>2. backup' \in [Codes -> {"none", "unused", "used"}]
    BY DEF Inv, Disable, TypeOK
  <2>3. bought' \in [Codes -> [by : Purchases, challenge : Challenges \cup {None}]]
    <3>1. CASE job[h].code = None
      BY <3>1 DEF Inv, Disable, Bought, TypeOK
    <3>2. CASE job[h].code # None
      <4>1. PICK c \in Codes : c = job[h].code
        BY <3>2 DEF Inv, TypeOK, Job
      <4>2. PICK b : b = [bought[c] EXCEPT !.by = "disabled"]
        OBVIOUS
      <4>3. b \in [by : Purchases, challenge : Challenges \cup {None}]
        BY <4>2 DEF Inv, TypeOK, Purchases
      <4>4. bought' = [bought EXCEPT ![c] = b]
        BY <3>2, <4>1, <4>2 DEF Disable, Bought
      <4> QED
        BY <4>3, <4>4 DEF Inv, TypeOK
    <3> QED
      BY <3>1, <3>2
  <2> QED
    BY <2>1, <2>2, <2>3 DEF Inv, Disable, TypeOK
<1>2. \A x \in Handlers : Knows(x)'
  BY DEF NoneIsNoRow, Inv, Disable, Bought, End, Idle, Knows, Held, Pays, TypeOK,
      Job, Purchases
<1>3. Orderly' /\ FactorWasProven'
  BY DEF NoneIsNoRow, Inv, Disable, Bought, End, Idle, Orderly, FactorWasProven,
      SettingUp, Knows, TypeOK, Job, Purchases
<1>4. \A x \in Challenges : Pays(x)'
  BY DEF NoneIsNoRow, Inv, Disable, Bought, End, Idle, Pays, Knows, TypeOK, Job,
      Purchases
<1>5. \A x \in Codes : Held(x)'
  BY DEF NoneIsNoRow, Inv, Disable, Bought, End, Idle, Held, Knows, Pays, TypeOK,
      Job, Purchases
<1> QED
  BY <1>1, <1>2, <1>3, <1>4, <1>5 DEF Inv

\* PasswordAccepted keeps the invariant.
LEMMA PasswordAcceptedInv ==
  ASSUME NoneIsNoRow, Inv, NEW h \in Handlers, PasswordAccepted(h)
  PROVE  Inv'
<1>1. TypeOK'
  <2>1. PICK j : j = [job[h] EXCEPT !.pc = "challenge"]
    OBVIOUS
  <2>2. job[h] \in Job
    BY DEF Inv, TypeOK
  <2>3. j \in Job
    BY <2>1, <2>2 DEF Job
  <2>4. job' = [job EXCEPT ![h] = j] /\ UNCHANGED <<account, history>>
    BY <2>1 DEF PasswordAccepted, Goto
  <2>5. job' \in [Handlers -> Job]
    BY <2>3, <2>4 DEF Inv, TypeOK
  <2> QED
    BY <2>4, <2>5 DEF Inv, TypeOK, account, history
<1>2. \A x \in Handlers : Knows(x)'
  BY DEF NoneIsNoRow, Inv, PasswordAccepted, Goto, account, history, Knows, Held,
      Pays, TypeOK, Job, Purchases
<1>3. Orderly' /\ FactorWasProven'
  BY DEF NoneIsNoRow, Inv, PasswordAccepted, Goto, account, history, Orderly,
      FactorWasProven, SettingUp, Knows, TypeOK, Job, Purchases
<1>4. \A x \in Challenges : Pays(x)'
  BY DEF NoneIsNoRow, Inv, PasswordAccepted, Goto, account, history, Pays, Knows,
      TypeOK, Job, Purchases
<1>5. \A x \in Codes : Held(x)'
  BY DEF NoneIsNoRow, Inv, PasswordAccepted, Goto, account, history, Held, Knows,
      Pays, TypeOK, Job, Purchases
<1> QED
  BY <1>1, <1>2, <1>3, <1>4, <1>5 DEF Inv

\* IssueChallenge keeps the invariant.
LEMMA IssueChallengeInv ==
  ASSUME NoneIsNoRow, Inv, NEW h \in Handlers, NEW ch \in Challenges, IssueChallenge(h, ch)
  PROVE  Inv'
<1>1. TypeOK'
  BY DEF NoneIsNoRow, Inv, IssueChallenge, End, Idle, TypeOK, Job, Purchases
<1>2. \A x \in Handlers : Knows(x)'
  BY DEF NoneIsNoRow, Inv, IssueChallenge, End, Idle, Knows, Held, Pays, TypeOK,
      Job, Purchases
<1>3. Orderly' /\ FactorWasProven'
  BY DEF NoneIsNoRow, Inv, IssueChallenge, End, Idle, Orderly, FactorWasProven,
      SettingUp, Knows, TypeOK, Job, Purchases
<1>4. \A x \in Challenges : Pays(x)'
  <2>1. \A g \in Handlers : job'[g].pc = "issue" => job'[g] = job[g]
    BY DEF Inv, IssueChallenge, End, Idle, TypeOK
  <2>2. \A g \in Handlers : job[g].pc = "issue" => job[g].challenge \in issued
    BY DEF Inv, Knows
  <2> QED
    BY <2>1, <2>2, SamePays DEF IssueChallenge
<1>5. \A x \in Codes : Held(x)'
  <2>1. job[h].code = None
    BY DEF Inv, Knows, IssueChallenge
  <2>2. \A g \in Handlers : job'[g].code = job[g].code
    BY <2>1 DEF Inv, IssueChallenge, End, Idle, TypeOK, Job
  <2> QED
    BY <2>2, SameHeld DEF IssueChallenge
<1> QED
  BY <1>1, <1>2, <1>3, <1>4, <1>5 DEF Inv

\* ReadChallenge keeps the invariant.
LEMMA ReadChallengeInv ==
  ASSUME NoneIsNoRow, Inv, NEW h \in Handlers, ReadChallenge(h)
  PROVE  Inv'
<1>1. TypeOK'
  BY DEF NoneIsNoRow, Inv, ReadChallenge, Usable, Idle, account, history, TypeOK,
      Job, Purchases
<1>2. \A x \in Handlers : Knows(x)'
  BY DEF NoneIsNoRow, Inv, ReadChallenge, Usable, Idle, account, history, Knows,
      Held, Pays, TypeOK, Job, Purchases
<1>3. Orderly' /\ FactorWasProven'
  BY DEF NoneIsNoRow, Inv, ReadChallenge, Usable, Idle, account, history, Orderly,
      FactorWasProven, SettingUp, Knows, TypeOK, Job, Purchases
<1>4. \A x \in Challenges : Pays(x)'
  BY DEF NoneIsNoRow, Inv, ReadChallenge, Usable, Idle, account, history, Pays,
      Knows, TypeOK, Job, Purchases
<1>5. \A x \in Codes : Held(x)'
  <2>1. job[h].code = None
    BY DEF Inv, Knows, ReadChallenge
  <2>2. \A g \in Handlers : job'[g].code = job[g].code
    BY <2>1 DEF Inv, ReadChallenge, Idle, TypeOK, Job
  <2> QED
    BY <2>2, SameHeld DEF ReadChallenge, account, history
<1> QED
  BY <1>1, <1>2, <1>3, <1>4, <1>5 DEF Inv

\* Verify keeps the invariant.
LEMMA VerifyInv ==
  ASSUME NoneIsNoRow, Inv, NEW h \in Handlers, Verify(h)
  PROVE  Inv'
<1>1. /\ job[h].pc = "verify" /\ job[h].code = None
      /\ job[h].challenge \in Challenges \cap issued /\ job[h] \in Job
      /\ UNCHANGED <<secret, enabled, sms, challenge, stale,
                     issued, proven, contested, sessions>>
  BY DEF Inv, Verify, Knows, TypeOK
<1>2. \A g \in Handlers : job[g].pc = "issue" => job[g].challenge \in issued
  BY DEF Inv, Knows
<1>3. CASE ByApp /\ Goto(h, "redeem")
  <2>1. OnlyJob(h) /\ UNCHANGED <<backup, bought>>
    BY <1>3 DEF Inv, ByApp, Goto, OnlyJob, TypeOK
  <2>2. /\ job'[h].pc = "redeem" /\ job'[h].code = None
        /\ job'[h].challenge = job[h].challenge
        /\ job' \in [Handlers -> Job]
    BY <1>1, <1>3 DEF Inv, Goto, TypeOK, Job
  <2>3. TypeOK'
    BY <1>1, <2>1, <2>2 DEF Inv, TypeOK
  <2>4. \A x \in Handlers : Knows(x)'
    BY <1>1, <2>1, <2>2 DEF Inv, Knows, OnlyJob
  <2>5. Orderly' /\ FactorWasProven'
    BY <1>1, <2>1, <2>2, SameSetup DEF OnlyJob
  <2>6. \A x \in Challenges : Pays(x)'
    BY <1>1, <1>2, <2>1, <2>2, SamePays DEF OnlyJob
  <2>7. \A x \in Codes : Held(x)'
    BY <1>1, <2>1, <2>2, SameHeld DEF OnlyJob
  <2> QED
    BY <2>3, <2>4, <2>5, <2>6, <2>7 DEF Inv
<1>4. ASSUME NEW c \in Codes, Spend(c, job[h].challenge),
             job' = [job EXCEPT ![h].pc = "redeem", ![h].code = c]
      PROVE  Inv'
  <2>1. OnlyJob(h)
    BY <1>4 DEF Inv, OnlyJob, TypeOK
  <2>2. /\ job'[h].pc = "redeem" /\ job'[h].code = c
        /\ job'[h].challenge = job[h].challenge
        /\ job' \in [Handlers -> Job]
    BY <1>1, <1>4 DEF Inv, TypeOK, Job
  <2>3. /\ backup[c] = "unused" /\ backup'[c] = "used"
        /\ bought'[c] = [by |-> "pending", challenge |-> job[h].challenge]
        /\ \A x \in Codes \ {c} : backup'[x] = backup[x] /\ bought'[x] = bought[x]
    BY <1>4 DEF Inv, Spend, TypeOK
  <2>4. \A g \in Handlers : job[g].code # c
    BY <2>3 DEF Inv, Knows, NoneIsNoRow
  <2>5. TypeOK'
    <3>1. backup' \in [Codes -> {"none", "unused", "used"}]
      BY <1>4 DEF Inv, Spend, TypeOK
    <3>2. [by |-> "pending", challenge |-> job[h].challenge]
             \in [by : Purchases, challenge : Challenges \cup {None}]
      BY <1>1 DEF Purchases
    <3>3. bought' \in [Codes -> [by : Purchases, challenge : Challenges \cup {None}]]
      BY <1>4, <3>2 DEF Inv, Spend, TypeOK
    <3> QED
      BY <1>1, <2>2, <3>1, <3>3 DEF Inv, TypeOK
  <2>6. \A x \in Handlers : Knows(x)'
    <3> SUFFICES ASSUME NEW x \in Handlers PROVE Knows(x)'
      OBVIOUS
    <3>1. CASE x = h
      BY <1>1, <2>2, <2>3, <3>1 DEF Knows
    <3>2. CASE x # h
      <4>1. /\ job'[x] = job[x] /\ job[x].code # c /\ Knows(x)
            /\ job[x].code \in Codes \cup {None}
        BY <2>1, <2>4, <3>2 DEF OnlyJob, Inv, TypeOK, Job
      <4> QED
        BY <1>1, <2>3, <4>1 DEF Knows
    <3> QED
      BY <3>1, <3>2
  <2>7. Orderly' /\ FactorWasProven'
    <3>1. \A x \in Codes : backup'[x] = "unused" => backup[x] = "unused"
      BY <2>3
    <3> QED
      BY <1>1, <2>1, <2>2, <3>1, SameSetup DEF OnlyJob
  <2>8. \A x \in Challenges : Pays(x)'
    BY <1>1, <1>2, <2>1, <2>2, SamePays DEF OnlyJob
  <2>9. ASSUME NEW x \in Codes PROVE Held(x)'
    <3>1. Held(x)
      BY DEF Inv
    <3>2. CASE x = c
      BY <2>1, <2>2, <2>4, <3>2 DEF OnlyJob, Held
    <3>3. CASE x # c
      <4>1. /\ bought'[x] = bought[x] /\ job'[h].code # x /\ job[h].code # x
            /\ issued' = issued /\ challenge' = challenge
        BY <1>1, <2>2, <2>3, <3>3 DEF NoneIsNoRow
      <4>2. \A g \in Handlers : job'[g].code = x <=> job[g].code = x
        BY <2>1, <4>1 DEF OnlyJob
      <4> QED
        BY <3>1, <4>1, <4>2 DEF Held
    <3> QED
      BY <3>2, <3>3
  <2> QED
    BY <2>5, <2>6, <2>7, <2>8, <2>9 DEF Inv
<1> QED
  BY <1>3, <1>4 DEF Verify

\* Redeem keeps the invariant.
LEMMA RedeemInv ==
  ASSUME NoneIsNoRow, Inv, NEW h \in Handlers, Redeem(h)
  PROVE  Inv'
<1> DEFINE ch == job[h].challenge
<1>1. /\ job[h].pc = "redeem" /\ ch \in Challenges \cap issued
      /\ job[h] \in Job /\ job[h].code \in Codes \cup {None}
      /\ UNCHANGED <<secret, enabled, sms, backup, stale, history>>
  BY DEF Inv, Redeem, Knows, TypeOK, Job
<1>2. \A g \in Handlers : job[g].pc = "issue" => job[g].challenge \in issued
  BY DEF Inv, Knows
<1>3. CASE challenge = ch
  <2>1. challenge' = None /\ job' = [job EXCEPT ![h].pc = "issue"]
    BY <1>3 DEF Redeem, Redeemable, Goto
  <2>2. /\ OnlyJob(h) /\ job'[h].pc = "issue" /\ job'[h].challenge = ch
        /\ job'[h].code = job[h].code
        /\ job' \in [Handlers -> Job]
    BY <1>1, <2>1 DEF Inv, OnlyJob, TypeOK, Job
  <2>3. TypeOK'
    BY <1>1, <2>1, <2>2 DEF Inv, history, TypeOK
  <2>4. \A x \in Handlers : Knows(x)'
    BY <1>1, <2>2 DEF Inv, history, Knows, OnlyJob
  <2>5. Orderly' /\ FactorWasProven'
    BY <1>1, <2>2, SameSetup DEF OnlyJob, history
  <2>6. ASSUME NEW x \in Challenges PROVE Pays(x)'
    <3>1. Pays(x)
      BY DEF Inv
    <3>2. CASE x = ch
      <4>1. /\ sessions[x] = 0
            /\ \A g \in Handlers : ~(job[g].pc = "issue" /\ job[g].challenge = x)
        BY <1>3, <3>1, <3>2 DEF Pays
      <4>2. sessions' = sessions /\ issued' = issued /\ challenge' # x /\ x \in issued
        BY <1>1, <2>1, <3>2 DEF history, NoneIsNoRow
      <4> QED
        BY <2>2, <4>1, <4>2 DEF Pays, OnlyJob
    <3>3. CASE x # ch
      <4>1. sessions' = sessions /\ issued' = issued /\ challenge' # x
        BY <1>1, <2>1 DEF history, NoneIsNoRow
      <4> QED
        BY <1>1, <2>2, <3>1, <3>3, <4>1 DEF Pays, OnlyJob
    <3> QED
      BY <3>2, <3>3
  <2>7. \A x \in Codes : Held(x)'
    BY <1>1, <2>1, <2>2, SameHeld DEF OnlyJob, history, NoneIsNoRow
  <2> QED
    BY <2>3, <2>4, <2>5, <2>6, <2>7 DEF Inv
<1>4. CASE challenge # ch
  <2>1. challenge' = challenge /\ job' = [job EXCEPT ![h] = Idle]
    BY <1>4 DEF Redeem, Redeemable, End
  <2>2. /\ OnlyJob(h) /\ job'[h].pc = "idle" /\ job'[h].code = None
        /\ job' \in [Handlers -> Job]
    BY <2>1 DEF Inv, OnlyJob, TypeOK, Job, Idle
  <2>3. TypeOK'
    BY <1>1, <2>1, <2>2 DEF Inv, history, TypeOK
  <2>4. \A x \in Handlers : Knows(x)'
    BY <1>1, <2>2 DEF Inv, history, Knows, OnlyJob
  <2>5. Orderly' /\ FactorWasProven'
    BY <1>1, <2>2, SameSetup DEF OnlyJob, history
  <2>6. \A x \in Challenges : Pays(x)'
    BY <1>1, <1>2, <2>1, <2>2, SamePays DEF OnlyJob, history
  <2>7. ASSUME NEW x \in Codes PROVE Held(x)'
    <3>1. Held(x) /\ bought' = bought /\ issued' = issued
      BY <1>1 DEF Inv, history
    <3>2. CASE job[h].code = x
      <4>1. x # None /\ Knows(h)
        BY DEF Inv, NoneIsNoRow
      <4>2. bought[x] = [by |-> "pending", challenge |-> ch]
        BY <3>2, <4>1 DEF Knows
      <4> QED
        BY <1>1, <1>4, <2>1, <2>2, <3>1, <3>2, <4>2 DEF Held, OnlyJob, NoneIsNoRow
    <3>3. CASE job[h].code # x
      <4>1. \A g \in Handlers : job'[g].code = x <=> job[g].code = x
        BY <2>2, <3>3 DEF OnlyJob, NoneIsNoRow
      <4> QED
        BY <2>1, <3>1, <4>1 DEF Held
    <3> QED
      BY <3>2, <3>3
  <2> QED
    BY <2>3, <2>4, <2>5, <2>6, <2>7 DEF Inv
<1> QED
  BY <1>3, <1>4

\* IssueSession keeps the invariant.
LEMMA IssueSessionInv ==
  ASSUME NoneIsNoRow, Inv, NEW h \in Handlers, IssueSession(h)
  PROVE  Inv'
<1>1. TypeOK'
  <2>1. job[h].challenge \in Challenges /\ Idle \in Job
    BY DEF Inv, IssueSession, Knows, Idle, Job
  <2>2. sessions' \in [Challenges -> Nat] /\ job' \in [Handlers -> Job]
    BY <2>1 DEF Inv, IssueSession, End, TypeOK
  <2>3. bought' \in [Codes -> [by : Purchases, challenge : Challenges \cup {None}]]
    <3>1. \A c \in Codes : [bought[c] EXCEPT !.by = "session"]
                              \in [by : Purchases, challenge : Challenges \cup {None}]
      BY DEF Inv, TypeOK, Purchases
    <3>2. \/ bought' = bought
          \/ bought' = [bought EXCEPT ![job[h].code] =
                           [bought[job[h].code] EXCEPT !.by = "session"]]
      BY DEF IssueSession, Bought
    <3> QED
      BY <3>1, <3>2 DEF Inv, TypeOK
  <2> QED
    BY <2>2, <2>3 DEF Inv, IssueSession, account, TypeOK
<1>2. \A x \in Handlers : Knows(x)'
  BY DEF NoneIsNoRow, Inv, IssueSession, Bought, End, Idle, account, Knows, Held,
      Pays, TypeOK, Job, Purchases
<1>3. Orderly' /\ FactorWasProven'
  BY DEF NoneIsNoRow, Inv, IssueSession, Bought, End, Idle, account, Orderly,
      FactorWasProven, SettingUp, Knows, TypeOK, Job, Purchases
<1>4. \A x \in Challenges : Pays(x)'
  <2> SUFFICES ASSUME NEW x \in Challenges PROVE Pays(x)'
    OBVIOUS
  <2>1. /\ job[h].pc = "issue" /\ job[h].challenge \in Challenges \cap issued
        /\ challenge' = challenge /\ issued' = issued /\ Pays(x)
    BY DEF Inv, IssueSession, Knows, account
  <2>2. OnlyJob(h) /\ job'[h].pc = "idle"
    BY DEF Inv, IssueSession, End, Idle, OnlyJob, TypeOK
  <2>3. CASE x = job[h].challenge
    <3>1. /\ sessions[x] = 0 /\ challenge # x
          /\ \A g \in Handlers \ {h} : ~(job[g].pc = "issue" /\ job[g].challenge = x)
      BY <2>1, <2>3 DEF Pays
    <3>2. sessions'[x] = 1
      BY <2>3, <3>1 DEF Inv, IssueSession, TypeOK
    <3> QED
      BY <2>1, <2>2, <2>3, <3>1, <3>2 DEF Pays, OnlyJob
  <2>4. CASE x # job[h].challenge
    <3>1. sessions'[x] = sessions[x]
      BY <2>4 DEF Inv, IssueSession, TypeOK
    <3> QED
      BY <2>1, <2>2, <3>1 DEF Pays, OnlyJob
  <2> QED
    BY <2>3, <2>4
<1>5. \A x \in Codes : Held(x)'
  BY DEF NoneIsNoRow, Inv, IssueSession, Bought, End, Idle, account, Held, Knows,
      Pays, TypeOK, Job, Purchases
<1> QED
  BY <1>1, <1>2, <1>3, <1>4, <1>5 DEF Inv

\* ToggleSms keeps the invariant.
LEMMA ToggleSmsInv ==
  ASSUME NoneIsNoRow, Inv, ToggleSms
  PROVE  Inv'
<1>1. TypeOK'
  BY DEF NoneIsNoRow, Inv, ToggleSms, history, TypeOK, Job, Purchases
<1>2. \A x \in Handlers : Knows(x)'
  BY DEF NoneIsNoRow, Inv, ToggleSms, history, Knows, Held, Pays, TypeOK, Job,
      Purchases
<1>3. Orderly' /\ FactorWasProven'
  BY DEF NoneIsNoRow, Inv, ToggleSms, history, Orderly, FactorWasProven,
      SettingUp, Knows, TypeOK, Job, Purchases
<1>4. \A x \in Challenges : Pays(x)'
  BY DEF NoneIsNoRow, Inv, ToggleSms, history, Pays, Knows, TypeOK, Job,
      Purchases
<1>5. \A x \in Codes : Held(x)'
  BY DEF NoneIsNoRow, Inv, ToggleSms, history, Held, Knows, Pays, TypeOK, Job,
      Purchases
<1> QED
  BY <1>1, <1>2, <1>3, <1>4, <1>5 DEF Inv

\* Lapse keeps the invariant.
LEMMA LapseInv ==
  ASSUME NoneIsNoRow, Inv, Lapse
  PROVE  Inv'
<1>1. TypeOK'
  BY DEF NoneIsNoRow, Inv, Lapse, Usable, history, TypeOK, Job, Purchases
<1>2. \A x \in Handlers : Knows(x)'
  BY DEF NoneIsNoRow, Inv, Lapse, Usable, history, Knows, Held, Pays, TypeOK, Job,
      Purchases
<1>3. Orderly' /\ FactorWasProven'
  BY DEF NoneIsNoRow, Inv, Lapse, Usable, history, Orderly, FactorWasProven,
      SettingUp, Knows, TypeOK, Job, Purchases
<1>4. \A x \in Challenges : Pays(x)'
  BY DEF NoneIsNoRow, Inv, Lapse, Usable, history, Pays, Knows, TypeOK, Job,
      Purchases
<1>5. \A x \in Codes : Held(x)'
  BY DEF NoneIsNoRow, Inv, Lapse, Usable, history, Held, Knows, Pays, TypeOK, Job,
      Purchases
<1> QED
  BY <1>1, <1>2, <1>3, <1>4, <1>5 DEF Inv

\* Stop keeps the invariant.
LEMMA StopInv ==
  ASSUME NoneIsNoRow, Inv, NEW h \in Handlers, Stop(h)
  PROVE  Inv'
<1>1. TypeOK'
  BY DEF NoneIsNoRow, Inv, Stop, Bought, End, Idle, account, TypeOK, Job,
      Purchases
<1>2. \A x \in Handlers : Knows(x)'
  BY DEF NoneIsNoRow, Inv, Stop, Bought, End, Idle, account, Knows, Held, Pays,
      TypeOK, Job, Purchases
<1>3. Orderly' /\ FactorWasProven'
  BY DEF NoneIsNoRow, Inv, Stop, Bought, End, Idle, account, Orderly,
      FactorWasProven, SettingUp, Knows, TypeOK, Job, Purchases
<1>4. \A x \in Challenges : Pays(x)'
  BY DEF NoneIsNoRow, Inv, Stop, Bought, End, Idle, account, Pays, Knows, TypeOK,
      Job, Purchases
<1>5. \A x \in Codes : Held(x)'
  BY DEF NoneIsNoRow, Inv, Stop, Bought, End, Idle, account, Held, Knows, Pays,
      TypeOK, Job, Purchases
<1> QED
  BY <1>1, <1>2, <1>3, <1>4, <1>5 DEF Inv

\* Every step keeps the invariant.
LEMMA NextInv == ASSUME NoneIsNoRow, Inv, [Next]_vars PROVE Inv'
<1>1. CASE UNCHANGED vars
  BY <1>1 DEF vars, account, history, Inv, TypeOK, Knows, Orderly, SettingUp,
              FactorWasProven, Pays, Held
<1>2. CASE Next
  BY <1>2, ReadBeginInv, BeginInv, ReadConfirmInv, ConfirmInv, ReadDisableInv,
     DisableInv, PasswordAcceptedInv, IssueChallengeInv, ReadChallengeInv,
     VerifyInv, RedeemInv, IssueSessionInv, ToggleSmsInv, LapseInv, StopInv
  DEF Next
<1> QED
  BY <1>1, <1>2

(* The invariant holds in every state the second factor of an account can  *)
(* get into, for every number of codes, challenges and handlers.           *)
THEOREM Invariance == ASSUME NoneIsNoRow PROVE Spec => []Inv
<1>1. Init => Inv
  BY InitInv
<1>2. Inv /\ [Next]_vars => Inv'
  BY NextInv
<1> QED
  BY <1>1, <1>2, PTL DEF Spec

\* What the invariant says of the properties the runs check.
LEMMA InvImplies ==
  ASSUME NoneIsNoRow, Inv
  PROVE  TypeOK /\ FactorWasProven /\ FactorsBuyOneSession
<1>1. \A ch \in Challenges : sessions[ch] <= 1
  BY DEF Inv, Pays
<1>2. \A c \in Codes :
         bought[c].by = "pending" /\ (\A h \in Handlers : job[h].code # c)
         => bought[c].challenge # challenge
  BY DEF Inv, Held
<1> QED
  BY <1>1, <1>2 DEF Inv, FactorsBuyOneSession

-----------------------------------------------------------------------------
(* The variables stay in their types.                                      *)
THEOREM TypeCorrect == ASSUME NoneIsNoRow PROVE Spec => []TypeOK
<1>1. Inv => TypeOK
  BY DEF Inv
<1> QED
  BY <1>1, Invariance, PTL

(* An authenticator is on only with the secret a code of which confirmed   *)
(* it, and with one set of backup codes, unless two set-ups overlapped.    *)
THEOREM FactorProven == ASSUME NoneIsNoRow PROVE Spec => []FactorWasProven
<1>1. Inv => FactorWasProven
  BY DEF Inv
<1> QED
  BY <1>1, Invariance, PTL

(* A challenge buys one session, and a backup code is spent for nothing    *)
(* only if the call was cut, or its challenge redeemed or replaced between *)
(* the two updates.                                                        *)
THEOREM OneSession == ASSUME NoneIsNoRow PROVE Spec => []FactorsBuyOneSession
<1>1. Inv => FactorsBuyOneSession
  BY InvImplies
<1> QED
  BY <1>1, Invariance, PTL
==============================================================================

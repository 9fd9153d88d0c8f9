---------------------------- MODULE SettingsPage ----------------------------
(***************************************************************************)
(* The settings page: its sections - the profile with its photo, the       *)
(* authenticator, codes by SMS - share one copy of the profile.  Each      *)
(* writes back the copy it saw when its button was clicked, changed by the *)
(* answer, and each has at most one call of a kind in flight.  What the    *)
(* API does in several steps is in Photo and TwoFactor.                    *)
(***************************************************************************)
EXTENDS Naturals, FiniteSets

CONSTANTS
    Photos,     \* photos an account may have (a bound)
    Most,       \* calls in flight at once (a bound)
    None        \* null

NoneIsNoPhoto == None \notin Photos

\* What disables what: one call of each is in flight at most.  "save" and
\* "photo" are the profile's, "setUp" begins or confirms the authenticator.
Kinds == {"save", "photo", "setUp", "turnOff", "smsSetUp", "smsTurnOff"}

Factors == {"totp", "sms"}
FactorOf(k) == IF k \in {"setUp", "turnOff"} THEN "totp" ELSE "sms"
Steps == {"idle", "confirm", "codes"}

VARIABLES
    account,    \* the account: its factors and its photo
    profile,    \* the account as the page has it
    step,       \* setupStep of each factor
    call,       \* call[k]: what was asked, and what was seen then
    shownCodes, \* history: the backup codes of the authenticator were shown
    astray      \* history: a copy of the profile was written back over a
                \* newer one, or an answer was lost

vars == <<account, profile, step, call, shownCodes, astray>>

Profile == [totp : BOOLEAN, sms : BOOLEAN, photo : Photos \cup {None}]

\* confirm: it is the code that is sent; got: the photo in the answer.
Call == [pc : {"idle", "asked", "done", "failed"}, confirm : BOOLEAN,
         seen : Profile, got : Photos \cup {None}]

NoProfile == [totp |-> FALSE, sms |-> FALSE, photo |-> None]

Idle == [pc |-> "idle", confirm |-> FALSE, seen |-> NoProfile, got |-> None]

TypeOK ==
    /\ account \in Profile /\ profile \in Profile
    /\ step \in [Factors -> Steps] /\ call \in [Kinds -> Call]
    /\ shownCodes \in BOOLEAN /\ astray \in BOOLEAN

\* The page has just read the profile.  Codes of a factor that is on were
\* shown when it was set up.
Init ==
    /\ account \in {p \in Profile : p.photo = None}
    /\ profile = account
    /\ step = [f \in Factors |-> "idle"] /\ call = [k \in Kinds |-> Idle]
    /\ shownCodes = account.totp /\ astray = FALSE

-----------------------------------------------------------------------------
(* The user.                                                               *)

Ask(k, confirm) ==
    /\ call[k] = Idle
    /\ Cardinality({j \in Kinds : call[j] # Idle}) < Most
    /\ call' = [call EXCEPT ![k] = [Idle EXCEPT !.pc = "asked",
                                      !.confirm = confirm, !.seen = profile]]
    /\ UNCHANGED <<account, profile, shownCodes, astray>>

\* Saving the profile, and choosing a photo.
Save == Ask("save", FALSE) /\ UNCHANGED step
ChoosePhoto == Ask("photo", FALSE) /\ UNCHANGED step

\* A factor is set up: it is begun, and then confirmed with a code.
SetUp(k) ==
    LET f == FactorOf(k) IN
    /\ k \in {"setUp", "smsSetUp"}
    /\ \/ step[f] = "idle" /\ ~profile[f] /\ Ask(k, FALSE)
       \/ step[f] = "confirm" /\ Ask(k, TRUE)
    /\ UNCHANGED step

\* The set-up is abandoned, whatever is in flight.
CancelSetUp(f) ==
    /\ step[f] = "confirm"
    /\ step' = [step EXCEPT ![f] = "idle"]
    /\ UNCHANGED <<account, profile, call, shownCodes, astray>>

\* The codes were noted down; the page has known since the answer.
FinishSetUp ==
    /\ step["totp"] = "codes"
    /\ step' = [step EXCEPT !["totp"] = "idle"]
    /\ profile' = [profile EXCEPT !.totp = TRUE]
    /\ UNCHANGED <<account, call, shownCodes, astray>>

TurnOff(k) ==
    /\ k \in {"turnOff", "smsTurnOff"}
    /\ profile[FactorOf(k)] /\ step[FactorOf(k)] = "idle"
    /\ Ask(k, FALSE) /\ UNCHANGED step

-----------------------------------------------------------------------------
(* The API.                                                                *)

\* What k makes of the account: an upload stores another photo.
Made(k) ==
    CASE k = "save" -> {account}
      [] k = "photo" -> {[account EXCEPT !.photo = p] :
                            p \in Photos \ {account.photo}}
      [] k \in {"turnOff", "smsTurnOff"} ->
           {[account EXCEPT ![FactorOf(k)] = FALSE]}
      [] OTHER -> {[account EXCEPT ![FactorOf(k)] = @ \/ call[k].confirm]}

Serve(k) ==
    /\ call[k].pc = "asked"
    /\ account' \in Made(k)
    /\ shownCodes' = (shownCodes /\ ~(k = "setUp" /\ call[k].confirm))
    /\ call' = [call EXCEPT ![k].pc = "done",
          ![k].got = IF k \in {"save", "photo"} THEN account'.photo ELSE None]
    /\ UNCHANGED <<profile, step, astray>>

\* A wrong code or password, a network error, or the answer is lost.
Fail(k) ==
    /\ call[k].pc \in {"asked", "done"}
    /\ call' = [call EXCEPT ![k].pc = "failed"]
    /\ astray' = (astray \/ call[k].pc = "done")
    /\ UNCHANGED <<account, profile, step, shownCodes>>

-----------------------------------------------------------------------------
(* The answers.                                                            *)

\* A mutant of WrittenBack: what the page has is kept but for the factor.
WrittenNowhere(k) == profile

\* The copy seen at the click, changed by the answer.
WrittenBack(k) ==
    CASE k = "save" -> [call[k].seen EXCEPT !.photo = call[k].got]
      [] k = "photo" -> [call[k].seen EXCEPT !.photo = call[k].got]
      [] k \in {"turnOff", "smsTurnOff"} ->
           [call[k].seen EXCEPT ![FactorOf(k)] = FALSE]
      [] k = "smsSetUp" /\ call[k].confirm -> [call[k].seen EXCEPT !.sms = TRUE]
      [] OTHER -> profile

\* A mutant of NextStep: the codes are passed over.
NextStepAtOnce(k) == IF call[k].confirm THEN "idle" ELSE "confirm"

\* Where the set-up stands after the answer, cancelled or not.
NextStep(k) ==
    IF ~call[k].confirm THEN "confirm"
    ELSE IF k = "setUp" THEN "codes" ELSE "idle"

Answered(k) ==
    /\ call[k].pc = "done"
    /\ profile' = WrittenBack(k)
    /\ step' = IF k \in {"setUp", "smsSetUp"}
               THEN [step EXCEPT ![FactorOf(k)] = NextStep(k)] ELSE step
    /\ shownCodes' = (shownCodes \/ step'["totp"] = "codes")
    /\ astray' = \/ astray
                 \/ k # "setUp" /\ call[k].seen # profile
                 \/ k \in {"save", "photo"} /\ call[k].got # account.photo
    /\ call' = [call EXCEPT ![k] = Idle]
    /\ UNCHANGED <<account>>

Refused(k) ==
    /\ call[k].pc = "failed"
    /\ call' = [call EXCEPT ![k] = Idle]
    /\ UNCHANGED <<account, profile, step, shownCodes, astray>>

Next ==
    \/ Save \/ ChoosePhoto \/ FinishSetUp
    \/ \E f \in Factors : CancelSetUp(f)
    \/ \E k \in Kinds : SetUp(k) \/ TurnOff(k) \/ Serve(k) \/ Fail(k)
                          \/ Answered(k) \/ Refused(k)

Spec == Init /\ [][Next]_vars

-----------------------------------------------------------------------------
(* Properties.                                                             *)

Quiet == \A k \in Kinds : call[k] = Idle

(* When no call is in flight and no codes are being shown the page has the *)
(* profile of the account, unless a section wrote back a copy older than   *)
(* what the page had, or an answer was lost.                               *)
ProfileIsTrue ==
    Quiet /\ step["totp"] # "codes" /\ ~astray => profile = account

(* The authenticator is on with backup codes that were shown, unless the   *)
(* answer that had them is on its way or was lost.                         *)
CodesAreShown ==
    account.totp /\ call["setUp"].pc # "done" /\ ~astray => shownCodes
-----------------------------------------------------------------------------
(* The inductive invariant.  While nothing went astray, what the page has  *)
(* differs from the account only by what a call that is served has still   *)
(* to say, or by codes that are still to be noted down; a factor is set up *)
(* only while the page has it off, and turned off only while it has it on. *)

Served(k) == call[k].pc = "done"
Confirmed(k) == Served(k) /\ call[k].confirm

\* setting and turning are the calls that set factor f up and turn it off.
OneAtATime(f, setting, turning) ==
    /\ call[turning].pc # "idle" =>
          profile[f] /\ step[f] = "idle" /\ call[setting].pc = "idle"
    /\ call[setting].pc # "idle" => ~profile[f] /\ step[f] # "codes"
    /\ step[f] # "idle" => ~profile[f]

FactorIsKnown(f, setting, turning) ==
    account[f] = IF Confirmed(setting) \/ step[f] = "codes" THEN TRUE
                 ELSE IF Served(turning) THEN FALSE ELSE profile[f]

Inv ==
    /\ TypeOK
    /\ step["sms"] # "codes"
    /\ ~astray =>
          /\ OneAtATime("totp", "setUp", "turnOff")
          /\ OneAtATime("sms", "smsSetUp", "smsTurnOff")
          /\ FactorIsKnown("totp", "setUp", "turnOff")
          /\ FactorIsKnown("sms", "smsSetUp", "smsTurnOff")
          /\ Served("photo") \/ profile.photo = account.photo
          /\ account.totp /\ ~Confirmed("setUp") => shownCodes
=============================================================================

------------------------------ MODULE Accounts ------------------------------
(***************************************************************************)
(* The ways into an account: a password, linked Google and Apple           *)
(* identities, passkeys - how they come and go, and the one-time rows      *)
(* (provider state, login exchange, WebAuthn challenge) each redirect or   *)
(* ceremony is carried by.                                                 *)
(*                                                                         *)
(* An account is named by its e-mail address, which is unique and never    *)
(* changes.  What a sign-in then does to sessions is in Credentials.       *)
(***************************************************************************)
EXTENDS Naturals

CONSTANTS
    Users,      \* e-mail addresses, each of at most one account
    Identities, \* accounts at Google or Apple
    Keys,       \* passkey credentials
    Rows,       \* one-time rows (a bound)
    Handlers,   \* calls in progress at once (a bound)
    None        \* null

\* What an instance of this module assumes of its constants.
NoneIsNoUser == None \notin Users \cup Identities \cup Keys \cup Rows

VARIABLES
    made,       \* addresses with a row in the User table
    password,   \* those with a passwordHash
    linked,     \* the AuthIdentity table: the user of an identity
    passkey,    \* the Passkey table: the user of a credential
    row,        \* ExternalAuthState, OAuthLoginExchange, WebauthnChallenge
    stale,      \* rows past their expiresAt
    job,        \* job[h]: what handler h is doing and what it has read
    uses,       \* history: how often each row was redeemed
    excused     \* history: accounts that lost a passkey, two unlinkings of
                \* which overlapped, or whose creation was cut short

tables == <<made, password, linked, passkey, row, stale>>
history == <<uses, excused>>
vars == <<tables, job, history>>

Kinds == {"state", "exchange", "register", "authenticate"}

Row == [kind : Kinds \cup {"none", "gone"}, user : Users \cup {None}]

Job == [pc : {"idle", "create", "consume", "identity", "email", "attach",
              "mint", "redirect", "addKey", "unlink"},
        user : Users \cup {None}, row : Rows \cup {None},
        identity : Identities \cup {None}, email : Users \cup {None}]

Idle == [pc |-> "idle", user |-> None, row |-> None, identity |-> None,
         email |-> None]

TypeOK ==
    /\ made \subseteq Users /\ password \subseteq Users
    /\ linked \in [Identities -> Users \cup {None}]
    /\ passkey \in [Keys -> Users \cup {None}]
    /\ row \in [Rows -> Row]
    /\ stale \subseteq Rows
    /\ job \in [Handlers -> Job]
    /\ uses \in [Rows -> Nat]
    /\ excused \subseteq Users

Init ==
    /\ made = {} /\ password = {}
    /\ linked = [i \in Identities |-> None]
    /\ passkey = [k \in Keys |-> None]
    /\ row = [r \in Rows |-> [kind |-> "none", user |-> None]]
    /\ stale = {}
    /\ job = [h \in Handlers |-> Idle]
    /\ uses = [r \in Rows |-> 0]
    /\ excused = {}

Start(h, j) == job' = [job EXCEPT ![h] = j]

Goto(h, pc) == job' = [job EXCEPT ![h].pc = pc]

End(h) == job' = [job EXCEPT ![h] = Idle]

Insert(r, kind, u) ==
    /\ row[r].kind = "none"
    /\ row' = [row EXCEPT ![r] = [kind |-> kind, user |-> u]]

-----------------------------------------------------------------------------
(* Registration: createUser() looks for the address, then creates it.      *)

Register(h, e) ==
    /\ job[h].pc = "idle" /\ e \notin made
    /\ Start(h, [Idle EXCEPT !.pc = "create", !.user = e])
    /\ UNCHANGED <<tables, history>>

Create(h) ==
    LET e == job[h].user
    IN /\ job[h].pc = "create" /\ e \notin made
       /\ made' = made \cup {e} /\ password' = password \cup {e}
       /\ End(h)
       /\ UNCHANGED <<linked, passkey, row, stale, history>>

-----------------------------------------------------------------------------
(* One-time rows.                                                          *)

\* beginAuth(), beginLink(), and the options of the two passkey ceremonies.
Issue(kind, u, r) ==
    /\ kind \in {"state", "register", "authenticate"}
    /\ u = None \/ u \in made
    /\ (kind = "register") => u # None
    /\ (kind = "authenticate") => u = None
    /\ Insert(r, kind, u)
    /\ UNCHANGED <<made, password, linked, passkey, stale, job, history>>

\* The redirect or the ceremony comes back: the row is read ...
Return(h, r, i, e) ==
    /\ job[h].pc = "idle"
    /\ row[r].kind \in Kinds /\ r \notin stale
    /\ Start(h, [pc |-> "consume", user |-> row[r].user, row |-> r,
                 identity |-> IF row[r].kind = "state" THEN i ELSE None,
                 email |-> IF row[r].kind = "state" THEN e ELSE None])
    /\ UNCHANGED <<tables, history>>

\* A mutant of Present: what was read is not counted when it is deleted.
PresentAsRead(r) == TRUE

Present(r) == row[r].kind # "gone"

\* What a redeemed row is for.
After(kind) == CASE kind = "state" -> "identity"
                   [] kind = "register" -> "addKey"
                   [] OTHER -> "idle"

\* ... and deleted, which counts the rows it deleted.
Consume(h) ==
    LET r == job[h].row
    IN /\ job[h].pc = "consume"
       /\ IF Present(r)
          THEN /\ uses' = [uses EXCEPT ![r] = @ + 1]
               /\ row' = [row EXCEPT ![r].kind = "gone"]
               /\ IF After(row[r].kind) = "idle" THEN End(h)
                  ELSE Goto(h, After(row[r].kind))
          ELSE End(h) /\ UNCHANGED <<uses, row>>
       /\ UNCHANGED <<made, password, linked, passkey, stale, excused>>

Lapse(r) ==
    /\ row[r].kind \in Kinds /\ r \notin stale
    /\ stale' = stale \cup {r}
    /\ UNCHANGED <<made, password, linked, passkey, row, job, history>>

-----------------------------------------------------------------------------
(* Google and Apple.                                                       *)

\* finishLink() and resolveOrCreateUser(): first the identity is looked for.
FindIdentity(h) ==
    LET i == job[h].identity  u == job[h].user
    IN /\ job[h].pc = "identity"
       /\ \/ /\ u # None \* linking, to u
             /\ IF linked[i] = None
                THEN Start(h, [job[h] EXCEPT !.pc = "attach", !.email = None])
                ELSE End(h)
          \/ /\ u = None
             /\ IF linked[i] = None THEN Goto(h, "email")
                ELSE Start(h, [job[h] EXCEPT !.pc = "redirect", !.user = linked[i]])
       /\ UNCHANGED <<tables, history>>

\* Then the address: an account that has it gets the identity.
FindByEmail(h) ==
    LET e == job[h].email
    IN /\ job[h].pc = "email"
       /\ Start(h, [job[h] EXCEPT !.pc = IF e \in made THEN "attach" ELSE "mint",
                                  !.user = e])
       /\ UNCHANGED <<tables, history>>

\* Else one is made, without a password; the address is unique.
Mint(h) ==
    /\ job[h].pc = "mint" /\ job[h].user \notin made
    /\ made' = made \cup {job[h].user}
    /\ Goto(h, "attach")
    /\ UNCHANGED <<password, linked, passkey, row, stale, history>>

\* The identity is unique too: a second one fails.
Attach(h) ==
    LET i == job[h].identity
    IN /\ job[h].pc = "attach" /\ linked[i] = None
       /\ linked' = [linked EXCEPT ![i] = job[h].user]
       /\ IF job[h].email # None THEN Goto(h, "redirect") ELSE End(h)
       /\ UNCHANGED <<made, password, passkey, row, stale, history>>

\* buildSuccessRedirect() of an account without a second factor.
Redirect(h, r) ==
    /\ job[h].pc = "redirect"
    /\ Insert(r, "exchange", job[h].user)
    /\ End(h)
    /\ UNCHANGED <<made, password, linked, passkey, stale, history>>

\* A mutant of Others: the identity to unlink is counted as well.
OthersAndItself(u, i) == {j \in Identities : linked[j] = u}

Others(u, i) == {j \in Identities \ {i} : linked[j] = u}

KeysOf(u) == {k \in Keys : passkey[k] = u}

\* A way into the account of u besides identity i.
WayBut(u, i) == u \in password \/ Others(u, i) # {} \/ KeysOf(u) # {}

\* unlinkAccount(): the other ways in are counted ...
ReadUnlink(h, i) ==
    LET u == linked[i]
    IN /\ job[h].pc = "idle" /\ u # None
       /\ WayBut(u, i)
       /\ Start(h, [Idle EXCEPT !.pc = "unlink", !.user = u, !.identity = i])
       /\ excused' = IF \E k \in Handlers : job[k].pc = "unlink" /\ job[k].user = u
                     THEN excused \cup {u} ELSE excused
       /\ UNCHANGED <<tables, uses>>

\* ... and the row is deleted by its id: another unlinking of it will fail.
Unlink(h) ==
    LET i == job[h].identity
        same(k) == job[k].pc = "unlink" /\ job[k].identity = i
    IN /\ job[h].pc = "unlink"
       /\ linked' = [linked EXCEPT ![i] = None]
       /\ job' = [k \in Handlers |-> IF same(k) THEN Idle ELSE job[k]]
       /\ UNCHANGED <<made, password, passkey, row, stale, history>>

-----------------------------------------------------------------------------
(* Passkeys.                                                               *)

\* A credential is unique: registering it again fails.
AddKey(h, k) ==
    /\ job[h].pc = "addKey" /\ passkey[k] = None
    /\ passkey' = [passkey EXCEPT ![k] = job[h].user]
    /\ End(h)
    /\ UNCHANGED <<made, password, linked, row, stale, history>>

\* removePasskey() looks at nothing else.
RemovePasskey(k) ==
    /\ passkey[k] # None
    /\ excused' = excused \cup {passkey[k]}
    /\ passkey' = [passkey EXCEPT ![k] = None]
    /\ UNCHANGED <<made, password, linked, row, stale, job, uses>>

\* A constraint or a check fails, the provider is down, the process restarts.
Stop(h) ==
    /\ job[h].pc # "idle"
    /\ End(h)
    /\ excused' = IF job[h].pc = "attach" THEN excused \cup {job[h].user} ELSE excused
    /\ UNCHANGED <<tables, uses>>

Next ==
    \/ \E kind \in Kinds, u \in Users \cup {None}, r \in Rows : Issue(kind, u, r)
    \/ \E r \in Rows : Lapse(r)
    \/ \E k \in Keys : RemovePasskey(k)
    \/ \E h \in Handlers :
          \/ \E e \in Users : Register(h, e)
          \/ \E r \in Rows, i \in Identities, e \in Users : Return(h, r, i, e)
          \/ \E r \in Rows : Redirect(h, r)
          \/ \E i \in Identities : ReadUnlink(h, i)
          \/ \E k \in Keys : AddKey(h, k)
          \/ Create(h) \/ Consume(h) \/ FindIdentity(h) \/ FindByEmail(h)
          \/ Mint(h) \/ Attach(h) \/ Unlink(h) \/ Stop(h)

Spec == Init /\ [][Next]_vars

-----------------------------------------------------------------------------
(* Properties.                                                             *)

(* A row is redeemed once, however often a redirect is followed or a       *)
(* ceremony returned.                                                      *)
RowsWorkOnce == \A r \in Rows : uses[r] <= 1

(* "Guards against locking someone out of their own account": when nothing *)
(* of an account is in progress there is a way into it - unless a passkey  *)
(* was removed, which nothing guards, two unlinkings overlapped, or a call *)
(* was cut between making the account and attaching its identity.          *)
SomeWayIn ==
    \A u \in made \ excused :
        \/ WayBut(u, None)
        \/ \E h \in Handlers : job[h].pc = "attach" /\ job[h].user = u

-----------------------------------------------------------------------------
(* The inductive invariant.  unlinkAccount() counts the other ways in and  *)
(* deletes one later: meanwhile the count stays right, the identity to go  *)
(* still is the user's and another way in is left (Knows), because only    *)
(* calls that unlink take an identity away, and of two of one user the     *)
(* property knows (OverlapIsKnown).                                        *)

\* What a call knows of what it works with: above all, an identity that is
\* to be unlinked still is the user's, who still has another way in.
Knows(h) ==
    LET j == job[h]
    IN /\ j.pc = "consume" =>
             /\ j.row \in Rows /\ row[j.row].kind # "none"
             /\ row[j.row].kind = "state" => /\ j.identity \in Identities
                                            /\ j.email \in Users
       /\ j.pc \in {"identity", "email"} => j.identity \in Identities /\ j.email \in Users
       /\ j.pc \in {"mint", "attach"} => j.identity \in Identities
       /\ j.pc \in {"create", "mint", "attach"} => j.user \in Users
       /\ j.pc = "unlink" => /\ j.user \in Users /\ j.identity \in Identities
                             /\ linked[j.identity] = j.user
                             /\ j.user \in excused \/ WayBut(j.user, j.identity)

\* Two calls that unlink identities of one user are known to overlap.
OverlapIsKnown ==
    \A g, h \in Handlers :
        /\ job[g].pc = "unlink" /\ job[h].pc = "unlink"
        /\ job[g].user = job[h].user
        => g = h \/ job[h].user \in excused

\* A row was redeemed if and only if it is gone.
GoneOnceUsed == \A r \in Rows : uses[r] = IF row[r].kind = "gone" THEN 1 ELSE 0

Inv == /\ TypeOK /\ SomeWayIn /\ OverlapIsKnown /\ GoneOnceUsed
       /\ \A h \in Handlers : Knows(h)
=============================================================================

--------------------------- MODULE OAuthProvider ----------------------------
(***************************************************************************)
(* NDY HUB as an OAuth provider for one user (rows of different users      *)
(* never meet): the consent page, grants, authorization codes with PKCE,   *)
(* the token endpoint and the revocation of a connected website.           *)
(*                                                                         *)
(* A call takes a step per database statement.  Token families with their  *)
(* reuse detection, and the sign-ins to a client with a password or a      *)
(* passkey, which no grant is behind, are in Credentials.                  *)
(***************************************************************************)
EXTENDS Naturals

CONSTANTS
    Clients,    \* registered clients
    Public,     \* those of type PUBLIC: no secret
    Scopes,
    Codes,      \* rows of OAuthAuthorizationCode (a bound)
    Tokens,     \* rows of OAuthRefreshToken (a bound)
    Handlers,   \* calls in progress at once (a bound)
    None        \* null

\* What an instance of this module assumes of its constants.
ClientsAreSound == /\ Public \subseteq Clients
                   /\ None \notin Clients \cup Codes
                   /\ Codes \cap Handlers = {}

VARIABLES
    active,     \* clients with OAuthClient.isActive
    grant,      \* the user's OAuthGrant rows
    code,       \* the OAuthAuthorizationCode table
    overdue,    \* codes past their expiresAt
    token,      \* the OAuthRefreshToken table
    job,        \* job[h]: what handler h is doing and what it has read
    approved,   \* history: the scopes the user has approved, by client
    granted,    \* history: the scopes written to a grant, by client
    contested,  \* history: clients two consents to which overlapped
    exchanged,  \* history: how often each code was exchanged
    late        \* history: codes, and consents about to make one, that were
                \* outstanding when their client was disconnected

tables == <<active, grant, code, overdue, token>>
history == <<approved, granted, contested, exchanged, late>>
vars == <<tables, job, history>>

Grant == [made : BOOLEAN, live : BOOLEAN, scope : SUBSET Scopes]

Code == [client : Clients \cup {None}, scope : SUBSET Scopes,
         pkce : BOOLEAN, used : BOOLEAN]

Token == [client : Clients \cup {None}, scope : SUBSET Scopes,
          via : Codes \cup {None}, live : BOOLEAN]

Job == [pc : {"idle", "consent", "upsert", "code", "redeem", "rotate", "issue"},
        client : Clients \cup {None}, scope : SUBSET Scopes,
        seen : SUBSET Scopes, code : Codes \cup {None},
        token : Tokens \cup {None}, proof : BOOLEAN]

Idle == [pc |-> "idle", client |-> None, scope |-> {}, seen |-> {},
         code |-> None, token |-> None, proof |-> FALSE]

NoCode == [client |-> None, scope |-> {}, pkce |-> FALSE, used |-> FALSE]

NoToken == [client |-> None, scope |-> {}, via |-> None, live |-> FALSE]

TypeOK ==
    /\ active \subseteq Clients
    /\ grant \in [Clients -> Grant]
    /\ code \in [Codes -> Code]
    /\ overdue \subseteq Codes
    /\ token \in [Tokens -> Token]
    /\ job \in [Handlers -> Job]
    /\ approved \in [Clients -> SUBSET Scopes]
    /\ granted \in [Clients -> SUBSET Scopes]
    /\ contested \subseteq Clients
    /\ exchanged \in [Codes -> Nat]
    /\ late \subseteq Codes \cup Handlers

Init ==
    /\ active = Clients
    /\ grant = [c \in Clients |-> [made |-> FALSE, live |-> FALSE, scope |-> {}]]
    /\ code = [k \in Codes |-> NoCode] /\ overdue = {}
    /\ token = [t \in Tokens |-> NoToken]
    /\ job = [h \in Handlers |-> Idle]
    /\ approved = [c \in Clients |-> {}]
    /\ granted = [c \in Clients |-> {}]
    /\ contested = {}
    /\ exchanged = [k \in Codes |-> 0]
    /\ late = {}

Start(h, pc, c, s) ==
    job' = [job EXCEPT ![h] = [Idle EXCEPT !.pc = pc, !.client = c, !.scope = s]]

Goto(h, pc) == job' = [job EXCEPT ![h].pc = pc]

End(h) == job' = [job EXCEPT ![h] = Idle]

-----------------------------------------------------------------------------
(* Consent.                                                                *)

\* A mutant of Covers: one scope granted covers all.
CoversSome(c, s) == grant[c].live /\ grant[c].scope \cap s # {}

\* findExistingCoveringGrant()
Covers(c, s) == grant[c].live /\ s \subseteq grant[c].scope

(* The consent page asks for the status of a request it was sent to with:  *)
(* what is covered it consents to by itself, the rest the user approves    *)
(* (or not, which changes nothing).                                        *)
Ask(h, c, s) ==
    /\ job[h].pc = "idle"
    /\ c \in active /\ s # {}
    /\ approved' = IF Covers(c, s) THEN approved
                   ELSE [approved EXCEPT ![c] = @ \cup s]
    /\ Start(h, "consent", c, s)
    /\ UNCHANGED <<tables, granted, contested, exchanged, late>>

\* A mutant of ScopeSeen: a revoked grant counts as none.
ScopeSeenLive(c) == IF grant[c].live THEN grant[c].scope ELSE {}

ScopeSeen(c) == grant[c].scope

\* consent(), upsertGrant(): the scopes granted so far are read ...
ReadGrant(h) ==
    LET c == job[h].client
    IN /\ job[h].pc = "consent" /\ c \in active
       /\ job' = [job EXCEPT ![h].pc = "upsert", ![h].seen = ScopeSeen(c)]
       /\ contested' = IF \E k \in Handlers : job[k].client = c /\ job[k].pc = "upsert"
                       THEN contested \cup {c} ELSE contested
       /\ UNCHANGED <<tables, approved, granted, exchanged, late>>

\* ... their union with the ones asked for is written ...
UpsertGrant(h) ==
    LET c == job[h].client
    IN /\ job[h].pc = "upsert"
       /\ grant' = [grant EXCEPT ![c] = [made |-> TRUE, live |-> TRUE,
                                         scope |-> job[h].seen \cup job[h].scope]]
       /\ granted' = [granted EXCEPT ![c] = @ \cup job[h].scope]
       /\ Goto(h, "code")
       /\ UNCHANGED <<active, code, overdue, token, approved, contested, exchanged, late>>

\* ... and a code is made, with the page's challenge if it has one.
IssueCode(h, k) ==
    /\ job[h].pc = "code" /\ code[k].client = None
    /\ \E p \in BOOLEAN :
          code' = [code EXCEPT ![k] = [client |-> job[h].client, scope |-> job[h].scope,
                                       pkce |-> p, used |-> FALSE]]
    /\ late' = IF h \in late THEN (late \ {h}) \cup {k} ELSE late
    /\ End(h)
    /\ UNCHANGED <<active, grant, overdue, token, approved, granted, contested, exchanged>>

-----------------------------------------------------------------------------
(* The token endpoint.                                                     *)

\* redeem(): the code is read and found to be this client's and in time ...
ReadCode(h, c, k, proof) ==
    /\ job[h].pc = "idle"
    /\ c \in active /\ code[k].client = c /\ k \notin overdue
    /\ job' = [job EXCEPT ![h] = [Idle EXCEPT !.pc = "redeem", !.client = c,
                                     !.scope = code[k].scope, !.code = k,
                                     !.proof = proof]]
    /\ UNCHANGED <<tables, history>>

\* A mutant of Unused: what was read is not read again.
UnusedAsRead(k) == TRUE

\* updateMany({where: {code, usedAt: null}})
Unused(k) == ~code[k].used

\* A mutant of Proven: a public client may leave its verifier out.
ProvenIfAny(h) == code[job[h].code].pkce => job[h].proof

\* verifyPkceChallenge(), which a public client cannot do without.
Proven(h) ==
    LET k == job[h].code
    IN /\ job[h].client \in Public => code[k].pkce
       /\ code[k].pkce => job[h].proof

\* ... then used up, and only then is the verifier looked at.
Redeem(h) ==
    LET k == job[h].code
    IN /\ job[h].pc = "redeem"
       /\ IF Unused(k)
          THEN /\ code' = [code EXCEPT ![k].used = TRUE]
               /\ IF Proven(h)
                  THEN /\ Goto(h, "issue")
                       /\ exchanged' = [exchanged EXCEPT ![k] = @ + 1]
                  ELSE End(h) /\ UNCHANGED exchanged
          ELSE End(h) /\ UNCHANGED <<code, exchanged>>
       /\ UNCHANGED <<active, grant, overdue, token, approved, granted, contested, late>>

\* rotateRefreshToken(): the row is read ...
ReadToken(h, t) ==
    /\ job[h].pc = "idle"
    /\ token[t].live /\ token[t].client \in active
    /\ job' = [job EXCEPT ![h] = [Idle EXCEPT !.pc = "rotate", !.token = t,
                                     !.client = token[t].client,
                                     !.scope = token[t].scope,
                                     !.code = token[t].via]]
    /\ UNCHANGED <<tables, history>>

\* ... and revoked by id, on no condition.
Rotate(h) ==
    /\ job[h].pc = "rotate"
    /\ token' = [token EXCEPT ![job[h].token].live = FALSE]
    /\ Goto(h, "issue")
    /\ UNCHANGED <<active, grant, code, overdue, history>>

\* issueTokenSet()
Issue(h, t) ==
    /\ job[h].pc = "issue" /\ token[t].client = None
    /\ token' = [token EXCEPT ![t] = [client |-> job[h].client, scope |-> job[h].scope,
                                      via |-> job[h].code, live |-> TRUE]]
    /\ End(h)
    /\ UNCHANGED <<active, grant, code, overdue, history>>

-----------------------------------------------------------------------------
(* Disconnecting a website, and the admin's switch.                        *)

\* What may still become a token of c: codes, and calls past their reads.
Outstanding(c) ==
    {k \in Codes : code[k].client = c /\ ~code[k].used}
        \cup {job[h].code : h \in {x \in Handlers :
                 job[x].client = c /\ job[x].pc \in {"redeem", "rotate", "issue"}}}
        \cup {h \in Handlers : job[h].client = c /\ job[h].pc = "code"}

\* A mutant of Sweep: the tile is hidden, the tokens stay.
SweepNothing(c) == token

Sweep(c) == [t \in Tokens |-> IF token[t].client = c
                              THEN [token[t] EXCEPT !.live = FALSE] ELSE token[t]]

\* revoke(): one transaction over the grant and its client's tokens.
RevokeGrant(c) ==
    /\ grant[c].made
    /\ grant' = [grant EXCEPT ![c].live = FALSE]
    /\ token' = Sweep(c)
    /\ late' = late \cup Outstanding(c)
    /\ UNCHANGED <<active, code, overdue, job, approved, granted, contested, exchanged>>

SetActive(c) ==
    /\ active' = IF c \in active THEN active \ {c} ELSE active \cup {c}
    /\ UNCHANGED <<grant, code, overdue, token, job, history>>

Lapse(k) ==
    /\ code[k].client # None /\ k \notin overdue
    /\ overdue' = overdue \cup {k}
    /\ UNCHANGED <<active, grant, code, token, job, history>>

\* A refusal, a query that throws, the tab is closed, the process restarts.
Leave(h) ==
    /\ job[h].pc # "idle"
    /\ End(h)
    /\ late' = late \ {h}
    /\ UNCHANGED <<tables, approved, granted, contested, exchanged>>

Next ==
    \/ \E c \in Clients : RevokeGrant(c) \/ SetActive(c)
    \/ \E k \in Codes : Lapse(k)
    \/ \E h \in Handlers :
          \/ \E c \in Clients, s \in SUBSET Scopes : Ask(h, c, s)
          \/ ReadGrant(h) \/ UpsertGrant(h) \/ Redeem(h) \/ Rotate(h) \/ Leave(h)
          \/ \E k \in Codes : IssueCode(h, k)
          \/ \E c \in Clients, k \in Codes, p \in BOOLEAN : ReadCode(h, c, k, p)
          \/ \E t \in Tokens : ReadToken(h, t) \/ Issue(h, t)

Spec == Init /\ [][Next]_vars

-----------------------------------------------------------------------------
(* Properties.                                                             *)

(* Behind every token that came from a code there is the user's consent to *)
(* all of its scopes, for that client, and one exchange of that code.      *)
TokensWereConsented ==
    \A t \in Tokens :
        LET k == token[t].via
        IN k # None =>
              /\ token[t].client = code[k].client
              /\ token[t].scope \subseteq approved[token[t].client]
              /\ exchanged[k] = 1
              /\ token[t].client \in Public => code[k].pkce

(* "Revoke a website connection" cuts its access: no token from a code is  *)
(* live without its grant - but for what was outstanding when the user     *)
(* disconnected it, which the sweep of the tokens there are cannot reach.  *)
AccessFollowsGrant ==
    \A t \in Tokens :
        token[t].live /\ token[t].via \notin late =>
            grant[token[t].client].live

(* A grant holds everything that was ever consented to and nothing else:   *)
(* no consent loses the scopes of another unless the two overlapped.       *)
NoConsentIsLost ==
    \A c \in Clients :
        /\ grant[c].scope \subseteq approved[c]
        /\ c \notin contested => granted[c] = grant[c].scope
=============================================================================

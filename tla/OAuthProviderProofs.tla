------------------------- MODULE OAuthProviderProofs -------------------------
(***************************************************************************)
(* Proofs about OAuthProvider: behind every token there is the user's      *)
(* consent and one exchange of a code, disconnecting a website cuts every  *)
(* token that was not on its way, and no consent loses another's scopes.   *)
(*                                                                         *)
(* None of the three is inductive. A token is made from what a call read   *)
(* when it exchanged a code, so the invariant says what each call knows    *)
(* (Calls), what a code stands for (CodesStand), and which of the things   *)
(* that may still become a token have their grant (Cut).                   *)
(***************************************************************************)
EXTENDS OAuthProvider, TLAPS

\* Code k was exchanged once, by client c, for scopes that include s.
Exchanged(k, c, s) ==
    /\ k \in Codes
    /\ code[k].client = c
    /\ s \subseteq code[k].scope
    /\ exchanged[k] = 1
    /\ c \in Public => code[k].pkce

\* What a call knows of what it has asked for, or read.
Knows(h) ==
    LET j == job[h]
    IN /\ j.pc # "idle" => j.client \in Clients
       /\ j.pc \in {"consent", "upsert", "code"} => j.scope \subseteq approved[j.client]
       /\ j.pc = "upsert" => j.seen \subseteq approved[j.client]
       /\ j.pc = "redeem" => /\ j.code \in Codes
                             /\ code[j.code].client = j.client
                             /\ j.scope = code[j.code].scope
       /\ j.pc \in {"rotate", "issue"} => Exchanged(j.code, j.client, j.scope)

\* A code stands for scopes that were approved; it is exchanged as it is used up.
Stands(k) ==
    /\ code[k].client # None => code[k].scope \subseteq approved[code[k].client]
    /\ exchanged[k] # 0 => exchanged[k] = 1 /\ code[k].used
    /\ code[k].client = None => ~code[k].used

\* A token comes from a code that was exchanged.
Comes(t) ==
    /\ token[t].client # None =>
          Exchanged(token[t].via, token[t].client, token[t].scope)
    /\ token[t].client = None => token[t].via = None /\ ~token[t].live

\* A grant holds what was consented to, unless two consents overlapped: then
\* the one call between its read and its write has read what is there.
Holds(c) ==
    /\ grant[c].scope \subseteq approved[c]
    /\ c \notin contested =>
          /\ granted[c] = grant[c].scope
          /\ \A h \in Handlers : job[h].pc = "upsert" /\ job[h].client = c =>
                job[h].seen = grant[c].scope
          /\ \A g, h \in Handlers :
                /\ job[g].pc = "upsert" /\ job[g].client = c
                /\ job[h].pc = "upsert" /\ job[h].client = c
                => g = h

\* What is on its way to a token of a client has the client's grant behind it,
\* but for what was outstanding when the client was disconnected.
CodeCut(k) ==
    code[k].client # None /\ ~code[k].used /\ k \notin late =>
        grant[code[k].client].live

CallCut(h) ==
    /\ job[h].pc \in {"rotate", "issue"} /\ job[h].code \notin late =>
          grant[job[h].client].live
    /\ job[h].pc = "code" /\ h \notin late => grant[job[h].client].live

TokenCut(t) ==
    token[t].live /\ token[t].via \notin late => grant[token[t].client].live

Inv ==
    /\ TypeOK
    /\ \A h \in Handlers : Knows(h) /\ CallCut(h)
    /\ \A k \in Codes : Stands(k) /\ CodeCut(k)
    /\ \A t \in Tokens : Comes(t) /\ TokenCut(t)
    /\ \A c \in Clients : Holds(c)

-----------------------------------------------------------------------------
\* With no consent given, the invariant holds.
LEMMA InitInv == ClientsAreSound /\ Init => Inv
<1> SUFFICES ASSUME ClientsAreSound, Init PROVE Inv
  OBVIOUS
<1>1. TypeOK
  BY DEF Init, TypeOK, Grant, Code, Token, Job, Idle, NoCode, NoToken
<1>2. \A h \in Handlers : Knows(h) /\ CallCut(h)
  BY DEF Init, Knows, CallCut, Idle
<1>3. \A k \in Codes : Stands(k) /\ CodeCut(k)
  BY DEF Init, Stands, CodeCut, NoCode
<1>4. \A t \in Tokens : Comes(t) /\ TokenCut(t)
  BY DEF Init, Comes, TokenCut, NoToken
<1>5. \A c \in Clients : Holds(c)
  BY DEF Init, Holds, Idle
<1> QED
  BY <1>1, <1>2, <1>3, <1>4, <1>5 DEF Inv

\* Ask keeps the invariant.
LEMMA AskInv ==
  ASSUME ClientsAreSound, Inv, NEW h \in Handlers,
         NEW c \in Clients, NEW s \in SUBSET Scopes, Ask(h, c, s)
  PROVE  Inv'
<1>1. TypeOK'
  BY DEF Inv, Ask, Start, Idle, tables, TypeOK, Grant, Code, Token, Job,
      ClientsAreSound
<1>2. \A x \in Handlers : Knows(x)'
  BY DEF Inv, Ask, Start, Idle, tables, Covers, Holds, Knows, Exchanged, TypeOK,
      Grant, Code, Token, Job, ClientsAreSound
<1>3. \A x \in Handlers : CallCut(x)'
  BY DEF Inv, Ask, Start, Idle, tables, CallCut, Knows, Exchanged, TypeOK, Grant,
      Code, Token, Job, ClientsAreSound
<1>4. \A x \in Codes : Stands(x)'
  BY DEF Inv, Ask, Start, Idle, tables, Stands, Knows, TypeOK, Code, Job,
      ClientsAreSound
<1>5. \A x \in Codes : CodeCut(x)'
  BY DEF Inv, Ask, Start, Idle, tables, CodeCut, Knows, Stands, TypeOK, Grant,
      Code, Job, ClientsAreSound
<1>6. \A x \in Tokens : Comes(x)'
  BY DEF Inv, Ask, Start, Idle, tables, Comes, Knows, Exchanged, Stands, TypeOK,
      Code, Token, Job, ClientsAreSound
<1>7. \A x \in Tokens : TokenCut(x)'
  BY DEF Inv, Ask, Start, Idle, tables, TokenCut, Comes, Exchanged, TypeOK, Grant,
      Token, Job, ClientsAreSound
<1>8. \A x \in Clients : Holds(x)'
  BY DEF Inv, Ask, Start, Idle, tables, Holds, Knows, TypeOK, Grant, Job,
      ClientsAreSound
<1> QED
  BY <1>1, <1>2, <1>3, <1>4, <1>5, <1>6, <1>7, <1>8 DEF Inv

\* ReadGrant keeps the invariant.
LEMMA ReadGrantInv ==
  ASSUME ClientsAreSound, Inv, NEW h \in Handlers, ReadGrant(h)
  PROVE  Inv'
<1>1. TypeOK'
  <2>1. job[h].client \in Clients /\ grant[job[h].client].scope \in SUBSET Scopes
    BY DEF Inv, Knows, ReadGrant, TypeOK, Grant
  <2>2. job' \in [Handlers -> Job]
    <3>1. [job[h] EXCEPT !.pc = "upsert", !.seen = grant[job[h].client].scope]
             \in Job
      BY <2>1 DEF Inv, TypeOK, Job
    <3>2. job' = [job EXCEPT ![h] = [job[h] EXCEPT
                     !.pc = "upsert", !.seen = grant[job[h].client].scope]]
      BY DEF ReadGrant, ScopeSeen
    <3> QED
      BY <3>1, <3>2 DEF Inv, TypeOK
  <2> QED
    BY <2>1, <2>2 DEF Inv, ReadGrant, tables, TypeOK
<1>2. \A x \in Handlers : Knows(x)'
  BY DEF Inv, ReadGrant, ScopeSeen, tables, Holds, Knows, Exchanged, TypeOK,
      Grant, Code, Token, Job, ClientsAreSound
<1>3. \A x \in Handlers : CallCut(x)'
  BY DEF Inv, ReadGrant, ScopeSeen, tables, CallCut, Knows, Exchanged, TypeOK,
      Grant, Code, Token, Job, ClientsAreSound
<1>4. \A x \in Codes : Stands(x)'
  BY DEF Inv, ReadGrant, ScopeSeen, tables, Stands, Knows, TypeOK, Code, Job,
      ClientsAreSound
<1>5. \A x \in Codes : CodeCut(x)'
  BY DEF Inv, ReadGrant, ScopeSeen, tables, CodeCut, Knows, Stands, TypeOK, Grant,
      Code, Job, ClientsAreSound
<1>6. \A x \in Tokens : Comes(x)'
  BY DEF Inv, ReadGrant, ScopeSeen, tables, Comes, Knows, Exchanged, Stands,
      TypeOK, Code, Token, Job, ClientsAreSound
<1>7. \A x \in Tokens : TokenCut(x)'
  BY DEF Inv, ReadGrant, ScopeSeen, tables, TokenCut, Comes, Exchanged, TypeOK,
      Grant, Token, Job, ClientsAreSound
<1>8. \A x \in Clients : Holds(x)'
  BY DEF Inv, ReadGrant, ScopeSeen, tables, Holds, Knows, TypeOK, Grant, Job,
      ClientsAreSound
<1> QED
  BY <1>1, <1>2, <1>3, <1>4, <1>5, <1>6, <1>7, <1>8 DEF Inv

\* UpsertGrant keeps the invariant.
LEMMA UpsertGrantInv ==
  ASSUME ClientsAreSound, Inv, NEW h \in Handlers, UpsertGrant(h)
  PROVE  Inv'
<1>1. TypeOK'
  <2>1. /\ job[h].client \in Clients
        /\ job[h].seen \cup job[h].scope \in SUBSET Scopes
    BY DEF Inv, Knows, UpsertGrant, TypeOK, Job
  <2>2. grant' \in [Clients -> Grant]
    BY <2>1 DEF Inv, UpsertGrant, TypeOK, Grant
  <2>3. granted' \in [Clients -> SUBSET Scopes]
    BY <2>1 DEF Inv, UpsertGrant, TypeOK, Job
  <2>4. job' \in [Handlers -> Job]
    BY DEF Inv, UpsertGrant, Goto, TypeOK, Job
  <2> QED
    BY <2>2, <2>3, <2>4 DEF Inv, UpsertGrant, TypeOK
<1>2. \A x \in Handlers : Knows(x)'
  BY DEF Inv, UpsertGrant, Goto, Knows, Exchanged, TypeOK, Grant, Code, Token,
      Job, ClientsAreSound
<1>3. \A x \in Handlers : CallCut(x)'
  BY DEF Inv, UpsertGrant, Goto, CallCut, Knows, Exchanged, TypeOK, Grant, Code,
      Token, Job, ClientsAreSound
<1>4. \A x \in Codes : Stands(x)'
  BY DEF Inv, UpsertGrant, Goto, Stands, Knows, TypeOK, Code, Job,
      ClientsAreSound
<1>5. \A x \in Codes : CodeCut(x)'
  BY DEF Inv, UpsertGrant, Goto, CodeCut, Knows, Stands, TypeOK, Grant, Code, Job,
      ClientsAreSound
<1>6. \A x \in Tokens : Comes(x)'
  BY DEF Inv, UpsertGrant, Goto, Comes, Knows, Exchanged, Stands, TypeOK, Code,
      Token, Job, ClientsAreSound
<1>7. \A x \in Tokens : TokenCut(x)'
  BY DEF Inv, UpsertGrant, Goto, TokenCut, Comes, Exchanged, TypeOK, Grant, Token,
      Job, ClientsAreSound
<1>8. \A x \in Clients : Holds(x)'
  <2>1. job[h].client \in Clients /\ job[h].pc = "upsert"
    BY DEF Inv, Knows, UpsertGrant
  <2> SUFFICES ASSUME NEW c \in Clients PROVE Holds(c)'
    OBVIOUS
  <2>2. \A g \in Handlers : /\ g # h => job'[g] = job[g]
                            /\ g = h => job'[g].pc = "code"
    BY DEF Inv, UpsertGrant, Goto, TypeOK, Job
  <2>3. Holds(c) /\ approved'[c] = approved[c] /\ contested' = contested
    BY DEF Inv, UpsertGrant
  <2>4. CASE c # job[h].client
    <3>1. grant'[c] = grant[c] /\ granted'[c] = granted[c]
      BY <2>4 DEF Inv, UpsertGrant, TypeOK
    <3> QED
      BY <2>2, <2>3, <3>1 DEF Holds
  <2>5. CASE c = job[h].client
    <3>1. /\ grant'[c].scope = job[h].seen \cup job[h].scope
          /\ granted'[c] = granted[c] \cup job[h].scope
      BY <2>5 DEF Inv, UpsertGrant, TypeOK, Grant
    <3>2. /\ job[h].seen \subseteq approved[c]
          /\ job[h].scope \subseteq approved[c]
      BY <2>1, <2>5 DEF Inv, Knows
    <3>3. c \notin contested => /\ granted[c] = job[h].seen
                                /\ \A g \in Handlers \ {h} :
                                      ~(job[g].pc = "upsert" /\ job[g].client = c)
      BY <2>1, <2>3, <2>5 DEF Holds
    <3> QED
      BY <2>2, <2>3, <3>1, <3>2, <3>3 DEF Holds
  <2> QED
    BY <2>4, <2>5
<1> QED
  BY <1>1, <1>2, <1>3, <1>4, <1>5, <1>6, <1>7, <1>8 DEF Inv

\* IssueCode keeps the invariant.
LEMMA IssueCodeInv ==
  ASSUME ClientsAreSound, Inv, NEW h \in Handlers, NEW k \in Codes, IssueCode(h, k)
  PROVE  Inv'
<1>1. TypeOK'
  BY DEF Inv, IssueCode, End, Idle, TypeOK, Grant, Code, Token, Job,
      ClientsAreSound
<1>2. \A x \in Handlers : Knows(x)'
  BY DEF Inv, IssueCode, End, Idle, Knows, Exchanged, TypeOK, Grant, Code, Token,
      Job, ClientsAreSound
<1>3. \A x \in Handlers : CallCut(x)'
  <2>1. \A g \in Handlers : /\ g # h => job'[g] = job[g]
                            /\ g = h => job'[g].pc = "idle"
    BY DEF Inv, IssueCode, End, Idle, TypeOK
  <2>2. /\ grant' = grant
        /\ \A x \in (Handlers \ {h}) \cup Codes : x \in late => x \in late'
    BY DEF IssueCode, ClientsAreSound
  <2>3. \A g \in Handlers : job[g].pc \in {"rotate", "issue"} => job[g].code \in Codes
    BY DEF Inv, Knows, Exchanged
  <2>4. \A g \in Handlers : CallCut(g)
    BY DEF Inv
  <2> QED
    BY <2>1, <2>2, <2>3, <2>4 DEF CallCut
<1>4. \A x \in Codes : Stands(x)'
  <2>1. PICK p \in BOOLEAN :
           code' = [code EXCEPT ![k] = [client |-> job[h].client,
                                        scope |-> job[h].scope,
                                        pkce |-> p, used |-> FALSE]]
    BY DEF IssueCode
  <2>2. exchanged[k] = 0
    BY DEF Inv, IssueCode, Stands, Knows
  <2>3. job[h].scope \subseteq approved[job[h].client]
    BY DEF Inv, IssueCode, Knows
  <2>4. \A x \in Codes \ {k} : code'[x] = code[x]
    BY <2>1 DEF Inv, TypeOK
  <2>5. code'[k].client = job[h].client /\ code'[k].scope = job[h].scope
    BY <2>1 DEF Inv, TypeOK
  <2>6. exchanged' = exchanged /\ approved' = approved
    BY DEF IssueCode
  <2>7. job[h].client # None
    BY DEF Inv, Knows, IssueCode, ClientsAreSound
  <2> QED
    BY <2>2, <2>3, <2>4, <2>5, <2>6, <2>7 DEF Inv, Stands
<1>5. \A x \in Codes : CodeCut(x)'
  BY DEF Inv, IssueCode, End, Idle, CallCut, CodeCut, Knows, Stands, TypeOK,
      Grant, Code, Job, ClientsAreSound
<1>6. \A x \in Tokens : Comes(x)'
  BY DEF Inv, IssueCode, End, Idle, Comes, Knows, Exchanged, Stands, TypeOK, Code,
      Token, Job, ClientsAreSound
<1>7. \A x \in Tokens : TokenCut(x)'
  BY DEF Inv, IssueCode, End, Idle, TokenCut, Comes, Exchanged, TypeOK, Grant,
      Token, Job, ClientsAreSound
<1>8. \A x \in Clients : Holds(x)'
  BY DEF Inv, IssueCode, End, Idle, Holds, Knows, TypeOK, Grant, Job,
      ClientsAreSound
<1> QED
  BY <1>1, <1>2, <1>3, <1>4, <1>5, <1>6, <1>7, <1>8 DEF Inv

\* ReadCode keeps the invariant.
LEMMA ReadCodeInv ==
  ASSUME ClientsAreSound, Inv, NEW h \in Handlers, NEW c \in Clients,
         NEW k \in Codes, NEW p \in BOOLEAN, ReadCode(h, c, k, p)
  PROVE  Inv'
<1>1. TypeOK'
  BY DEF Inv, ReadCode, tables, history, Idle, TypeOK, Grant, Code, Token, Job,
      ClientsAreSound
<1>2. \A x \in Handlers : Knows(x)'
  BY DEF Inv, ReadCode, tables, history, Idle, Stands, Knows, Exchanged, TypeOK,
      Grant, Code, Token, Job, ClientsAreSound
<1>3. \A x \in Handlers : CallCut(x)'
  BY DEF Inv, ReadCode, tables, history, Idle, CodeCut, CallCut, Knows, Exchanged,
      TypeOK, Grant, Code, Token, Job, ClientsAreSound
<1>4. \A x \in Codes : Stands(x)'
  BY DEF Inv, ReadCode, tables, history, Idle, Stands, Knows, TypeOK, Code, Job,
      ClientsAreSound
<1>5. \A x \in Codes : CodeCut(x)'
  BY DEF Inv, ReadCode, tables, history, Idle, CodeCut, Knows, Stands, TypeOK,
      Grant, Code, Job, ClientsAreSound
<1>6. \A x \in Tokens : Comes(x)'
  BY DEF Inv, ReadCode, tables, history, Idle, Comes, Knows, Exchanged, Stands,
      TypeOK, Code, Token, Job, ClientsAreSound
<1>7. \A x \in Tokens : TokenCut(x)'
  BY DEF Inv, ReadCode, tables, history, Idle, TokenCut, Comes, Exchanged, TypeOK,
      Grant, Token, Job, ClientsAreSound
<1>8. \A x \in Clients : Holds(x)'
  BY DEF Inv, ReadCode, tables, history, Idle, Holds, Knows, TypeOK, Grant, Job,
      ClientsAreSound
<1> QED
  BY <1>1, <1>2, <1>3, <1>4, <1>5, <1>6, <1>7, <1>8 DEF Inv

\* Redeem keeps the invariant.
LEMMA RedeemInv ==
  ASSUME ClientsAreSound, Inv, NEW h \in Handlers, Redeem(h)
  PROVE  Inv'
<1> DEFINE k == job[h].code
<1>1. /\ job[h].pc = "redeem" /\ k \in Codes /\ job[h].client \in Clients
      /\ code[k].client = job[h].client /\ job[h].scope = code[k].scope
  BY DEF Inv, Knows, Redeem
<1>2. /\ UNCHANGED <<active, grant, overdue, token, approved, granted,
                     contested, late>>
      /\ \/ job' = [job EXCEPT ![h] = Idle]
         \/ /\ job' = [job EXCEPT ![h].pc = "issue"]
            /\ exchanged'[k] = 1 /\ code'[k].used /\ Proven(h) /\ ~code[k].used
  <2>1. exchanged[k] = 0 \/ code[k].used
    BY <1>1 DEF Inv, Stands
  <2> QED
    BY <1>1, <2>1 DEF Inv, Redeem, Goto, End, Unused, TypeOK, Code
<1>3. \A x \in Codes : /\ code'[x].client = code[x].client
                       /\ code'[x].scope = code[x].scope
                       /\ code'[x].pkce = code[x].pkce
                       /\ code[x].used => code'[x].used
                       /\ code'[x].used => code[x].used \/ x = k
                       /\ \/ exchanged'[x] = exchanged[x]
                          \/ /\ exchanged[x] = 0
                             /\ exchanged'[x] = 1 /\ code'[x].used
  <2>1. \A x \in Codes : exchanged[x] = 0 \/ code[x].used
    BY DEF Inv, Stands
  <2> QED
    BY <1>1, <2>1 DEF Inv, Redeem, Goto, End, Unused, TypeOK, Code
<1>4. \A g \in Handlers :
         \/ job'[g] = job[g] /\ g # h
         \/ g = h /\ job'[g] = Idle
         \/ /\ g = h /\ job'[g] = [job[h] EXCEPT !.pc = "issue"]
            /\ exchanged'[k] = 1 /\ code'[k].used /\ Proven(h) /\ ~code[k].used
  BY <1>2 DEF Inv, TypeOK
<1>5. TypeOK'
  <2>1. job' \in [Handlers -> Job]
    <3>1. Idle \in Job /\ [job[h] EXCEPT !.pc = "issue"] \in Job
      BY DEF Inv, TypeOK, Job, Idle
    <3>2. \/ job' = [job EXCEPT ![h] = Idle]
          \/ job' = [job EXCEPT ![h] = [job[h] EXCEPT !.pc = "issue"]]
      BY <1>2
    <3> QED
      BY <3>1, <3>2 DEF Inv, TypeOK
  <2>2. code' \in [Codes -> Code]
    <3>1. [code[k] EXCEPT !.used = TRUE] \in Code
      <4>1. code[k] \in Code
        BY <1>1 DEF Inv, TypeOK
      <4> QED
        BY <4>1 DEF Code
    <3>2. code' = code \/ code' = [code EXCEPT ![k] = [code[k] EXCEPT !.used = TRUE]]
      BY DEF Redeem
    <3> QED
      BY <3>1, <3>2 DEF Inv, TypeOK
  <2>3. exchanged' \in [Codes -> Nat]
    BY <1>1 DEF Inv, Redeem, TypeOK
  <2> QED
    BY <1>2, <2>1, <2>2, <2>3 DEF Inv, TypeOK
<1>6. ASSUME NEW x \in Handlers PROVE Knows(x)'
  <2>1. CASE job'[x] = job[x]
    BY <1>2, <1>3, <2>1 DEF Inv, Knows, Exchanged
  <2>2. CASE x = h /\ job'[x] = Idle
    BY <2>2 DEF Knows, Idle
  <2>3. CASE /\ x = h /\ job'[x] = [job[h] EXCEPT !.pc = "issue"]
             /\ exchanged'[k] = 1 /\ Proven(h)
    <3>1. /\ job'[x].pc = "issue" /\ job'[x].client = job[h].client
          /\ job'[x].code = k /\ job'[x].scope = job[h].scope
      BY <2>3 DEF Inv, TypeOK, Job
    <3> QED
      BY <1>1, <1>3, <2>3, <3>1 DEF Knows, Exchanged, Proven
  <2> QED
    BY <1>4, <2>1, <2>2, <2>3
<1>7. ASSUME NEW x \in Handlers PROVE CallCut(x)'
  <2>1. CASE job'[x] = job[x]
    BY <1>2, <2>1 DEF Inv, CallCut
  <2>2. CASE x = h /\ job'[x] = Idle
    BY <2>2 DEF CallCut, Idle
  <2>3. CASE /\ x = h /\ job'[x] = [job[h] EXCEPT !.pc = "issue"]
             /\ ~code[k].used
    <3>1. /\ job'[x].pc = "issue" /\ job'[x].client = job[h].client
          /\ job'[x].code = k
      BY <2>3 DEF Inv, TypeOK, Job
    <3>2. k \notin late => grant[job[h].client].live
      BY <1>1, <2>3 DEF Inv, CodeCut, ClientsAreSound
    <3> QED
      BY <1>2, <3>1, <3>2 DEF CallCut
  <2> QED
    BY <1>4, <2>1, <2>2, <2>3
<1>8. ASSUME NEW x \in Codes PROVE Stands(x)' /\ CodeCut(x)'
  <2>1. code[x].client = None => x # k
    BY <1>1 DEF ClientsAreSound
  <2> QED
    BY <1>2, <1>3, <2>1 DEF Inv, Stands, CodeCut
<1>9. ASSUME NEW x \in Tokens PROVE Comes(x)' /\ TokenCut(x)'
  BY <1>2, <1>3 DEF Inv, Comes, Exchanged, TokenCut
<1>10. ASSUME NEW x \in Clients PROVE Holds(x)'
  <2>1. \A g \in Handlers : job'[g].pc = "upsert" => job'[g] = job[g]
    <3> SUFFICES ASSUME NEW g \in Handlers, job'[g].pc = "upsert"
                 PROVE  job'[g] = job[g]
      OBVIOUS
    <3>1. job'[g] # Idle
      BY DEF Idle
    <3>2. job'[g] # [job[h] EXCEPT !.pc = "issue"]
      BY DEF Inv, TypeOK, Job
    <3> QED
      BY <1>4, <3>1, <3>2
  <2> QED
    BY <1>2, <2>1 DEF Inv, Holds
<1> QED
  BY <1>5, <1>6, <1>7, <1>8, <1>9, <1>10 DEF Inv

\* ReadToken keeps the invariant.
LEMMA ReadTokenInv ==
  ASSUME ClientsAreSound, Inv, NEW h \in Handlers, NEW t \in Tokens, ReadToken(h, t)
  PROVE  Inv'
<1>1. TypeOK'
  BY DEF Inv, ReadToken, tables, history, Idle, TypeOK, Grant, Code, Token, Job,
      ClientsAreSound
<1>2. \A x \in Handlers : Knows(x)'
  BY DEF Inv, ReadToken, tables, history, Idle, Comes, Knows, Exchanged, TypeOK,
      Grant, Code, Token, Job, ClientsAreSound
<1>3. \A x \in Handlers : CallCut(x)'
  BY DEF Inv, ReadToken, tables, history, Idle, TokenCut, Comes, CallCut, Knows,
      Exchanged, TypeOK, Grant, Code, Token, Job, ClientsAreSound
<1>4. \A x \in Codes : Stands(x)'
  BY DEF Inv, ReadToken, tables, history, Idle, Stands, Knows, TypeOK, Code, Job,
      ClientsAreSound
<1>5. \A x \in Codes : CodeCut(x)'
  BY DEF Inv, ReadToken, tables, history, Idle, CodeCut, Knows, Stands, TypeOK,
      Grant, Code, Job, ClientsAreSound
<1>6. \A x \in Tokens : Comes(x)'
  BY DEF Inv, ReadToken, tables, history, Idle, Comes, Knows, Exchanged, Stands,
      TypeOK, Code, Token, Job, ClientsAreSound
<1>7. \A x \in Tokens : TokenCut(x)'
  BY DEF Inv, ReadToken, tables, history, Idle, TokenCut, Comes, Exchanged,
      TypeOK, Grant, Token, Job, ClientsAreSound
<1>8. \A x \in Clients : Holds(x)'
  BY DEF Inv, ReadToken, tables, history, Idle, Holds, Knows, TypeOK, Grant, Job,
      ClientsAreSound
<1> QED
  BY <1>1, <1>2, <1>3, <1>4, <1>5, <1>6, <1>7, <1>8 DEF Inv

\* Rotate keeps the invariant.
LEMMA RotateInv ==
  ASSUME ClientsAreSound, Inv, NEW h \in Handlers, Rotate(h)
  PROVE  Inv'
<1>1. TypeOK'
  <2>1. job' \in [Handlers -> Job]
    <3>1. PICK j : j = [job[h] EXCEPT !.pc = "issue"]
      OBVIOUS
    <3>2. j \in Job
      BY <3>1 DEF Inv, TypeOK, Job
    <3>3. job' = [job EXCEPT ![h] = j]
      BY <3>1 DEF Rotate, Goto
    <3> QED
      BY <3>2, <3>3 DEF Inv, TypeOK
  <2>2. token' \in [Tokens -> Token]
    <3>1. \A t \in Tokens : [token[t] EXCEPT !.live = FALSE] \in Token
      BY DEF Inv, TypeOK, Token
    <3>2. token' = [token EXCEPT ![job[h].token] =
                       [token[job[h].token] EXCEPT !.live = FALSE]]
      BY DEF Rotate
    <3> QED
      BY <3>1, <3>2 DEF Inv, TypeOK
  <2> QED
    BY <2>1, <2>2 DEF Inv, Rotate, history, TypeOK
<1>2. \A x \in Handlers : Knows(x)'
  BY DEF Inv, Rotate, Goto, history, Knows, Exchanged, TypeOK, Grant, Code, Token,
      Job, ClientsAreSound
<1>3. \A x \in Handlers : CallCut(x)'
  BY DEF Inv, Rotate, Goto, history, CallCut, Knows, Exchanged, TypeOK, Grant,
      Code, Token, Job, ClientsAreSound
<1>4. \A x \in Codes : Stands(x)'
  BY DEF Inv, Rotate, Goto, history, Stands, Knows, TypeOK, Code, Job,
      ClientsAreSound
<1>5. \A x \in Codes : CodeCut(x)'
  BY DEF Inv, Rotate, Goto, history, CodeCut, Knows, Stands, TypeOK, Grant, Code,
      Job, ClientsAreSound
<1>6. \A x \in Tokens : Comes(x)'
  BY DEF Inv, Rotate, Goto, history, Comes, Knows, Exchanged, Stands, TypeOK,
      Code, Token, Job, ClientsAreSound
<1>7. \A x \in Tokens : TokenCut(x)'
  BY DEF Inv, Rotate, Goto, history, TokenCut, Comes, Exchanged, TypeOK, Grant,
      Token, Job, ClientsAreSound
<1>8. \A x \in Clients : Holds(x)'
  BY DEF Inv, Rotate, Goto, history, Holds, Knows, TypeOK, Grant, Job,
      ClientsAreSound
<1> QED
  BY <1>1, <1>2, <1>3, <1>4, <1>5, <1>6, <1>7, <1>8 DEF Inv

\* Issue keeps the invariant.
LEMMA IssueInv ==
  ASSUME ClientsAreSound, Inv, NEW h \in Handlers, NEW t \in Tokens, Issue(h, t)
  PROVE  Inv'
<1>1. TypeOK'
  BY DEF Inv, Issue, End, Idle, history, TypeOK, Grant, Code, Token, Job,
      ClientsAreSound
<1>2. \A x \in Handlers : Knows(x)'
  BY DEF Inv, Issue, End, Idle, history, Knows, Exchanged, TypeOK, Grant, Code,
      Token, Job, ClientsAreSound
<1>3. \A x \in Handlers : CallCut(x)'
  BY DEF Inv, Issue, End, Idle, history, TokenCut, CallCut, Knows, Exchanged,
      TypeOK, Grant, Code, Token, Job, ClientsAreSound
<1>4. \A x \in Codes : Stands(x)'
  BY DEF Inv, Issue, End, Idle, history, Stands, Knows, TypeOK, Code, Job,
      ClientsAreSound
<1>5. \A x \in Codes : CodeCut(x)'
  BY DEF Inv, Issue, End, Idle, history, CodeCut, Knows, Stands, TypeOK, Grant,
      Code, Job, ClientsAreSound
<1>6. \A x \in Tokens : Comes(x)'
  BY DEF Inv, Issue, End, Idle, history, Comes, Knows, Exchanged, Stands, TypeOK,
      Code, Token, Job, ClientsAreSound
<1>7. \A x \in Tokens : TokenCut(x)'
  BY DEF Inv, Issue, End, Idle, history, CallCut, Knows, TokenCut, Comes,
      Exchanged, TypeOK, Grant, Token, Job, ClientsAreSound
<1>8. \A x \in Clients : Holds(x)'
  BY DEF Inv, Issue, End, Idle, history, Holds, Knows, TypeOK, Grant, Job,
      ClientsAreSound
<1> QED
  BY <1>1, <1>2, <1>3, <1>4, <1>5, <1>6, <1>7, <1>8 DEF Inv

\* RevokeGrant keeps the invariant.
LEMMA RevokeGrantInv ==
  ASSUME ClientsAreSound, Inv, NEW c \in Clients, RevokeGrant(c)
  PROVE  Inv'
<1>1. TypeOK'
  <2>1. grant' \in [Clients -> Grant]
    BY DEF Inv, RevokeGrant, TypeOK, Grant
  <2>2. token' \in [Tokens -> Token]
    <3>1. \A t \in Tokens : [token[t] EXCEPT !.live = FALSE] \in Token
      BY DEF Inv, TypeOK, Token
    <3> QED
      BY <3>1 DEF Inv, RevokeGrant, Sweep, TypeOK
  <2>3. Outstanding(c) \subseteq Codes \cup Handlers
    BY DEF Inv, Outstanding, Knows, Exchanged
  <2> QED
    BY <2>1, <2>2, <2>3 DEF Inv, RevokeGrant, TypeOK
<1>2. \A x \in Handlers : Knows(x)'
  BY DEF Inv, RevokeGrant, Sweep, Knows, Exchanged, TypeOK, Grant, Code, Token,
      Job, ClientsAreSound
<1>3. \A x \in Handlers : CallCut(x)'
  BY DEF Inv, RevokeGrant, Sweep, Outstanding, CallCut, Knows, Exchanged, TypeOK,
      Grant, Code, Token, Job, ClientsAreSound
<1>4. \A x \in Codes : Stands(x)'
  BY DEF Inv, RevokeGrant, Sweep, Stands, Knows, TypeOK, Code, Job,
      ClientsAreSound
<1>5. \A x \in Codes : CodeCut(x)'
  BY DEF Inv, RevokeGrant, Sweep, Outstanding, CodeCut, Knows, Stands, TypeOK,
      Grant, Code, Job, ClientsAreSound
<1>6. \A x \in Tokens : Comes(x)'
  BY DEF Inv, RevokeGrant, Sweep, Comes, Knows, Exchanged, Stands, TypeOK, Code,
      Token, Job, ClientsAreSound
<1>7. \A x \in Tokens : TokenCut(x)'
  BY DEF Inv, RevokeGrant, Sweep, TokenCut, Comes, Exchanged, TypeOK, Grant,
      Token, Job, ClientsAreSound
<1>8. \A x \in Clients : Holds(x)'
  BY DEF Inv, RevokeGrant, Sweep, Holds, Knows, TypeOK, Grant, Job,
      ClientsAreSound
<1> QED
  BY <1>1, <1>2, <1>3, <1>4, <1>5, <1>6, <1>7, <1>8 DEF Inv

\* SetActive keeps the invariant.
LEMMA SetActiveInv ==
  ASSUME ClientsAreSound, Inv, NEW c \in Clients, SetActive(c)
  PROVE  Inv'
<1>1. TypeOK'
  BY DEF Inv, SetActive, history, TypeOK, Grant, Code, Token, Job,
      ClientsAreSound
<1>2. \A x \in Handlers : Knows(x)'
  BY DEF Inv, SetActive, history, Knows, Exchanged, TypeOK, Grant, Code, Token,
      Job, ClientsAreSound
<1>3. \A x \in Handlers : CallCut(x)'
  BY DEF Inv, SetActive, history, CallCut, Knows, Exchanged, TypeOK, Grant, Code,
      Token, Job, ClientsAreSound
<1>4. \A x \in Codes : Stands(x)'
  BY DEF Inv, SetActive, history, Stands, Knows, TypeOK, Code, Job,
      ClientsAreSound
<1>5. \A x \in Codes : CodeCut(x)'
  BY DEF Inv, SetActive, history, CodeCut, Knows, Stands, TypeOK, Grant, Code,
      Job, ClientsAreSound
<1>6. \A x \in Tokens : Comes(x)'
  BY DEF Inv, SetActive, history, Comes, Knows, Exchanged, Stands, TypeOK, Code,
      Token, Job, ClientsAreSound
<1>7. \A x \in Tokens : TokenCut(x)'
  BY DEF Inv, SetActive, history, TokenCut, Comes, Exchanged, TypeOK, Grant,
      Token, Job, ClientsAreSound
<1>8. \A x \in Clients : Holds(x)'
  BY DEF Inv, SetActive, history, Holds, Knows, TypeOK, Grant, Job,
      ClientsAreSound
<1> QED
  BY <1>1, <1>2, <1>3, <1>4, <1>5, <1>6, <1>7, <1>8 DEF Inv

\* Lapse keeps the invariant.
LEMMA LapseInv ==
  ASSUME ClientsAreSound, Inv, NEW k \in Codes, Lapse(k)
  PROVE  Inv'
<1>1. TypeOK'
  BY DEF Inv, Lapse, history, TypeOK, Grant, Code, Token, Job, ClientsAreSound
<1>2. \A x \in Handlers : Knows(x)'
  BY DEF Inv, Lapse, history, Knows, Exchanged, TypeOK, Grant, Code, Token, Job,
      ClientsAreSound
<1>3. \A x \in Handlers : CallCut(x)'
  BY DEF Inv, Lapse, history, CallCut, Knows, Exchanged, TypeOK, Grant, Code,
      Token, Job, ClientsAreSound
<1>4. \A x \in Codes : Stands(x)'
  BY DEF Inv, Lapse, history, Stands, Knows, TypeOK, Code, Job, ClientsAreSound
<1>5. \A x \in Codes : CodeCut(x)'
  BY DEF Inv, Lapse, history, CodeCut, Knows, Stands, TypeOK, Grant, Code, Job,
      ClientsAreSound
<1>6. \A x \in Tokens : Comes(x)'
  BY DEF Inv, Lapse, history, Comes, Knows, Exchanged, Stands, TypeOK, Code,
      Token, Job, ClientsAreSound
<1>7. \A x \in Tokens : TokenCut(x)'
  BY DEF Inv, Lapse, history, TokenCut, Comes, Exchanged, TypeOK, Grant, Token,
      Job, ClientsAreSound
<1>8. \A x \in Clients : Holds(x)'
  BY DEF Inv, Lapse, history, Holds, Knows, TypeOK, Grant, Job, ClientsAreSound
<1> QED
  BY <1>1, <1>2, <1>3, <1>4, <1>5, <1>6, <1>7, <1>8 DEF Inv

\* Leave keeps the invariant.
LEMMA LeaveInv ==
  ASSUME ClientsAreSound, Inv, NEW h \in Handlers, Leave(h)
  PROVE  Inv'
<1>1. TypeOK'
  BY DEF Inv, Leave, End, Idle, tables, TypeOK, Grant, Code, Token, Job,
      ClientsAreSound
<1>2. \A x \in Handlers : Knows(x)'
  BY DEF Inv, Leave, End, Idle, tables, Knows, Exchanged, TypeOK, Grant, Code,
      Token, Job, ClientsAreSound
<1>3. \A x \in Handlers : CallCut(x)'
  <2>1. \A g \in Handlers : /\ g # h => job'[g] = job[g]
                            /\ g = h => job'[g].pc = "idle"
    BY DEF Inv, Leave, End, Idle, TypeOK
  <2>2. /\ grant' = grant
        /\ \A x \in (Handlers \ {h}) \cup Codes : x \in late => x \in late'
    BY DEF Leave, tables, ClientsAreSound
  <2>3. \A g \in Handlers : job[g].pc \in {"rotate", "issue"} => job[g].code \in Codes
    BY DEF Inv, Knows, Exchanged
  <2>4. \A g \in Handlers : CallCut(g)
    BY DEF Inv
  <2> QED
    BY <2>1, <2>2, <2>3, <2>4 DEF CallCut
<1>4. \A x \in Codes : Stands(x)'
  BY DEF Inv, Leave, End, Idle, tables, Stands, Knows, TypeOK, Code, Job,
      ClientsAreSound
<1>5. \A x \in Codes : CodeCut(x)'
  BY DEF Inv, Leave, End, Idle, tables, CodeCut, Knows, Stands, TypeOK, Grant,
      Code, Job, ClientsAreSound
<1>6. \A x \in Tokens : Comes(x)'
  BY DEF Inv, Leave, End, Idle, tables, Comes, Knows, Exchanged, Stands, TypeOK,
      Code, Token, Job, ClientsAreSound
<1>7. \A x \in Tokens : TokenCut(x)'
  BY DEF Inv, Leave, End, Idle, tables, TokenCut, Comes, Exchanged, TypeOK, Grant,
      Token, Job, ClientsAreSound
<1>8. \A x \in Clients : Holds(x)'
  BY DEF Inv, Leave, End, Idle, tables, Holds, Knows, TypeOK, Grant, Job,
      ClientsAreSound
<1> QED
  BY <1>1, <1>2, <1>3, <1>4, <1>5, <1>6, <1>7, <1>8 DEF Inv

\* Every step keeps the invariant.
LEMMA NextInv == ASSUME ClientsAreSound, Inv, [Next]_vars PROVE Inv'
<1>1. CASE UNCHANGED vars
  BY <1>1 DEF vars, tables, history, Inv, TypeOK, Knows, CallCut, Stands, CodeCut,
              Comes, TokenCut, Holds, Exchanged
<1>2. CASE Next
  BY <1>2, AskInv, ReadGrantInv, UpsertGrantInv, IssueCodeInv, ReadCodeInv,
     RedeemInv, ReadTokenInv, RotateInv, IssueInv, RevokeGrantInv,
     SetActiveInv, LapseInv, LeaveInv
  DEF Next
<1> QED
  BY <1>1, <1>2

(* The invariant holds in every state the OAuth provider can get into, for *)
(* every number of clients, scopes, codes and handlers.                    *)
THEOREM Invariance == ASSUME ClientsAreSound PROVE Spec => []Inv
<1>1. Init => Inv
  BY InitInv
<1>2. Inv /\ [Next]_vars => Inv'
  BY NextInv
<1> QED
  BY <1>1, <1>2, PTL DEF Spec

\* What the invariant says of the properties the runs check.
LEMMA InvImplies ==
  ASSUME Inv
  PROVE  TypeOK /\ TokensWereConsented /\ AccessFollowsGrant /\ NoConsentIsLost
<1>1. TokensWereConsented
  <2> SUFFICES ASSUME NEW t \in Tokens, token[t].via # None
               PROVE  LET k == token[t].via
                      IN /\ token[t].client = code[k].client
                         /\ token[t].scope \subseteq approved[token[t].client]
                         /\ exchanged[k] = 1
                         /\ token[t].client \in Public => code[k].pkce
    BY DEF TokensWereConsented
  <2>1. /\ token[t].client # None
        /\ Exchanged(token[t].via, token[t].client, token[t].scope)
    BY DEF Inv, Comes
  <2>2. Stands(token[t].via)
    BY <2>1 DEF Inv, Exchanged
  <2> QED
    BY <2>1, <2>2 DEF Exchanged, Stands
<1>2. AccessFollowsGrant
  BY DEF Inv, TokenCut, AccessFollowsGrant
<1>3. NoConsentIsLost
  BY DEF Inv, Holds, NoConsentIsLost
<1> QED
  BY <1>1, <1>2, <1>3 DEF Inv

-----------------------------------------------------------------------------
(* The variables stay in their types.                                      *)
THEOREM TypeCorrect == ASSUME ClientsAreSound PROVE Spec => []TypeOK
<1>1. Inv => TypeOK
  BY DEF Inv
<1> QED
  BY <1>1, Invariance, PTL

(* Behind every token that came from a code there is the user's consent to *)
(* all of its scopes, for that client, and exactly one exchange of that    *)
(* code - with a challenge if the client is public.                        *)
THEOREM ConsentBehindTokens ==
  ASSUME ClientsAreSound PROVE Spec => []TokensWereConsented
<1>1. Inv => TokensWereConsented
  BY InvImplies
<1> QED
  BY <1>1, Invariance, PTL

(* Disconnecting a website cuts its access: no token from a code is live   *)
(* without the grant, but for what was outstanding at that moment.         *)
THEOREM DisconnectingCuts ==
  ASSUME ClientsAreSound PROVE Spec => []AccessFollowsGrant
<1>1. Inv => AccessFollowsGrant
  BY InvImplies
<1> QED
  BY <1>1, Invariance, PTL

(* A grant holds nothing that was not approved, and unless two consents to *)
(* the same client overlapped it holds everything that was consented to.   *)
THEOREM ConsentsAreKept ==
  ASSUME ClientsAreSound PROVE Spec => []NoConsentIsLost
<1>1. Inv => NoConsentIsLost
  BY InvImplies
<1> QED
  BY <1>1, Invariance, PTL
==============================================================================

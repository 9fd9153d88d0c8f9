-------------------------- MODULE CredentialsProofs --------------------------
(***************************************************************************)
(* Proofs about Credentials, for any sets of accounts, devices, rows and   *)
(* concurrent handlers.                                                    *)
(***************************************************************************)
EXTENDS Credentials, TLAPS

(* The inductive invariant.  WellFormed: every inserted row has an owner   *)
(* and a family that was inserted before it, and a handler that refreshes  *)
(* a row is on its way to issue.  Lineage is what makes a family single-   *)
(* threaded until two refreshes of it overlap: one live row, one refresh   *)
(* in progress, and while there is one, only the row it started from may   *)
(* still be live, and only until it revokes that row.                      *)
Allocated(r) == row[r].state # "free"

WellFormed ==
    /\ \A r \in Rows :
          /\ Allocated(r) => /\ row[r].user \in Users
                             /\ row[r].family \in Rows
                             /\ Allocated(row[r].family)
          /\ ~Allocated(r) => row[r].family = None
    /\ \A h \in Handlers :
          /\ job[h].pc # "idle" => job[h].user \in Users
          /\ job[h].src # None => /\ job[h].pc \in Issuing
                                  /\ Allocated(job[h].src)

SingleThread(f) ==
    /\ \A r1, r2 \in Family(f) : Live(r1) /\ Live(r2) => r1 = r2
    /\ \A g, h \in Refreshing(f) : g = h
    /\ \A h \in Refreshing(f), r \in Family(f) :
          Live(r) => job[h].pc = "rotate" /\ job[h].src = r

Lineage == \A f \in Rows \ forked : SingleThread(f)

Inv == TypeOK /\ WellFormed /\ Lineage

-----------------------------------------------------------------------------
(* Most steps insert no row and revive none, start no refresh, and leave   *)
(* a refresh in progress where it is or end it.                            *)
Shrinks ==
    /\ row' \in [Rows -> Row]
    /\ \A r \in Rows : /\ row'[r].family = row[r].family
                       /\ row'[r].user = row[r].user
                       /\ row'[r].kind = row[r].kind
                       /\ row'[r].device = row[r].device
                       /\ row'[r].state = "free" <=> row[r].state = "free"
                       /\ row'[r].state = "live" => row[r].state = "live"

KeepsSources ==
    /\ forked' = forked
    /\ \A h \in Handlers :
          /\ job'[h].pc # "idle" => job'[h].user \in Users
          /\ job'[h].src # None =>
                /\ job'[h].src = job[h].src
                /\ job'[h].pc \in Issuing
                /\ job[h].pc = "rotate" => job'[h].pc = "rotate"

\* Revoking rows leaves fewer live rows, and changes nothing else of a row.
LEMMA RevokedShrinks ==
    ASSUME TypeOK, NEW S, row' = Revoked(S)
    PROVE  Shrinks
<1>1. ASSUME NEW r \in Rows
      PROVE  /\ row'[r] \in Row
             /\ row'[r].family = row[r].family
             /\ row'[r].user = row[r].user
             /\ row'[r].kind = row[r].kind
             /\ row'[r].device = row[r].device
             /\ row'[r].state = "free" <=> row[r].state = "free"
             /\ row'[r].state = "live" => row[r].state = "live"
  <2>1. row[r] \in Row
    BY DEF TypeOK
  <2>2. row'[r] = IF r \in S /\ row[r].state \in {"live", "expired"}
                  THEN [row[r] EXCEPT !.state = "revoked"] ELSE row[r]
    BY DEF Revoked
  <2> QED BY <2>1, <2>2 DEF Row
<1>2. row' = [r \in Rows |-> row'[r]]
  BY DEF Revoked
<1>3. row' \in [Rows -> Row]
  BY <1>1, <1>2
<1> QED BY <1>1, <1>3 DEF Shrinks

\* So does changing one row that is not made live.
LEMMA OneRowShrinks ==
    ASSUME TypeOK, NEW x, x \in Rows => Allocated(x),
           NEW s \in {"expired", "revoked"},
           row' = [row EXCEPT ![x].state = s]
    PROVE  Shrinks
<1>1. row \in [Rows -> Row]
  BY DEF TypeOK
<1>2. row' = [r \in Rows |-> IF r = x THEN [row[r] EXCEPT !.state = s]
                             ELSE row[r]]
  BY <1>1
<1>3. ASSUME NEW r \in Rows
      PROVE  /\ row'[r] \in Row
             /\ row'[r].family = row[r].family
             /\ row'[r].user = row[r].user
             /\ row'[r].kind = row[r].kind
             /\ row'[r].device = row[r].device
             /\ row'[r].state = "free" <=> row[r].state = "free"
             /\ row'[r].state = "live" => row[r].state = "live"
  <2>1. row[r] \in Row
    BY <1>1
  <2>2. CASE r = x
    BY <1>2, <2>1, <2>2 DEF Row, Allocated
  <2>3. CASE r # x
    BY <1>2, <2>1, <2>3
  <2> QED BY <2>2, <2>3
<1>4. row' \in [Rows -> Row]
  BY <1>2, <1>3
<1> QED BY <1>3, <1>4 DEF Shrinks

\* And so does leaving the rows alone.
LEMMA SameShrinks ==
    ASSUME TypeOK, row' = row
    PROVE  Shrinks
BY DEF TypeOK, Shrinks

\* A step that shrinks the live rows keeps the invariant.
LEMMA ShrinkKeepsInv ==
    ASSUME Inv, Shrinks, KeepsSources
    PROVE  WellFormed' /\ Lineage'
<1>1. WellFormed'
  BY DEF Inv, WellFormed, Shrinks, KeepsSources, Allocated, TypeOK, Row, Job
<1>2. ASSUME NEW f \in Rows \ forked'
      PROVE  SingleThread(f)'
  <2>1. SingleThread(f)
    BY <1>2 DEF Inv, Lineage, KeepsSources
  <2>2. Family(f)' = Family(f)
    BY DEF Family, Shrinks
  <2>3. \A r \in Rows : Live(r)' => Live(r)
    BY DEF Live, Shrinks
  <2>4. Refreshing(f)' \subseteq Refreshing(f)
    <3> SUFFICES ASSUME NEW h \in Handlers, job'[h].src # None,
                        row'[job'[h].src].family = f
                 PROVE  job[h].src # None /\ row[job[h].src].family = f
      BY DEF Refreshing
    <3>1. job'[h].src = job[h].src
      BY DEF KeepsSources
    <3>2. job[h].src \in Rows
      BY <3>1 DEF Inv, TypeOK, Job
    <3> QED BY <3>1, <3>2 DEF Shrinks
  <2>5. \A h \in Refreshing(f)' : /\ job'[h].src = job[h].src
                                  /\ job[h].pc = "rotate" => job'[h].pc = "rotate"
    BY DEF Refreshing, KeepsSources
  <2>6. Family(f) \subseteq Rows
    BY DEF Family
  <2> QED BY <2>1, <2>2, <2>3, <2>4, <2>5, <2>6 DEF SingleThread
<1> QED BY <1>1, <1>2 DEF Lineage

-----------------------------------------------------------------------------
(* The three ways a handler that starts no refresh moves on.               *)
LEMMA IssueType ==
    ASSUME Inv, NEW h \in Handlers, NEW u \in Users, NEW k \in Kinds,
           NEW d \in MaybeDevice,
           NEW pc \in {"resolve", "kill", "dropDevice"},
           Issue(h, u, k, d, None, pc), forked' = forked
    PROVE  job' \in [Handlers -> Job] /\ KeepsSources
BY DEF Inv, TypeOK, WellFormed, Issue, Job, MaybeDevice, KeepsSources

\* A handler that ends keeps the types, and is the source of no row.
LEMMA RetireType ==
    ASSUME Inv, NEW h \in Handlers,
           job' = [job EXCEPT ![h] = Idle], forked' = forked
    PROVE  job' \in [Handlers -> Job] /\ KeepsSources
BY DEF Inv, TypeOK, WellFormed, Idle, Job, Kinds, KeepsSources

\* Every step keeps the types.
LEMMA StepType ==
    ASSUME Inv, NEW h \in Handlers, NEW pc \in {"unrevoke", "create"},
           job[h].pc \in {"resolve", "unrevoke"},
           job' = [job EXCEPT ![h].pc = pc], forked' = forked
    PROVE  job' \in [Handlers -> Job] /\ KeepsSources
<1>1. job \in [Handlers -> Job] /\ job[h] \in Job
  BY DEF Inv, TypeOK
<1>2. [job[h] EXCEPT !.pc = pc] \in Job
  BY <1>1 DEF Job
<1>3. /\ job'[h].pc = pc /\ job'[h].user = job[h].user
      /\ job'[h].src = job[h].src
  BY <1>1 DEF Job
<1>4. \A g \in Handlers : g # h => job'[g] = job[g]
  BY <1>1
<1>5. \A g \in Handlers : /\ job[g].pc # "idle" => job[g].user \in Users
                          /\ job[g].src # None => job[g].pc \in Issuing
  BY DEF Inv, WellFormed
<1>6. pc \in Issuing
  BY DEF Issuing
<1>7. KeepsSources
  BY <1>3, <1>4, <1>5, <1>6 DEF KeepsSources
<1> QED BY <1>1, <1>2, <1>7

\* With no sign-in yet, the invariant holds.
LEMMA InitInv == Init => Inv
<1> SUFFICES ASSUME Init PROVE Inv
  OBVIOUS
<1>1. TypeOK
  BY DEF Init, TypeOK, FreeRow, Row, Idle, Job, NoSweep, Sweep, Kinds, Passes
<1>2. WellFormed
  BY DEF Init, WellFormed, FreeRow, Idle, Allocated
<1>3. Lineage
  BY DEF Init, Lineage, SingleThread, Family, Refreshing, Live, FreeRow, Idle
<1> QED BY <1>1, <1>2, <1>3 DEF Inv

\* Most steps shrink the live rows.
LEMMA ShrinkStep ==
    ASSUME Inv, TypeOK', Shrinks, KeepsSources
    PROVE  Inv'
BY ShrinkKeepsInv DEF Inv

\* A step that leaves the handlers alone leaves what is known of them.
LEMMA JobUnchanged ==
    ASSUME Inv, job' = job, forked' = forked
    PROVE  KeepsSources
BY DEF Inv, WellFormed, KeepsSources
-----------------------------------------------------------------------------
(* The three steps of a refresh, and the insert of a first row.            *)
LEMMA RefreshCheckStep ==
    ASSUME Inv, NEW h \in Handlers, NEW r \in Rows, NEW d \in MaybeDevice,
           RefreshCheck(h, r, d)
    PROVE  Inv'
<1> DEFINE fam == row[r].family
<1>1. /\ job[h].pc = "idle" /\ job[h].src = None
      /\ Live(r) /\ Allocated(r)
      /\ row[r] \in Row /\ row[r].user \in Users
      /\ fam \in Rows
  BY DEF RefreshCheck, Usable, Live, Allocated, Inv, TypeOK, WellFormed, Issuing
<1>2. row' = row
  BY DEF RefreshCheck
<1>3. job' = [job EXCEPT ![h] = [pc |-> "rotate", user |-> row[r].user,
                                 kind |-> row[r].kind, dev |-> d, src |-> r]]
  BY DEF RefreshCheck, Issue
<1>4. TypeOK'
  <2>1. job' \in [Handlers -> Job]
    BY <1>1, <1>3 DEF Inv, TypeOK, Job, Row, MaybeDevice
  <2>2. forked' \subseteq Rows
    BY <1>1 DEF RefreshCheck, Inv, TypeOK
  <2> QED BY <2>1, <2>2 DEF RefreshCheck, Inv, TypeOK
<1>5. WellFormed'
  BY <1>1, <1>2, <1>3 DEF Inv, TypeOK, WellFormed, Allocated, Issuing
<1>6. ASSUME NEW f \in Rows \ forked'
      PROVE  SingleThread(f)'
  <2>1. SingleThread(f)
    BY <1>6 DEF RefreshCheck, Inv, Lineage
  <2>2. Family(f)' = Family(f) /\ \A x \in Rows : Live(x)' <=> Live(x)
    BY <1>2 DEF Family, Live
  <2>3. h \notin Refreshing(f)
    BY <1>1 DEF Refreshing
  <2>4. Refreshing(f)' = Refreshing(f) \cup (IF fam = f THEN {h} ELSE {})
    BY <1>1, <1>2, <1>3, <2>3, NoneIsNoValue DEF Refreshing, Inv, TypeOK
  <2>5. \A g \in Refreshing(f) : job'[g] = job[g]
    BY <1>3, <2>3 DEF Refreshing, Inv, TypeOK
  <2>6. CASE fam = f
    <3>1. Refreshing(f) = {}
      BY <1>6, <2>6, <1>1 DEF RefreshCheck
    <3>2. Refreshing(f)' = {h} /\ job'[h].pc = "rotate" /\ job'[h].src = r
      BY <3>1, <2>4, <2>6, <1>3 DEF Inv, TypeOK
    <3>3. r \in Family(f)
      BY <2>6 DEF Family
    <3> QED BY <3>2, <3>3, <2>1, <2>2, <1>1 DEF SingleThread, Family
  <2>7. CASE fam # f
    BY <2>1, <2>2, <2>4, <2>5, <2>7 DEF SingleThread, Family
  <2> QED BY <2>6, <2>7
<1> QED BY <1>4, <1>5, <1>6 DEF Inv, Lineage

\* The revocation of the row that is rotated shrinks the live rows.
LEMMA RefreshRevokeShrinks ==
    ASSUME Inv, NEW h \in Handlers, RefreshRevoke(h)
    PROVE  Shrinks
<1>1. job[h].src \in Rows => Allocated(job[h].src)
  BY NoneIsNoValue DEF Inv, WellFormed
<1> QED BY <1>1, OneRowShrinks DEF RefreshRevoke, Inv

\* The revocation of a refresh keeps the invariant.
LEMMA RefreshRevokeStep ==
    ASSUME Inv, NEW h \in Handlers, RefreshRevoke(h)
    PROVE  Inv'
<1> DEFINE src == job[h].src
<1>1. /\ job[h] \in Job /\ job[h].pc = "rotate"
      /\ row' = [row EXCEPT ![src].state = "revoked"]
      /\ job' = [job EXCEPT ![h].pc = "resolve"]
      /\ forked' = forked
  BY DEF RefreshRevoke, Inv, TypeOK
<1>2. Shrinks
  BY RefreshRevokeShrinks
<1>3. TypeOK'
  <2>1. job' \in [Handlers -> Job]
    BY <1>1 DEF Inv, TypeOK, Job
  <2>2. row' \in [Rows -> Row]
    BY <1>2 DEF Shrinks
  <2> QED BY <2>1, <2>2 DEF RefreshRevoke, Inv, TypeOK
<1>4. WellFormed'
  <2>1. \A r \in Rows : Allocated(r)' <=> Allocated(r)
    BY <1>2 DEF Shrinks, Allocated
  <2>2. /\ job'[h].user = job[h].user /\ job'[h].src = src
        /\ job'[h].pc = "resolve"
        /\ \A g \in Handlers : g # h => job'[g] = job[g]
    BY <1>1 DEF Inv, TypeOK, Job
  <2>3. \A r \in Rows : /\ row'[r].user = row[r].user
                         /\ row'[r].family = row[r].family
    BY <1>2 DEF Shrinks
  <2>4. \A g \in Handlers : job[g].src # None => job[g].src \in Rows
    BY DEF Inv, TypeOK, Job
  <2>5. ASSUME NEW g \in Handlers
        PROVE  /\ job'[g].pc # "idle" => job'[g].user \in Users
               /\ job'[g].src # None => /\ job'[g].pc \in Issuing
                                        /\ Allocated(job[g].src)'
    <3>1. /\ job'[g].src = job[g].src /\ job'[g].user = job[g].user
          /\ job[g].pc # "idle" => job[g].user \in Users
          /\ job[g].src # None => job[g].pc \in Issuing /\ Allocated(job[g].src)
      BY <2>2 DEF Inv, WellFormed
    <3>2. job'[g].pc # "idle" => job[g].pc # "idle"
      BY <1>1, <2>2
    <3>3. job[g].src # None => job'[g].pc \in Issuing
      BY <2>2, <3>1 DEF Issuing
    <3>4. job[g].src # None => Allocated(job[g].src)'
      BY <2>1, <2>4, <3>1
    <3> QED BY <3>1, <3>2, <3>3, <3>4
  <2>6. ASSUME NEW r \in Rows
        PROVE  /\ Allocated(r)' => /\ row'[r].user \in Users
                                  /\ row'[r].family \in Rows
                                  /\ Allocated(row[r].family)'
               /\ ~Allocated(r)' => row'[r].family = None
    <3>1. /\ Allocated(r) => /\ row[r].user \in Users /\ row[r].family \in Rows
                             /\ Allocated(row[r].family)
          /\ ~Allocated(r) => row[r].family = None
      BY DEF Inv, WellFormed
    <3> QED BY <2>1, <2>3, <3>1 DEF Allocated
  <2> QED BY <2>5, <2>6 DEF WellFormed, Allocated
<1>5. ASSUME NEW f \in Rows \ forked'
      PROVE  SingleThread(f)'
  <2>1. SingleThread(f)
    BY <1>1, <1>5 DEF Inv, Lineage
  <2>2. Family(f)' = Family(f)
    BY <1>2 DEF Family, Shrinks
  <2>3. \A g \in Handlers : job'[g].src = job[g].src
    BY <1>1 DEF Inv, TypeOK, Job
  <2>4. \A g \in Handlers : job[g].src # None => job[g].src \in Rows
    BY DEF Inv, TypeOK, Job
  <2>5. Refreshing(f)' = Refreshing(f)
    BY <2>3, <2>4, <1>2 DEF Refreshing, Shrinks
  <2>6. \A x \in Rows : Live(x)' => Live(x) /\ x # src
    BY <1>1, <1>2 DEF Live, Shrinks, Inv, TypeOK, Row
  <2>7. \A g \in Handlers : g # h => job'[g] = job[g]
    BY <1>1 DEF Inv, TypeOK
  <2>8. CASE h \in Refreshing(f)
    \* Only src could be live in f, and it no longer is.
    <3>1. \A x \in Family(f) : ~Live(x)'
      BY <2>1, <2>6, <2>8 DEF SingleThread, Family
    <3> QED BY <2>1, <2>2, <2>5, <3>1 DEF SingleThread
  <2>9. CASE h \notin Refreshing(f)
    <3>1. \A g \in Refreshing(f) : job'[g] = job[g]
      BY <2>7, <2>9 DEF Refreshing
    <3>2. Family(f) \subseteq Rows
      BY DEF Family
    <3> QED BY <2>1, <2>2, <2>5, <2>6, <3>1, <3>2 DEF SingleThread
  <2> QED BY <2>8, <2>9
<1> QED BY <1>3, <1>4, <1>5 DEF Inv, Lineage

\* The insert that ends a sign-in or a refresh keeps the invariant.
LEMMA CreateRowStep ==
    ASSUME Inv, NEW h \in Handlers, NEW r \in Rows, CreateRow(h, r)
    PROVE  Inv'
<1> DEFINE src == job[h].src
           fam == IF src = None THEN r ELSE row[src].family
<1>1. /\ job[h] \in Job /\ job[h].pc = "create" /\ job[h].user \in Users
      /\ row[r].state = "free"
      /\ row' = [row EXCEPT ![r] =
                   [state |-> "live", kind |-> job[h].kind,
                    user |-> job[h].user, device |-> job[h].dev,
                    family |-> fam]]
      /\ job' = [job EXCEPT ![h] = Idle]
      /\ forked' = forked
  BY DEF CreateRow, Inv, TypeOK, WellFormed
<1>2. /\ src # None => src \in Rows /\ Allocated(src) /\ src # r
      /\ fam \in Rows
      /\ fam # r => Allocated(fam)
      /\ src # None => fam # r
  BY <1>1 DEF Inv, TypeOK, WellFormed, Allocated, Job
<1>3. TypeOK'
  <2>0. [state |-> "live", kind |-> job[h].kind, user |-> job[h].user,
         device |-> job[h].dev, family |-> fam] \in Row
    BY <1>1, <1>2 DEF Row, Job
  <2>1. row' \in [Rows -> Row]
    BY <1>1, <2>0 DEF Inv, TypeOK
  <2>2. job' \in [Handlers -> Job]
    BY <1>1 DEF Inv, TypeOK, Idle, Job, Kinds
  <2>3. access' \subseteq Users /\ straggler' \subseteq Rows
    BY <1>1 DEF CreateRow, Inv, TypeOK
  <2> QED BY <2>1, <2>2, <2>3 DEF CreateRow, Inv, TypeOK
<1>4. \A x \in Rows : x # r => row'[x] = row[x]
  BY <1>1 DEF Inv, TypeOK
<1>5. /\ row'[r].state = "live" /\ row'[r].family = fam
      /\ row'[r].user \in Users
  BY <1>1 DEF Inv, TypeOK
<1>6. \A g \in Handlers : /\ g # h => job'[g] = job[g]
                          /\ job'[h].src = None /\ job'[h].pc = "idle"
  BY <1>1 DEF Inv, TypeOK, Idle
<1>7. WellFormed'
  <2>1. /\ Allocated(r)' /\ fam \in Rows
        /\ \A x \in Rows : x # r => (Allocated(x)' <=> Allocated(x))
    BY <1>2, <1>4, <1>5 DEF Allocated
  <2>2. \A g \in Handlers : job[g].src # None =>
           job[g].src \in Rows /\ Allocated(job[g].src) /\ job[g].src # r
    BY <1>1 DEF Inv, TypeOK, WellFormed, Allocated, Job
  <2>3. ASSUME NEW x \in Rows
        PROVE  /\ Allocated(x)' => /\ row'[x].user \in Users
                                  /\ row'[x].family \in Rows
                                  /\ Allocated(row[x].family)'
               /\ ~Allocated(x)' => row'[x].family = None
    <3>1. CASE x = r
      BY <1>2, <1>5, <2>1, <3>1 DEF Allocated
    <3>2. CASE x # r
      BY <1>1, <1>4, <2>1, <3>2 DEF Inv, WellFormed, Allocated
    <3> QED BY <3>1, <3>2
  <2>4. ASSUME NEW g \in Handlers
        PROVE  /\ job'[g].pc # "idle" => job'[g].user \in Users
               /\ job'[g].src # None => /\ job'[g].pc \in Issuing
                                        /\ Allocated(job[g].src)'
    BY <1>6, <2>1, <2>2 DEF Inv, WellFormed
  <2> QED BY <2>3, <2>4 DEF WellFormed, Allocated
<1>8. ASSUME NEW f \in Rows \ forked'
      PROVE  SingleThread(f)'
  <2>1. SingleThread(f)
    BY <1>1, <1>8 DEF Inv, Lineage
  <2>2. \A g \in Handlers : job[g].src # None =>
           /\ job[g].src \in Rows /\ job[g].src # r
           /\ row'[job[g].src] = row[job[g].src]
    BY <1>1, <1>4 DEF Inv, TypeOK, WellFormed, Allocated, Job
  <2>3. Refreshing(f)' = Refreshing(f) \ {h}
    BY <1>6, <2>2 DEF Refreshing
  <2>4. \A g \in Refreshing(f)' : job'[g] = job[g]
    BY <1>6, <2>3 DEF Refreshing
  <2>5. Family(f)' = IF fam = f THEN Family(f) \cup {r} ELSE Family(f)
    <3>1. r \notin Family(f)
      BY <1>1, <1>8, NoneIsNoValue DEF Inv, WellFormed, Family, Allocated
    <3> QED BY <1>4, <1>5, <3>1 DEF Family
  <2>6. \A x \in Rows : x # r => (Live(x)' <=> Live(x))
    BY <1>4 DEF Live
  <2>7. CASE fam # f
    <3>1. r \notin Family(f)
      BY <1>1, <1>8, NoneIsNoValue DEF Inv, WellFormed, Family, Allocated
    <3>2. Family(f)' = Family(f) /\ \A x \in Family(f) : Live(x)' <=> Live(x)
      BY <2>5, <2>6, <2>7, <3>1 DEF Family
    <3> QED BY <2>1, <2>3, <2>4, <3>2 DEF SingleThread
  <2>8. CASE fam = f /\ src = None
    <3>1. Family(f) = {}
      BY <1>1, <2>8, NoneIsNoValue DEF Inv, WellFormed, Family, Allocated
    <3>2. Refreshing(f) = {}
      BY <2>2, <3>1 DEF Refreshing, Family
    <3> QED BY <2>3, <2>5, <3>1, <3>2, <2>8 DEF SingleThread
  <2>9. CASE fam = f /\ src # None
    <3>1. h \in Refreshing(f)
      BY <2>9 DEF Refreshing
    <3>2. \A x \in Family(f) : ~Live(x)
      BY <1>1, <2>1, <3>1 DEF SingleThread
    <3>3. Refreshing(f)' = {}
      BY <2>1, <2>3, <3>1 DEF SingleThread
    <3>4. \A x \in Family(f)' : Live(x)' => x = r
      BY <2>5, <2>6, <2>9, <3>2 DEF Family
    <3> QED BY <3>3, <3>4 DEF SingleThread
  <2> QED BY <2>7, <2>8, <2>9
<1> QED BY <1>3, <1>7, <1>8 DEF Inv, Lineage
-----------------------------------------------------------------------------
(* The other steps of a handler.                                           *)
LEMMA HandlerKeepsInv ==
    ASSUME Inv, NEW h \in Handlers, HandlerStep(h)
    PROVE  Inv'
<1> USE DEF MaybeDevice
<1>1. CASE \E u \in Users, d \in MaybeDevice, k \in Kinds : SignIn(h, u, k, d)
  <2> PICK u \in Users, d \in MaybeDevice, k \in Kinds : SignIn(h, u, k, d)
    BY <1>1
  <2>1. job' \in [Handlers -> Job] /\ KeepsSources
    BY IssueType DEF SignIn
  <2>2. Shrinks
    BY SameShrinks DEF SignIn, Inv
  <2>3. TypeOK'
    BY <2>1 DEF SignIn, Inv, TypeOK
  <2> QED BY <2>1, <2>2, <2>3, ShrinkStep
<1>2. CASE \E u \in Users, d \in MaybeDevice, p \in Passes : RedeemPass(h, u, p, d)
  <2> PICK u \in Users, d \in MaybeDevice, p \in Passes : RedeemPass(h, u, p, d)
    BY <1>2
  <2>1. job' \in [Handlers -> Job] /\ KeepsSources
    BY IssueType DEF RedeemPass, Kinds
  <2>2. Shrinks
    BY SameShrinks DEF RedeemPass, Inv
  <2>3. verified' \in [Users -> BOOLEAN] /\ pass' \subseteq Users \X Passes
    BY DEF RedeemPass, Inv, TypeOK
  <2>4. TypeOK'
    BY <2>1, <2>3 DEF RedeemPass, Inv, TypeOK
  <2> QED BY <2>1, <2>2, <2>4, ShrinkStep
<1>3. CASE \E r \in Rows, d \in MaybeDevice : RefreshCheck(h, r, d)
  BY <1>3, RefreshCheckStep
<1>4. CASE RefreshRevoke(h)
  BY <1>4, RefreshRevokeStep
<1>5. CASE ResolveDevice(h)
  <2>1. job' \in [Handlers -> Job] /\ KeepsSources
    BY <1>5, StepType DEF ResolveDevice
  <2>2. Shrinks
    BY <1>5, SameShrinks DEF ResolveDevice, Inv
  <2>3. device' \in [Users -> [Devices -> {"unseen", "active", "revoked"}]]
    <3>1. CASE UNCHANGED device
      BY <3>1 DEF Inv, TypeOK
    <3>2. CASE device' = [device EXCEPT ![job[h].user][job[h].dev] = "active"]
      <4> DEFINE u == job[h].user  d == job[h].dev
      <4>1. u \in Users
        BY <1>5 DEF Inv, WellFormed, ResolveDevice
      <4>2. [device[u] EXCEPT ![d] = "active"]
              \in [Devices -> {"unseen", "active", "revoked"}]
        BY <4>1 DEF Inv, TypeOK
      <4>3. device' = [device EXCEPT ![u] = [device[u] EXCEPT ![d] = "active"]]
        BY <3>2
      <4> HIDE DEF u, d
      <4> QED BY <4>1, <4>2, <4>3 DEF Inv, TypeOK
    <3> QED BY <1>5, <3>1, <3>2 DEF ResolveDevice
  <2>4. TypeOK'
    BY <1>5, <2>1, <2>3 DEF ResolveDevice, Inv, TypeOK
  <2> QED BY <2>1, <2>2, <2>4, ShrinkStep
<1>6. CASE UnrevokeDevice(h)
  <2>1. job' \in [Handlers -> Job] /\ KeepsSources
    BY <1>6, StepType DEF UnrevokeDevice
  <2>2. Shrinks
    BY <1>6, SameShrinks DEF UnrevokeDevice, Inv
  <2>3. device' \in [Users -> [Devices -> {"unseen", "active", "revoked"}]]
    BY <1>6 DEF UnrevokeDevice, Inv, TypeOK
  <2>4. TypeOK'
    BY <1>6, <2>1, <2>3 DEF UnrevokeDevice, Inv, TypeOK
  <2> QED BY <2>1, <2>2, <2>4, ShrinkStep
<1>7. CASE \E r \in Rows : CreateRow(h, r)
  BY <1>7, CreateRowStep
<1>8. CASE \E u \in Users, d \in Devices : RevokeDevice(h, u, d)
  <2> PICK u \in Users, d \in Devices : RevokeDevice(h, u, d)
    BY <1>8
  <2>1. job' \in [Handlers -> Job] /\ KeepsSources
    BY IssueType DEF RevokeDevice, Kinds
  <2>2. Shrinks
    BY SameShrinks DEF RevokeDevice, Inv
  <2>3. TypeOK'
    BY <2>1 DEF RevokeDevice, Inv, TypeOK
  <2> QED BY <2>1, <2>2, <2>3, ShrinkStep
<1>9. CASE DropDevice(h)
  <2>1. job' \in [Handlers -> Job] /\ KeepsSources
    BY <1>9, RetireType DEF DropDevice
  <2>2. Shrinks
    BY <1>9, RevokedShrinks DEF DropDevice, Inv
  <2>3. device' \in [Users -> [Devices -> {"unseen", "active", "revoked"}]]
    BY <1>9 DEF DropDevice, Inv, TypeOK
  <2>4. TypeOK'
    BY <1>9, <2>1, <2>2, <2>3 DEF DropDevice, Inv, TypeOK, Shrinks
  <2> QED BY <2>1, <2>2, <2>4, ShrinkStep
<1>10. CASE \E u \in Users : Suspend(h, u) \/ ResetPassword(h, u)
  <2> PICK u \in Users : Suspend(h, u) \/ ResetPassword(h, u)
    BY <1>10
  <2>1. job' \in [Handlers -> Job] /\ KeepsSources
    BY IssueType DEF Suspend, ResetPassword, Kinds
  <2>2. Shrinks
    BY SameShrinks DEF Suspend, ResetPassword, Inv
  <2>3. suspended' \in [Users -> BOOLEAN]
    BY DEF Suspend, ResetPassword, Inv, TypeOK
  <2>4. TypeOK'
    BY <2>1, <2>3 DEF Suspend, ResetPassword, Inv, TypeOK
  <2> QED BY <2>1, <2>2, <2>4, ShrinkStep
<1>11. CASE KillSessions(h)
  <2>1. job' \in [Handlers -> Job] /\ KeepsSources
    BY <1>11, RetireType DEF KillSessions
  <2>2. Shrinks
    BY <1>11, RevokedShrinks DEF KillSessions, Inv
  <2>3. TypeOK'
    BY <1>11, <2>1, <2>2 DEF KillSessions, Inv, TypeOK, Shrinks
  <2> QED BY <2>1, <2>2, <2>3, ShrinkStep
<1>12. CASE Abort(h)
  <2>1. job' \in [Handlers -> Job] /\ KeepsSources
    BY <1>12, RetireType DEF Abort
  <2>2. Shrinks
    BY <1>12, SameShrinks DEF Abort, Inv
  <2>3. TypeOK'
    BY <1>12, <2>1 DEF Abort, Inv, TypeOK
  <2> QED BY <2>1, <2>2, <2>3, ShrinkStep
<1> QED BY <1>1, <1>2, <1>3, <1>4, <1>5, <1>6, <1>7, <1>8, <1>9, <1>10,
           <1>11, <1>12 DEF HandlerStep

(* Steps that belong to no handler.                                        *)
LEMMA SweepType ==
    ASSUME Inv, NEW u \in Users,
           \/ SignOutAll(u) \/ SweepSessions(u) \/ ListDevices(u)
           \/ SweepDevices(u) \/ SignOutAllReturns(u) \/ SweepAborts(u)
    PROVE  sweep' \in [Users -> Sweep]
<1>1. sweep \in [Users -> Sweep] /\ NoSweep \in Sweep
  BY DEF Inv, TypeOK, NoSweep, Sweep
<1>2. CASE SignOutAll(u)
  <2>1. {r \in OwnedBy(u, {"session"}) \cup Tagged(u, ActiveDevices(u)) : Live(r)}
          \in SUBSET Rows
    BY DEF OwnedBy, Tagged
  <2> QED BY <1>1, <1>2, <2>1 DEF SignOutAll, Sweep, NoSweep
<1>3. CASE ListDevices(u)
  <2>1. ActiveDevices(u) \in SUBSET Devices
    BY DEF ActiveDevices
  <2> DEFINE next == IF ActiveDevices(u) = {} THEN "done" ELSE "txn"
  <2>2. sweep[u] \in Sweep /\ next \in {"txn", "done"}
    BY <1>1
  <2>3. [sweep[u] EXCEPT !.list = ActiveDevices(u), !.devices = next] \in Sweep
    BY <2>1, <2>2 DEF Sweep
  <2>4. sweep' = [sweep EXCEPT ![u] = [sweep[u] EXCEPT !.list = ActiveDevices(u),
                                                      !.devices = next]]
    BY <1>1, <1>3 DEF ListDevices
  <2> QED BY <1>1, <2>3, <2>4
<1>4. CASE SweepSessions(u) \/ SweepDevices(u)
  <2>1. CASE SweepSessions(u)
    BY <1>1, <2>1 DEF SweepSessions, Sweep
  <2>2. CASE SweepDevices(u)
    <3>1. sweep' = [sweep EXCEPT ![u].devices = "done"]
      BY <2>2 DEF SweepDevices
    <3> QED BY <1>1, <3>1 DEF Sweep
  <2> QED BY <1>4, <2>1, <2>2
<1>5. CASE SignOutAllReturns(u) \/ SweepAborts(u)
  BY <1>1, <1>5 DEF SignOutAllReturns, SweepAborts
<1> QED BY <1>2, <1>3, <1>4, <1>5

\* Steps on an account keep the invariant.
LEMMA UserKeepsInv ==
    ASSUME Inv, NEW u \in Users, UserStep(u)
    PROVE  Inv'
<1>1. KeepsSources
  BY JobUnchanged DEF UserStep, GainPass, SendVerification, ApprovePass,
     PassLapses, RevokeSession, RevokeConnection, SignOutAll, SweepSessions,
     ListDevices, SweepDevices, SignOutAllReturns, SweepAborts, Unsuspend,
     DeleteAccount, AccessExpires
<1>2. CASE \/ SendVerification(u)
           \/ \E p \in Passes : GainPass(u, p) \/ ApprovePass(u, p)
                              \/ PassLapses(u, p)
  <2>1. Shrinks
    BY <1>2, SameShrinks DEF Inv, GainPass, SendVerification, ApprovePass, PassLapses
  <2>2. pass' \subseteq Users \X Passes
    BY <1>2 DEF Inv, TypeOK, Passes, GainPass, SendVerification, ApprovePass,
       PassLapses
  <2>3. TypeOK'
    BY <1>2, <2>2 DEF Inv, TypeOK, GainPass, SendVerification, ApprovePass, PassLapses
  <2> QED BY <1>1, <2>1, <2>3, ShrinkStep
<1>3. CASE (\E r \in Rows : RevokeSession(u, r)) \/ RevokeConnection(u)
  <2>1. Shrinks
    BY <1>3, RevokedShrinks DEF Inv, RevokeSession, RevokeConnection
  <2>2. TypeOK'
    BY <1>3, <2>1 DEF Inv, TypeOK, Shrinks, RevokeSession, RevokeConnection
  <2> QED BY <1>1, <2>1, <2>2, ShrinkStep
<1>4. CASE SignOutAll(u) \/ ListDevices(u) \/ SignOutAllReturns(u) \/ SweepAborts(u)
  <2>1. Shrinks
    BY <1>4, SameShrinks DEF Inv, SignOutAll, ListDevices, SignOutAllReturns,
       SweepAborts
  <2>2. sweep' \in [Users -> Sweep]
    BY <1>4, SweepType
  <2>3. TypeOK'
    BY <1>4, <2>2 DEF Inv, TypeOK, SignOutAll, ListDevices, SignOutAllReturns,
       SweepAborts
  <2> QED BY <1>1, <2>1, <2>3, ShrinkStep
<1>5. CASE SweepSessions(u) \/ SweepDevices(u)
  <2>1. Shrinks
    BY <1>5, RevokedShrinks DEF Inv, SweepSessions, SweepDevices
  <2>2. sweep' \in [Users -> Sweep]
    BY <1>5, SweepType
  <2>3. device' \in [Users -> [Devices -> {"unseen", "active", "revoked"}]]
    BY <1>5 DEF Inv, TypeOK, SweepSessions, SweepDevices
  <2>4. TypeOK'
    BY <1>5, <2>1, <2>2, <2>3 DEF Inv, TypeOK, Shrinks, SweepSessions, SweepDevices
  <2> QED BY <1>1, <2>1, <2>4, ShrinkStep
<1>6. CASE Unsuspend(u) \/ DeleteAccount(u)
  <2>1. Shrinks
    BY <1>6, SameShrinks, RevokedShrinks DEF Inv, Unsuspend, DeleteAccount
  <2>2. TypeOK'
    BY <1>6, <2>1 DEF Inv, TypeOK, Shrinks, Unsuspend, DeleteAccount
  <2> QED BY <1>1, <2>1, <2>2, ShrinkStep
<1>7. CASE AccessExpires(u)
  <2>1. Shrinks
    BY <1>7, SameShrinks DEF Inv, AccessExpires
  <2>2. TypeOK'
    BY <1>7 DEF Inv, TypeOK, AccessExpires
  <2> QED BY <1>1, <2>1, <2>2, ShrinkStep
<1> QED BY <1>2, <1>3, <1>4, <1>5, <1>6, <1>7 DEF UserStep

\* Steps on rows keep the invariant.
LEMMA RowKeepsInv ==
    ASSUME Inv, NEW r \in Rows, RowStep(r)
    PROVE  Inv'
<1>1. KeepsSources
  BY JobUnchanged DEF RowStep, ReuseDetected, Logout, RowExpires
<1>2. CASE ReuseDetected(r) \/ Logout(r)
  <2>1. Shrinks
    BY <1>2, RevokedShrinks DEF Inv, ReuseDetected, Logout
  <2>2. TypeOK'
    BY <1>2, <2>1 DEF Inv, TypeOK, Shrinks, ReuseDetected, Logout
  <2> QED BY <1>1, <2>1, <2>2, ShrinkStep
<1>3. CASE RowExpires(r)
  <2>1. Shrinks
    BY <1>3, OneRowShrinks DEF Inv, RowExpires, Live, Allocated
  <2>2. TypeOK'
    BY <1>3, <2>1 DEF Inv, TypeOK, Shrinks, RowExpires
  <2> QED BY <1>1, <2>1, <2>2, ShrinkStep
<1> QED BY <1>2, <1>3 DEF RowStep

\* A stuttering step keeps the invariant.
LEMMA StutterKeepsInv ==
    ASSUME Inv, UNCHANGED vars
    PROVE  Inv'
<1>1. TypeOK'
  BY DEF Inv, TypeOK, vars
<1>2. Shrinks
  BY SameShrinks DEF Inv, vars
<1>3. KeepsSources
  BY JobUnchanged DEF vars
<1> QED BY <1>1, <1>2, <1>3, ShrinkStep

\* Every step keeps the invariant.
LEMMA StepKeepsInv ==
    ASSUME Inv, [Next]_vars
    PROVE  Inv'
BY HandlerKeepsInv, UserKeepsInv, RowKeepsInv, StutterKeepsInv DEF Next

(* The invariant holds in every state the two token services can get into. *)
LEMMA Invariance == Spec => []Inv
BY InitInv, StepKeepsInv, PTL DEF Spec

-----------------------------------------------------------------------------
(* The state has its types in every reachable state.                       *)
THEOREM TypeCorrect == Spec => []TypeOK
<1>1. Inv => TypeOK
  BY DEF Inv
<1> QED BY <1>1, Invariance, PTL

(* A sign-in has at most one live token until two of its refreshes overlap *)
(* (SessionService.rotateSession, OAuthTokenService.rotateRefreshToken).   *)
THEOREM SingleLiveRow == Spec => []OneLiveRowUnlessOverlap
<1>1. Inv => OneLiveRowUnlessOverlap
  BY DEF Inv, Lineage, SingleThread, OneLiveRowUnlessOverlap
<1> QED BY <1>1, Invariance, PTL

-----------------------------------------------------------------------------
(* What any step does to the rows, to the refreshes in progress and to the *)
(* devices.                                                                *)

\* Rows only die, but for the one a handler inserts.
LEMMA RowsOnlyDie ==
    ASSUME Inv, [Next]_vars
    PROVE  Shrinks \/ \E h \in Handlers, r \in Rows : CreateRow(h, r)
<1>1. ASSUME NEW h \in Handlers, HandlerStep(h),
             ~ \E r \in Rows : CreateRow(h, r)
      PROVE  Shrinks
  <2>1. CASE RefreshRevoke(h)
    BY <2>1, RefreshRevokeShrinks
  <2>2. CASE DropDevice(h) \/ KillSessions(h)
    BY <2>2, RevokedShrinks DEF Inv, DropDevice, KillSessions
  <2>3. CASE UNCHANGED row
    BY <2>3, SameShrinks DEF Inv
  <2> QED
    BY <1>1, <2>1, <2>2, <2>3
    DEF HandlerStep, SignIn, RedeemPass, RefreshCheck, ResolveDevice,
        UnrevokeDevice, RevokeDevice, Suspend, ResetPassword, Abort
<1>2. ASSUME NEW u \in Users, UserStep(u)
      PROVE  Shrinks
  <2>1. CASE UNCHANGED row
    BY <2>1, SameShrinks DEF Inv
  <2>2. CASE \/ \E r \in Rows : RevokeSession(u, r)
             \/ RevokeConnection(u) \/ SweepSessions(u) \/ SweepDevices(u)
             \/ DeleteAccount(u)
    BY <2>2, RevokedShrinks
    DEF Inv, RevokeSession, RevokeConnection, SweepSessions, SweepDevices,
        DeleteAccount
  <2> QED
    BY <1>2, <2>1, <2>2
    DEF UserStep, SendVerification, GainPass, ApprovePass, PassLapses,
        SignOutAll, ListDevices, SignOutAllReturns, SweepAborts, Unsuspend,
        AccessExpires
<1>3. ASSUME NEW r \in Rows, RowStep(r)
      PROVE  Shrinks
  <2>1. CASE RowExpires(r)
    BY <2>1, OneRowShrinks DEF Inv, RowExpires, Live, Allocated
  <2>2. CASE ReuseDetected(r) \/ Logout(r)
    BY <2>2, RevokedShrinks DEF Inv, ReuseDetected, Logout
  <2> QED BY <1>3, <2>1, <2>2 DEF RowStep
<1>4. CASE UNCHANGED vars
  BY <1>4, SameShrinks DEF Inv, vars
<1> QED BY <1>1, <1>2, <1>3, <1>4 DEF Next

\* A handler keeps what it refreshes or ends, but for one that starts.
LEMMA RefreshesOnlyEnd ==
    ASSUME Inv, [Next]_vars
    PROVE  \/ \A h \in Handlers : job'[h].src \in {job[h].src, None}
           \/ \E h \in Handlers, r \in Rows, d \in MaybeDevice :
                 RefreshCheck(h, r, d)
<1> SUFFICES ASSUME ~ \E h \in Handlers, r \in Rows, d \in MaybeDevice :
                         RefreshCheck(h, r, d),
                    NEW g \in Handlers
             PROVE  job'[g].src \in {job[g].src, None}
  OBVIOUS
<1>0. job \in [Handlers -> Job] /\ job[g] \in Job
  BY DEF Inv, TypeOK
<1>1. ASSUME NEW h \in Handlers, HandlerStep(h)
      PROVE  job'[g].src \in {job[g].src, None}
  <2>1. CASE job' = [job EXCEPT ![h] = Idle]
    BY <1>0, <2>1 DEF Idle
  <2>2. CASE \E pc \in {"resolve", "unrevoke", "create"} :
                job' = [job EXCEPT ![h].pc = pc]
    BY <1>0, <2>2 DEF Job
  <2>3. CASE \E u \in Users, k \in Kinds, d \in MaybeDevice,
                pc \in {"resolve", "kill", "dropDevice"} :
                Issue(h, u, k, d, None, pc)
    BY <1>0, <2>3 DEF Issue
  <2>4. \/ \E u \in Users, d \in MaybeDevice :
              \/ \E k \in Kinds : SignIn(h, u, k, d)
              \/ \E p \in Passes : RedeemPass(h, u, p, d)
        \/ \E u \in Users, d \in Devices : RevokeDevice(h, u, d)
        \/ \E u \in Users : Suspend(h, u) \/ ResetPassword(h, u)
        \/ RefreshRevoke(h) \/ ResolveDevice(h) \/ UnrevokeDevice(h)
        \/ \E r \in Rows : CreateRow(h, r)
        \/ DropDevice(h) \/ KillSessions(h) \/ Abort(h)
    BY <1>1 DEF HandlerStep
  <2>5. CASE \/ RefreshRevoke(h) \/ ResolveDevice(h) \/ UnrevokeDevice(h)
             \/ \E r \in Rows : CreateRow(h, r)
             \/ DropDevice(h) \/ KillSessions(h) \/ Abort(h)
    BY <2>1, <2>2, <2>5
    DEF RefreshRevoke, ResolveDevice, UnrevokeDevice, CreateRow, DropDevice,
        KillSessions, Abort
  <2>6. CASE \E u \in Users, d \in MaybeDevice, k \in Kinds : SignIn(h, u, k, d)
    BY <2>3, <2>6 DEF SignIn
  <2>7. CASE \E u \in Users, d \in MaybeDevice, p \in Passes :
                RedeemPass(h, u, p, d)
    BY <2>3, <2>7 DEF RedeemPass, Kinds
  <2>8. CASE \/ \E u \in Users, d \in Devices : RevokeDevice(h, u, d)
             \/ \E u \in Users : Suspend(h, u) \/ ResetPassword(h, u)
    BY <2>3, <2>8 DEF RevokeDevice, Suspend, ResetPassword, Kinds, MaybeDevice
  <2> QED BY <2>4, <2>5, <2>6, <2>7, <2>8
<1>2. CASE UNCHANGED job
  BY <1>2
<1> QED
  BY <1>1, <1>2
  DEF Next, vars, UserStep, RowStep, SendVerification, GainPass, ApprovePass,
      PassLapses, RevokeSession, RevokeConnection, SignOutAll, SweepSessions,
      ListDevices, SweepDevices, SignOutAllReturns, SweepAborts, Unsuspend,
      DeleteAccount, AccessExpires, ReuseDetected, Logout, RowExpires

(* A sign-in that is over stays over: no handler, sweep, reset or reuse    *)
(* detection brings a family back (rotateSession, rotateRefreshToken and   *)
(* every caller of session.create and oAuthRefreshToken.create).           *)
LEMMA OverStep ==
    ASSUME Inv, [Next]_vars, NEW f \in Rows, Over(f)
    PROVE  Over(f)'
<1>1. /\ Family(f) \subseteq Rows /\ row[f].family = f
      /\ \A r \in Family(f) : ~Live(r)
      /\ \A h \in Handlers : job[h].src # None => row[job[h].src].family # f
  BY DEF Over, Family, Refreshing
<1>2. CASE \E h \in Handlers, r \in Rows : CreateRow(h, r)
  <2> PICK h \in Handlers, r \in Rows : CreateRow(h, r)
    BY <1>2
  <2> DEFINE fam == IF job[h].src = None THEN r ELSE row[job[h].src].family
  <2>1. row[r].state = "free" /\ row[r].family = None /\ r # f
    BY <1>1, NoneIsNoValue DEF CreateRow, Inv, WellFormed, Allocated
  <2>2. /\ \A x \in Rows : x # r => row'[x] = row[x]
        /\ row'[r].family = fam
    BY DEF CreateRow, Inv, TypeOK
  <2>3. fam # f
    BY <1>1, <2>1
  <2>4. /\ Family(f)' = Family(f)
        /\ \A x \in Family(f) : x # r
    BY <1>1, <2>1, <2>2, <2>3, NoneIsNoValue DEF Family
  <2>5. \A x \in Family(f)' : ~Live(x)'
    BY <1>1, <2>2, <2>4 DEF Live
  <2>6. ASSUME NEW g \in Handlers, job'[g].src # None
        PROVE  row'[job'[g].src].family # f
    <3>1. job'[g] = job[g]
      BY <2>6 DEF CreateRow, Inv, TypeOK, Idle
    <3>2. job[g].src \in Rows /\ Allocated(job[g].src)
      BY <2>6, <3>1 DEF Inv, TypeOK, Job, WellFormed
    <3>3. row'[job[g].src] = row[job[g].src]
      BY <2>1, <2>2, <3>2 DEF Allocated
    <3> QED BY <1>1, <2>6, <3>1, <3>3
  <2> QED BY <1>1, <2>1, <2>2, <2>5, <2>6 DEF Over, Refreshing
<1>3. CASE Shrinks
  <2>1. /\ Family(f)' = Family(f) /\ row'[f].family = f
        /\ \A r \in Family(f)' : ~Live(r)'
    BY <1>1, <1>3 DEF Shrinks, Family, Live
  <2>2. CASE \A h \in Handlers : job'[h].src \in {job[h].src, None}
    <3>1. ASSUME NEW h \in Handlers, job'[h].src # None
          PROVE  row'[job'[h].src].family # f
      <4>1. job'[h].src = job[h].src /\ job[h].src \in Rows
        BY <2>2, <3>1 DEF Inv, TypeOK, Job
      <4> QED BY <1>1, <1>3, <3>1, <4>1 DEF Shrinks
    <3> QED BY <2>1, <3>1 DEF Over, Refreshing
  <2>3. CASE \E h \in Handlers, r \in Rows, d \in MaybeDevice :
                RefreshCheck(h, r, d)
    <3> PICK h \in Handlers, r \in Rows, d \in MaybeDevice :
               RefreshCheck(h, r, d)
      BY <2>3
    <3>1. Live(r) /\ row[r].family # f /\ row' = row
      BY <1>1 DEF RefreshCheck, Usable, Live, Family
    <3>2. /\ job'[h].src = r
          /\ \A g \in Handlers : g # h => job'[g] = job[g]
      BY DEF RefreshCheck, Issue, Inv, TypeOK
    <3>3. Refreshing(f)' = {}
      BY <1>1, <3>1, <3>2 DEF Refreshing
    <3> QED BY <2>1, <3>3 DEF Over
  <2> QED BY <2>2, <2>3, RefreshesOnlyEnd
<1> QED BY <1>2, <1>3, RowsOnlyDie

(* A sign-in with no live token and no refresh in progress never has a     *)
(* live token again, however the handlers interleave.                      *)
THEOREM OverIsOver == Spec => OverStaysOver
<1>1. Inv /\ [Next]_vars => \A f \in Rows : Over(f) => Over(f)'
  BY OverStep
<1>2. Inv /\ [Next]_vars => [\A f \in Rows : Over(f) => Over(f)']_vars
  BY <1>1
<1> QED BY <1>2, Invariance, PTL DEF Spec, OverStaysOver

-----------------------------------------------------------------------------
(* A suspended account that is out stays out (setSuspended, and every way  *)
(* in: login, the second steps, the refreshes, verification).              *)
LEMMA LockedOutStep ==
    ASSUME Inv, [Next]_vars, NEW u \in Users, LockedOut(u), suspended'[u]
    PROVE  LockedOut(u)'
<1>1. /\ suspended[u] /\ verified[u] /\ u \notin access
      /\ \A r \in Rows : row[r].user = u => ~Live(r)
      /\ \A p \in Passes : <<u, p>> \notin pass
      /\ \A h \in Handlers : job[h].pc \in Issuing => job[h].user # u
  BY DEF LockedOut, OwnedBy, Inv, TypeOK, Row
<1>2. job \in [Handlers -> Job] /\ verified \in [Users -> BOOLEAN]
  BY DEF Inv, TypeOK
<1>3. verified'[u]
  <2>1. CASE \E h \in Handlers, w \in Users, p \in Passes, d \in MaybeDevice :
                RedeemPass(h, w, p, d)
    BY <1>1, <1>2, <2>1 DEF RedeemPass
  <2>2. CASE UNCHANGED verified
    BY <1>1, <2>2
  <2> QED
    BY <2>1, <2>2, ZenonT(60)
    DEF Next, vars, HandlerStep, UserStep, RowStep, SignIn, RefreshCheck,
        RefreshRevoke, ResolveDevice, UnrevokeDevice, CreateRow, RevokeDevice,
        DropDevice, Suspend, ResetPassword, KillSessions, Abort,
        SendVerification, GainPass, ApprovePass, PassLapses, RevokeSession,
        RevokeConnection, SignOutAll, SweepSessions, ListDevices, SweepDevices,
        SignOutAllReturns, SweepAborts, Unsuspend, DeleteAccount,
        AccessExpires, ReuseDetected, Logout, RowExpires
<1>4. u \notin access'
  <2>1. CASE \E h \in Handlers, r \in Rows : CreateRow(h, r)
    BY <1>1, <2>1 DEF CreateRow, Issuing
  <2>2. CASE access' \subseteq access
    BY <1>1, <2>2
  <2> QED
    BY <2>1, <2>2, ZenonT(60)
    DEF Next, vars, HandlerStep, UserStep, RowStep, SignIn, RedeemPass,
        RefreshCheck, RefreshRevoke, ResolveDevice, UnrevokeDevice,
        RevokeDevice, DropDevice, Suspend, ResetPassword, KillSessions, Abort,
        SendVerification, GainPass, ApprovePass, PassLapses, RevokeSession,
        RevokeConnection, SignOutAll, SweepSessions, ListDevices, SweepDevices,
        SignOutAllReturns, SweepAborts, Unsuspend, DeleteAccount,
        AccessExpires, ReuseDetected, Logout, RowExpires
<1>5. \A r \in Rows : row'[r].user = u => ~Live(r)'
  <2>1. CASE \E h \in Handlers, r \in Rows : CreateRow(h, r)
    <3> PICK h \in Handlers, r \in Rows : CreateRow(h, r)
      BY <2>1
    <3>1. job[h].user # u
      BY <1>1 DEF CreateRow, Issuing
    <3>2. /\ row'[r].user = job[h].user
          /\ \A x \in Rows : x # r => row'[x] = row[x]
      BY DEF CreateRow, Inv, TypeOK
    <3> QED BY <1>1, <3>1, <3>2 DEF Live
  <2>2. CASE Shrinks
    BY <1>1, <2>2 DEF Shrinks, Live
  <2> QED BY <2>1, <2>2, RowsOnlyDie
<1>6. \A p \in Passes : <<u, p>> \notin pass'
  <2>1. CASE pass' \subseteq pass
    BY <1>1, <2>1
  <2>2. CASE \E w \in Users : SendVerification(w)
    BY <1>1, <2>2 DEF SendVerification
  <2>3. CASE \E w \in Users, p \in Passes : GainPass(w, p) \/ ApprovePass(w, p)
    BY <1>1, <2>3 DEF GainPass, ApprovePass, HasAccess
  <2>4. ASSUME NEW h \in Handlers, HandlerStep(h)
        PROVE  pass' \subseteq pass
    BY <2>4
    DEF HandlerStep, SignIn, RedeemPass, RefreshCheck, RefreshRevoke,
        ResolveDevice, UnrevokeDevice, CreateRow, RevokeDevice, DropDevice,
        Suspend, ResetPassword, KillSessions, Abort
  <2>5. ASSUME NEW w \in Users, UserStep(w),
               ~SendVerification(w),
               ~ \E p \in Passes : GainPass(w, p) \/ ApprovePass(w, p)
        PROVE  pass' \subseteq pass
    BY <2>5
    DEF UserStep, PassLapses, RevokeSession, RevokeConnection, SignOutAll,
        SweepSessions, ListDevices, SweepDevices, SignOutAllReturns,
        SweepAborts, Unsuspend, DeleteAccount, AccessExpires
  <2>6. ASSUME NEW r \in Rows, RowStep(r)
        PROVE  pass' \subseteq pass
    BY <2>6 DEF RowStep, ReuseDetected, Logout, RowExpires
  <2> QED BY <2>1, <2>2, <2>3, <2>4, <2>5, <2>6 DEF Next, vars
<1>7. ASSUME NEW g \in Handlers, job'[g].pc \in Issuing
      PROVE  job'[g].user # u
  <2>1. CASE UNCHANGED job
    BY <1>1, <1>7, <2>1
  <2>2. ASSUME NEW h \in Handlers, HandlerStep(h)
        PROVE  job'[g].user # u
    <3>1. CASE h # g
      BY <1>1, <1>2, <1>7, <2>2, <3>1
      DEF HandlerStep, SignIn, RedeemPass, RefreshCheck, RefreshRevoke,
          ResolveDevice, UnrevokeDevice, CreateRow, RevokeDevice, DropDevice,
          Suspend, ResetPassword, KillSessions, Abort, Issue
    <3>2. CASE h = g
      <4>1. CASE \E w \in Users, d \in MaybeDevice :
                    \/ \E k \in Kinds : SignIn(h, w, k, d)
                    \/ \E p \in Passes : RedeemPass(h, w, p, d)
        <5> PICK w \in Users, d \in MaybeDevice :
                    \/ \E k \in Kinds : SignIn(h, w, k, d)
                    \/ \E p \in Passes : RedeemPass(h, w, p, d)
          BY <4>1
        <5>1. \E k, d2 : Issue(h, w, k, d2, None, "resolve")
          BY DEF SignIn, RedeemPass
        <5>2. w # u
          BY <1>1 DEF SignIn, RedeemPass, MaySignIn
        <5> QED BY <1>2, <3>2, <5>1, <5>2 DEF Issue
      <4>2. CASE \E r \in Rows, d \in MaybeDevice : RefreshCheck(h, r, d)
        BY <1>1, <1>2, <3>2, <4>2 DEF RefreshCheck, Issue, Usable, Live
      <4>3. CASE RefreshRevoke(h) \/ ResolveDevice(h) \/ UnrevokeDevice(h)
        BY <1>1, <1>2, <3>2, <4>3
        DEF RefreshRevoke, ResolveDevice, UnrevokeDevice, Issuing, Job
      <4>4. CASE \/ \E w \in Users, d \in Devices : RevokeDevice(h, w, d)
                 \/ \E w \in Users : Suspend(h, w) \/ ResetPassword(h, w)
        BY <1>2, <1>7, <3>2, <4>4
        DEF RevokeDevice, Suspend, ResetPassword, Issue, Issuing
      <4>5. CASE \/ \E r \in Rows : CreateRow(h, r)
                 \/ DropDevice(h) \/ KillSessions(h) \/ Abort(h)
        BY <1>2, <1>7, <3>2, <4>5
        DEF CreateRow, DropDevice, KillSessions, Abort, Idle, Issuing
      <4> QED BY <2>2, <4>1, <4>2, <4>3, <4>4, <4>5 DEF HandlerStep
    <3> QED BY <3>1, <3>2
  <2> QED
    BY <2>1, <2>2
    DEF Next, vars, UserStep, RowStep, SendVerification, GainPass, ApprovePass,
        PassLapses, RevokeSession, RevokeConnection, SignOutAll, SweepSessions,
        ListDevices, SweepDevices, SignOutAllReturns, SweepAborts, Unsuspend,
        DeleteAccount, AccessExpires, ReuseDetected, Logout, RowExpires
<1> QED
  BY <1>3, <1>4, <1>5, <1>6, <1>7 DEF LockedOut, OwnedBy

(* While an account is suspended and has nothing live, pending or in       *)
(* flight, no step of sessions.service.ts or of the ways of signing in     *)
(* gives it a token.                                                       *)
THEOREM OutIsOut == Spec => LockedOutStaysOut
<1>1. Inv /\ [Next]_vars =>
         \A u \in Users : LockedOut(u) /\ suspended'[u] => LockedOut(u)'
  BY LockedOutStep
<1>2. Inv /\ [Next]_vars =>
         [\A u \in Users : LockedOut(u) /\ suspended'[u] => LockedOut(u)']_vars
  BY <1>1
<1> QED BY <1>2, Invariance, PTL DEF Spec, LockedOutStaysOut

-----------------------------------------------------------------------------
\* What is swept is dead.
LEMMA SweptIsDead ==
    ASSUME TypeOK, NEW S, row' = Revoked(S), NEW r \in Rows, r \in S
    PROVE  ~Live(r)'
<1>1. row[r] \in Row
  BY DEF TypeOK
<1>2. row'[r] = IF row[r].state \in {"live", "expired"}
                THEN [row[r] EXCEPT !.state = "revoked"] ELSE row[r]
  BY DEF Revoked
<1> QED BY <1>1, <1>2 DEF Live, Row

\* A device changes to be active, or with it go all rows it is the tag of.
LEMMA DevicesTakeTheirRows ==
    ASSUME Inv, [Next]_vars, NEW u \in Users, NEW d \in Devices
    PROVE  \/ device'[u][d] = device[u][d]
           \/ device'[u][d] = "active"
           \/ \A r \in Rows : row'[r].user = u /\ row'[r].device = d => ~Live(r)'
<1>1. device \in [Users -> [Devices -> {"unseen", "active", "revoked"}]]
  BY DEF Inv, TypeOK
<1>2. ASSUME NEW w \in Users, NEW ds \in SUBSET Devices,
             row' = Revoked(DroppedRows(w, ds)),
             \A v \in Users, e \in Devices :
                v # w \/ e \notin ds => device'[v][e] = device[v][e]
      PROVE  \/ device'[u][d] = device[u][d]
             \/ \A r \in Rows : row'[r].user = u /\ row'[r].device = d
                                   => ~Live(r)'
  <2>1. CASE w = u /\ d \in ds
    <3> SUFFICES ASSUME NEW r \in Rows, row'[r].user = u, row'[r].device = d
                 PROVE  ~Live(r)'
      OBVIOUS
    <3>1. row[r].user = u /\ row[r].device = d
      BY <1>2, RevokedShrinks DEF Inv, Shrinks
    <3>2. r \in DroppedRows(w, ds)
      BY <2>1, <3>1 DEF DroppedRows, Tagged
    <3> QED BY <1>2, <3>2, SweptIsDead DEF Inv
  <2> QED BY <1>2, <2>1
<1>3. CASE \E h \in Handlers : DropDevice(h)
  <2> PICK h \in Handlers : DropDevice(h)
    BY <1>3
  <2> DEFINE w == job[h].user  e == job[h].dev
  <2>1. w \in Users
    BY DEF DropDevice, Inv, WellFormed
  <2>2. CASE e \in Devices
    <3>1. \A v \in Users, x \in Devices :
             v # w \/ x # e => device'[v][x] = device[v][x]
      BY <1>1, <2>1, <2>2 DEF DropDevice
    <3>2. row' = Revoked(DroppedRows(w, {e})) /\ {e} \in SUBSET Devices
      BY <2>2 DEF DropDevice
    <3> HIDE DEF w, e
    <3> QED BY <1>2, <2>1, <3>1, <3>2
  <2>3. CASE e \notin Devices
    BY <1>1, <2>1, <2>3 DEF DropDevice
  <2> QED BY <2>2, <2>3
<1>4. CASE \E w \in Users : SweepDevices(w)
  <2> PICK w \in Users : SweepDevices(w)
    BY <1>4
  <2>1. sweep[w].list \in SUBSET Devices
    BY DEF Inv, TypeOK, Sweep
  <2>2. \A v \in Users, x \in Devices :
           v # w \/ x \notin sweep[w].list => device'[v][x] = device[v][x]
    BY <1>1 DEF SweepDevices
  <2> QED BY <1>2, <2>1, <2>2 DEF SweepDevices
<1>5. CASE \E h \in Handlers : ResolveDevice(h) \/ UnrevokeDevice(h)
  <2> PICK h \in Handlers : ResolveDevice(h) \/ UnrevokeDevice(h)
    BY <1>5
  <2>1. \/ UNCHANGED device
        \/ device' = [device EXCEPT ![job[h].user][job[h].dev] = "active"]
    BY DEF ResolveDevice, UnrevokeDevice
  <2> QED BY <1>1, <2>1
<1>6. CASE UNCHANGED device
  BY <1>6
<1> QED
  BY <1>3, <1>4, <1>5, <1>6, ZenonT(60)
  DEF Next, vars, HandlerStep, UserStep, RowStep, SignIn, RedeemPass,
      RefreshCheck, RefreshRevoke, CreateRow, RevokeDevice, Suspend,
      ResetPassword, KillSessions, Abort, SendVerification, GainPass,
      ApprovePass, PassLapses, RevokeSession, RevokeConnection, SignOutAll,
      SweepSessions, ListDevices, SignOutAllReturns, SweepAborts, Unsuspend,
      DeleteAccount, AccessExpires, ReuseDetected, Logout, RowExpires

(* Revoking a device leaves no live row tagged with it: one that is there  *)
(* later was inserted later (DeviceService.revokeDevice, revokeAllDevices, *)
(* against the inserts of handlers that had resolved the device before).   *)
LEMMA StragglersStep ==
    ASSUME Inv, OnlyStragglersOutliveTheirDevice, [Next]_vars
    PROVE  OnlyStragglersOutliveTheirDevice'
<1> SUFFICES ASSUME NEW u \in Users, NEW d \in Devices, device'[u][d] = "revoked",
                    NEW r \in Rows, row'[r].user = u, row'[r].device = d,
                    Live(r)'
             PROVE  r \in straggler'
  BY DEF OnlyStragglersOutliveTheirDevice, Tagged
<1>1. device[u][d] = "revoked"
  BY DevicesTakeTheirRows
<1>2. CASE \E h \in Handlers, x \in Rows : CreateRow(h, x)
  <2> PICK h \in Handlers, x \in Rows : CreateRow(h, x)
    BY <1>2
  <2>1. CASE x = r
    <3>1. row'[r].user = job[h].user /\ row'[r].device = job[h].dev
      BY <2>1 DEF CreateRow, Inv, TypeOK
    <3> QED BY <1>1, <2>1, <3>1, NoneIsNoValue DEF CreateRow
  <2>2. CASE x # r
    <3>1. row'[r] = row[r]
      BY <2>2 DEF CreateRow, Inv, TypeOK
    <3>2. r \in straggler
      BY <1>1, <3>1 DEF OnlyStragglersOutliveTheirDevice, Tagged, Live
    <3> QED BY <3>2 DEF CreateRow
  <2> QED BY <2>1, <2>2
<1>3. CASE Shrinks /\ ~ \E h \in Handlers, x \in Rows : CreateRow(h, x)
  <2>1. r \in straggler
    BY <1>1, <1>3 DEF Shrinks, OnlyStragglersOutliveTheirDevice, Tagged, Live
  <2>2. UNCHANGED straggler
    BY <1>3, ZenonT(60)
    DEF Next, vars, HandlerStep, UserStep, RowStep, SignIn, RedeemPass,
        RefreshCheck, RefreshRevoke, ResolveDevice, UnrevokeDevice,
        RevokeDevice, DropDevice, Suspend, ResetPassword, KillSessions, Abort,
        SendVerification, GainPass, ApprovePass, PassLapses, RevokeSession,
        RevokeConnection, SignOutAll, SweepSessions, ListDevices, SweepDevices,
        SignOutAllReturns, SweepAborts, Unsuspend, DeleteAccount,
        AccessExpires, ReuseDetected, Logout, RowExpires
  <2> QED BY <2>1, <2>2
<1> QED BY <1>2, <1>3, RowsOnlyDie

(* No row lives on under a device that was revoked, but for those a        *)
(* handler inserted that had resolved the device before.                   *)
THEOREM RevokedDevicesAreSwept == Spec => []OnlyStragglersOutliveTheirDevice
<1>1. Init => OnlyStragglersOutliveTheirDevice
  BY DEF Init, OnlyStragglersOutliveTheirDevice
<1> QED BY <1>1, StragglersStep, Invariance, PTL DEF Spec

-----------------------------------------------------------------------------
(* What a sign-out of all devices still has to do for a row that was live  *)
(* when it was called.                                                     *)
SweptSoFar(u, r) ==
    /\ Allocated(r) /\ row[r].user = u
    /\ Live(r) =>
          \/ row[r].kind = "session" /\ ~sweep[u].sessions
          \/ sweep[u].devices = "read" /\ row[r].device \in ActiveDevices(u)
          \/ sweep[u].devices = "txn" /\ row[r].device \in sweep[u].list

Sweeping ==
    \A u \in Users :
        /\ ~sweep[u].on => sweep[u] = NoSweep
        /\ \A r \in sweep[u].before : SweptSoFar(u, r)

\* A step that does not touch the sweep of u leaves nothing more to do.
LEMMA SweptStays ==
    ASSUME Inv, [Next]_vars, NEW u \in Users, NEW r \in Rows, SweptSoFar(u, r),
           sweep'[u] = sweep[u]
    PROVE  SweptSoFar(u, r)'
<1>1. /\ row'[r].user = row[r].user /\ row'[r].kind = row[r].kind
      /\ row'[r].device = row[r].device
      /\ Allocated(r)' /\ (Live(r)' => Live(r))
  <2>1. CASE \E h \in Handlers, x \in Rows : CreateRow(h, x)
    <3> PICK h \in Handlers, x \in Rows : CreateRow(h, x)
      BY <2>1
    <3>1. x # r
      BY DEF CreateRow, SweptSoFar, Allocated
    <3>2. row'[r] = row[r]
      BY <3>1 DEF CreateRow, Inv, TypeOK
    <3> QED BY <3>2 DEF SweptSoFar, Allocated, Live
  <2>2. CASE Shrinks
    BY <2>2 DEF Shrinks, SweptSoFar, Allocated, Live
  <2> QED BY <2>1, <2>2, RowsOnlyDie
<1>2. ASSUME row[r].device \in ActiveDevices(u), Live(r)'
      PROVE  row[r].device \in ActiveDevices(u)'
  <2>1. row[r].device \in Devices /\ device[u][row[r].device] = "active"
    BY <1>2 DEF ActiveDevices
  <2>2. device'[u][row[r].device] = "active"
    BY <1>1, <1>2, <2>1, DevicesTakeTheirRows DEF SweptSoFar
  <2> QED BY <2>1, <2>2 DEF ActiveDevices
<1> QED BY <1>1, <1>2 DEF SweptSoFar

\* A row the sweep of u has revoked is done with.
LEMMA SweptStep ==
    ASSUME Inv, Sweeping, NEW u \in Users,
           SweepSessions(u) \/ SweepDevices(u) \/ ListDevices(u),
           NEW r \in sweep[u].before
    PROVE  SweptSoFar(u, r)'
<1>1. r \in Rows /\ sweep[u] \in Sweep /\ SweptSoFar(u, r)
  BY DEF Inv, TypeOK, Sweep, Sweeping
<1>2. ASSUME Shrinks, Live(r)' =>
                \/ row[r].kind = "session" /\ ~sweep'[u].sessions
                \/ /\ sweep'[u].devices = "read"
                   /\ row[r].device \in ActiveDevices(u)'
                \/ /\ sweep'[u].devices = "txn"
                   /\ row[r].device \in sweep'[u].list
      PROVE  SweptSoFar(u, r)'
  BY <1>1, <1>2 DEF Shrinks, SweptSoFar, Allocated
<1>3. CASE SweepSessions(u)
  <2>1. Shrinks /\ (row[r].kind = "session" => ~Live(r)')
    BY <1>1, <1>3, RevokedShrinks, SweptIsDead
    DEF SweepSessions, OwnedBy, SweptSoFar, Inv
  <2>2. /\ ActiveDevices(u)' = ActiveDevices(u)
        /\ sweep'[u].devices = sweep[u].devices
        /\ sweep'[u].list = sweep[u].list
    BY <1>3 DEF SweepSessions, ActiveDevices, Inv, TypeOK, Sweep
  <2>3. Live(r)' => Live(r)
    BY <1>1, <2>1 DEF Shrinks, Live
  <2> QED BY <1>1, <1>2, <2>1, <2>2, <2>3 DEF SweptSoFar
<1>4. CASE SweepDevices(u)
  <2>1. Shrinks /\ (row[r].device \in sweep[u].list => ~Live(r)')
    BY <1>1, <1>4, RevokedShrinks, SweptIsDead
    DEF SweepDevices, DroppedRows, Tagged, SweptSoFar, Inv
  <2>2. sweep[u].devices = "txn" /\ sweep'[u].sessions = sweep[u].sessions
    BY <1>4 DEF SweepDevices, Inv, TypeOK, Sweep
  <2>3. Live(r)' => Live(r)
    BY <1>1, <2>1 DEF Shrinks, Live
  <2> QED BY <1>1, <1>2, <2>1, <2>2, <2>3 DEF SweptSoFar
<1>5. CASE ListDevices(u)
  <2>1. Shrinks /\ (Live(r)' => Live(r))
    BY <1>5, SameShrinks DEF ListDevices, Inv, Live
  <2>2. /\ sweep[u].devices = "read"
        /\ sweep'[u].sessions = sweep[u].sessions
        /\ row[r].device \in ActiveDevices(u) =>
              sweep'[u].devices = "txn" /\ row[r].device \in sweep'[u].list
    BY <1>5 DEF ListDevices, Inv, TypeOK, Sweep
  <2> QED BY <1>1, <1>2, <2>1, <2>2 DEF SweptSoFar
<1> QED BY <1>3, <1>4, <1>5

\* A step keeps what a sign-out of all devices has done so far.
LEMMA SweepingStep ==
    ASSUME Inv, Sweeping, [Next]_vars
    PROVE  Sweeping'
<1>0. sweep \in [Users -> Sweep]
  BY DEF Inv, TypeOK
<1> SUFFICES ASSUME NEW u \in Users
             PROVE  /\ ~sweep'[u].on => sweep'[u] = NoSweep
                    /\ \A r \in sweep'[u].before : SweptSoFar(u, r)'
  BY DEF Sweeping
<1>1. CASE sweep'[u] = sweep[u]
  <2>1. \A r \in sweep[u].before : r \in Rows
    BY <1>0 DEF Sweep
  <2> QED BY <1>1, <2>1, SweptStays DEF Sweeping
<1>2. CASE SignOutAll(u)
  <2>1. /\ sweep'[u].on /\ ~sweep'[u].sessions /\ sweep'[u].devices = "read"
        /\ sweep'[u].before = {r \in OwnedBy(u, {"session"})
                                  \cup Tagged(u, ActiveDevices(u)) : Live(r)}
    BY <1>0, <1>2 DEF SignOutAll, NoSweep
  <2>2. \A r \in sweep'[u].before :
           /\ row[r].user = u /\ Allocated(r)
           /\ row[r].kind = "session" \/ row[r].device \in ActiveDevices(u)
    BY <2>1 DEF OwnedBy, Tagged, Live, Allocated
  <2>3. row' = row /\ device' = device
    BY <1>2 DEF SignOutAll
  <2>4. \A r : (Allocated(r)' <=> Allocated(r)) /\ ActiveDevices(u)' = ActiveDevices(u)
    BY <2>3 DEF Allocated, ActiveDevices
  <2> QED BY <2>1, <2>2, <2>3, <2>4 DEF SweptSoFar
<1>3. CASE SweepSessions(u) \/ SweepDevices(u) \/ ListDevices(u)
  <2>1. /\ sweep[u].on /\ sweep'[u].on
        /\ sweep'[u].before = sweep[u].before
    BY <1>0, <1>3 DEF SweepSessions, SweepDevices, ListDevices, Sweep
  <2> QED BY <1>3, <2>1, SweptStep
<1>4. CASE SignOutAllReturns(u) \/ SweepAborts(u)
  <2>1. NoSweep.before = {}
    BY DEF NoSweep
  <2> QED BY <1>0, <1>4, <2>1 DEF SignOutAllReturns, SweepAborts
<1>5. ASSUME NEW w \in Users,
             \/ SignOutAll(w) \/ SweepSessions(w) \/ ListDevices(w)
             \/ SweepDevices(w) \/ SignOutAllReturns(w) \/ SweepAborts(w),
             w # u
      PROVE  sweep'[u] = sweep[u]
  BY <1>0, <1>5
  DEF SignOutAll, SweepSessions, ListDevices, SweepDevices, SignOutAllReturns,
      SweepAborts
<1>6. \/ UNCHANGED sweep
      \/ \E w \in Users :
            \/ SignOutAll(w) \/ SweepSessions(w) \/ ListDevices(w)
            \/ SweepDevices(w) \/ SignOutAllReturns(w) \/ SweepAborts(w)
  BY ZenonT(60) DEF Next, vars, HandlerStep, UserStep, RowStep, SignIn, RedeemPass,
      RefreshCheck, RefreshRevoke, ResolveDevice, UnrevokeDevice, CreateRow,
      RevokeDevice, DropDevice, Suspend, ResetPassword, KillSessions, Abort,
      SendVerification, GainPass, ApprovePass, PassLapses, RevokeSession,
      RevokeConnection, Unsuspend, DeleteAccount, AccessExpires,
      ReuseDetected, Logout, RowExpires
<1> QED BY <1>1, <1>2, <1>3, <1>4, <1>5, <1>6

(* "Sign out all devices" leaves nothing live of what was live when it was *)
(* called, whatever ran between its writes (revokeAllSessions).            *)
THEOREM SignOutSweeps == Spec => []SignOutAllSweeps
<1>1. Init => Sweeping
  <2>1. NoSweep.before = {}
    BY DEF NoSweep
  <2> QED BY <2>1 DEF Init, Sweeping
<1>2. Inv /\ Sweeping => SignOutAllSweeps
  BY DEF Sweeping, SweptSoFar, SignOutAllSweeps
<1> QED BY <1>1, <1>2, SweepingStep, Invariance, PTL DEF Spec

=============================================================================

--------------------------- MODULE SnapSiteProofs ---------------------------
(***************************************************************************)
(* For any number of clicks and look-ups: nothing is asked of a MetaMask   *)
(* without snaps, and once all is answered the site shows what MetaMask    *)
(* has.                                                                    *)
(*                                                                         *)
(* The last answer about snaps decides what the site will show (Told).     *)
(* When it is out of date, another look-up is to come (Due).               *)
(***************************************************************************)
EXTENDS SnapSite, SequenceTheorems, TLAPS

\* Once the answers of q have come, snap is shown.
Told(q, shown, snap) ==
  \/ /\ \A k \in DOMAIN q : q[k].kind # "snaps"
     /\ shown = snap
  \/ \E k \in DOMAIN q :
       /\ q[k].kind = "snaps" /\ q[k].value = snap
       /\ \A j \in DOMAIN q : q[j].kind = "snaps" => j <= k

\* What detectFlask was told to be there will make the effect run again.
Detecting ==
  \/ /\ ~state.isFlask
     /\ \/ ran = None \/ detecting = 1
        \/ \E k \in DOMAIN inbox : inbox[k].kind = "version" /\ inbox[k].value
  \/ state.isFlask /\ ran # None /\ ran.isFlask = FALSE

Due ==
  \/ Detecting
  \/ lookups > 0
  \/ \E c \in Clicks : click[c] = "looking"
  \/ \E k \in DOMAIN inbox : inbox[k].kind = "connect" /\ inbox[k].value

Informed == excused \/ Due \/ Told(inbox, state.installedSnap, metamask.snap)

\* What Flask is, is asked once for each value it had.
AskedFlask(q) ==
  /\ \A j, k \in DOMAIN q : q[j].kind = "version" /\ q[k].kind = "version" => j = k
  /\ \A k \in DOMAIN q : q[k].kind = "version" => detecting = 0
  /\ detecting = 1 \/ (\E k \in DOMAIN q : q[k].kind = "version") =>
       ran # None /\ ran.isFlask = state.isFlask

\* An answer to a click is the only one, and the click waits for it.
ForClick(m) == m.kind # "version" /\ m.by \in Clicks
Matched(q, stage) ==
  /\ \A k \in DOMAIN q : ForClick(q[k]) => stage[q[k].by] = "answered"
  /\ \A j, k \in DOMAIN q :
       ForClick(q[j]) /\ ForClick(q[k]) /\ q[j].by = q[k].by => j = k

\* Without Flask, there is nothing to connect to.
Flaskless ==
  metamask.flask
  \/ /\ ~metamask.snap /\ ~state.isFlask /\ ~state.installedSnap /\ lookups = 0
     /\ \A c \in Clicks : click[c] = "idle"
     /\ \A k \in DOMAIN inbox : ~inbox[k].value
     /\ Told(inbox, state.installedSnap, metamask.snap)

IInv ==
  /\ TypeOK /\ ThemeKept
  /\ AskedFlask(inbox) /\ Matched(inbox, click)
  /\ Flaskless /\ Informed
-----------------------------------------------------------------------------
(* Answers that come and go.                                               *)

LEMMA Arrived ==
  ASSUME NEW q \in Seq(Answer), NEW m \in Answer
  PROVE  LET q2 == Append(q, m)  n == Len(q) IN
         /\ n \in Nat /\ q2 \in Seq(Answer) /\ q2[n + 1] = m
         /\ DOMAIN q = 1..n /\ DOMAIN q2 = 1..(n + 1)
         /\ \A k \in 1..n : q2[k] = q[k]
BY AppendProperties

LEMMA Taken ==
  ASSUME NEW q \in Seq(Answer), q # <<>>
  PROVE  LET n == Len(Tail(q)) IN
         /\ n \in Nat /\ Tail(q) \in Seq(Answer)
         /\ DOMAIN Tail(q) = 1..n /\ DOMAIN q = 1..(n + 1)
         /\ Head(q) = q[1] /\ Head(q) \in Answer
         /\ \A k \in 1..n : Tail(q)[k] = q[k + 1]
BY HeadTailProperties

LEMMA ToldMore ==
  ASSUME NEW q \in Seq(Answer), NEW m \in Answer, NEW shown, NEW snap,
         m.kind # "snaps", Told(q, shown, snap)
  PROVE  Told(Append(q, m), shown, snap)
<1> DEFINE q2 == Append(q, m)  n == Len(q)
<1>1. /\ n \in Nat /\ q2[n + 1] = m
      /\ DOMAIN q = 1..n /\ DOMAIN q2 = 1..(n + 1)
      /\ \A k \in 1..n : q2[k] = q[k]
  BY Arrived
<1> HIDE DEF q2, n
<1>2. \A k \in DOMAIN q2 : \/ k \in DOMAIN q /\ q2[k] = q[k]
                           \/ k = n + 1 /\ q2[k] = m
  BY <1>1
<1>3. \A k \in DOMAIN q : k \in DOMAIN q2 /\ q2[k] = q[k]
  BY <1>1
<1>4. Told(q2, shown, snap)
  BY <1>2, <1>3 DEF Told
<1> QED BY <1>4 DEF q2

LEMMA ToldNow ==
  ASSUME NEW q \in Seq(Answer), NEW m \in Answer, NEW shown, m.kind = "snaps"
  PROVE  Told(Append(q, m), shown, m.value)
<1> DEFINE q2 == Append(q, m)  n == Len(q)
<1>1. /\ n \in Nat /\ q2[n + 1] = m /\ DOMAIN q2 = 1..(n + 1)
  BY Arrived
<1> HIDE DEF q2, n
<1>2. n + 1 \in DOMAIN q2 /\ \A j \in DOMAIN q2 : j <= n + 1
  BY <1>1
<1>3. Told(q2, shown, m.value)
  BY <1>1, <1>2 DEF Told
<1> QED BY <1>3 DEF q2

LEMMA ToldNext ==
  ASSUME NEW q \in Seq(Answer), q # <<>>, NEW shown, NEW snap, Told(q, shown, snap)
  PROVE  Told(Tail(q), IF Head(q).kind = "snaps" THEN Head(q).value ELSE shown, snap)
<1> DEFINE t == Tail(q)  n == Len(t)
           now == IF Head(q).kind = "snaps" THEN Head(q).value ELSE shown
<1>1. /\ n \in Nat /\ DOMAIN t = 1..n /\ DOMAIN q = 1..(n + 1) /\ Head(q) = q[1]
      /\ \A k \in 1..n : t[k] = q[k + 1]
  BY Taken
<1> HIDE DEF t, n
<1>2. \A k \in DOMAIN t : k + 1 \in DOMAIN q /\ t[k] = q[k + 1]
  BY <1>1
<1>3. CASE \A k \in DOMAIN q : q[k].kind # "snaps"
  BY <1>1, <1>2, <1>3 DEF Told
<1>4. CASE \E k \in DOMAIN q : q[k].kind = "snaps"
  <2>1. PICK k \in DOMAIN q :
          /\ q[k].kind = "snaps" /\ q[k].value = snap
          /\ \A j \in DOMAIN q : q[j].kind = "snaps" => j <= k
    BY <1>4 DEF Told
  <2>2. CASE k = 1
    <3>1. \A j \in DOMAIN t : t[j].kind # "snaps"
      BY <1>1, <1>2, <2>1, <2>2
    <3> QED BY <1>1, <2>1, <2>2, <3>1 DEF Told, t
  <2>3. CASE k # 1
    <3>1. k - 1 \in DOMAIN t /\ t[k - 1] = q[k]
      BY <1>1, <2>3
    <3>2. \A j \in DOMAIN t : t[j].kind = "snaps" => j <= k - 1
      BY <1>1, <1>2, <2>1
    <3> QED BY <2>1, <3>1, <3>2 DEF Told, t
  <2> QED BY <2>2, <2>3
<1> QED BY <1>3, <1>4 DEF t

\* One answer more that is for no click.
LEMMA MatchedMore ==
  ASSUME NEW q \in Seq(Answer), NEW m \in Answer, NEW stage, ~ForClick(m), Matched(q, stage)
  PROVE  Matched(Append(q, m), stage)
<1> DEFINE q2 == Append(q, m)  n == Len(q)
<1>1. /\ n \in Nat /\ q2[n + 1] = m
      /\ DOMAIN q = 1..n /\ DOMAIN q2 = 1..(n + 1)
      /\ \A k \in 1..n : q2[k] = q[k]
  BY Arrived
<1> HIDE DEF q2, n
<1>2. \A k \in DOMAIN q2 : ForClick(q2[k]) => k \in DOMAIN q /\ q2[k] = q[k]
  BY <1>1
<1>3. Matched(q2, stage)
  BY <1>2 DEF Matched
<1> QED BY <1>3 DEF q2

\* A click goes on while no answer is on its way to it.
LEMMA MatchedStart ==
  ASSUME NEW q \in Seq(Answer), NEW stage \in [Clicks -> Stages], NEW c \in Clicks, NEW s,
         stage[c] # "answered", Matched(q, stage)
  PROVE  /\ Matched(q, [stage EXCEPT ![c] = s])
         /\ \A k \in DOMAIN q : ForClick(q[k]) => q[k].by # c
<1>1. \A k \in DOMAIN q : ForClick(q[k]) => q[k].by # c
  BY DEF Matched
<1> QED BY <1>1 DEF Matched, ForClick

LEMMA MatchedAnswer ==
  ASSUME NEW q \in Seq(Answer), NEW stage \in [Clicks -> Stages], NEW m \in Answer,
         ForClick(m), stage[m.by] # "answered", Matched(q, stage)
  PROVE  Matched(Append(q, m), [stage EXCEPT ![m.by] = "answered"])
<1> DEFINE q2 == Append(q, m)  n == Len(q)  c == m.by
           stage2 == [stage EXCEPT ![c] = "answered"]
<1>1. /\ n \in Nat /\ q2[n + 1] = m
      /\ DOMAIN q = 1..n /\ DOMAIN q2 = 1..(n + 1)
      /\ \A k \in 1..n : q2[k] = q[k]
  BY Arrived
<1>2. c \in Clicks /\ stage2[c] = "answered"
  BY DEF ForClick
<1>3. /\ Matched(q, stage2)
      /\ \A k \in DOMAIN q : ForClick(q[k]) => q[k].by # c
  BY <1>2, MatchedStart
<1> HIDE DEF q2, n, stage2
<1>4. \A k \in DOMAIN q2 : \/ k \in DOMAIN q /\ q2[k] = q[k]
                           \/ k = n + 1 /\ q2[k] = m
  BY <1>1
<1>5. \A k \in DOMAIN q2 : ForClick(q2[k]) => stage2[q2[k].by] = "answered"
  BY <1>2, <1>3, <1>4 DEF Matched
<1>6. ASSUME NEW j \in DOMAIN q2, NEW k \in DOMAIN q2,
             ForClick(q2[j]), ForClick(q2[k]), q2[j].by = q2[k].by
      PROVE  j = k
  BY <1>3, <1>4, <1>6 DEF Matched
<1>7. Matched(q2, stage2)
  BY <1>5, <1>6 DEF Matched
<1> QED BY <1>7 DEF q2, stage2

\* The first answer is taken, and only the click it is for goes on.
LEMMA MatchedNext ==
  ASSUME NEW q \in Seq(Answer), q # <<>>, NEW stage, NEW stage2, Matched(q, stage),
         \A c \in Clicks : stage2[c] = stage[c] \/ (ForClick(Head(q)) /\ c = Head(q).by)
  PROVE  Matched(Tail(q), stage2)
<1> DEFINE t == Tail(q)  n == Len(t)
<1>1. /\ n \in Nat /\ DOMAIN t = 1..n /\ DOMAIN q = 1..(n + 1) /\ Head(q) = q[1]
      /\ \A k \in 1..n : t[k] = q[k + 1]
  BY Taken
<1> HIDE DEF t, n
<1>2. \A k \in DOMAIN t : k + 1 \in DOMAIN q /\ k + 1 # 1 /\ t[k] = q[k + 1]
  BY <1>1
<1>3. ASSUME NEW k \in DOMAIN t, ForClick(t[k])
      PROVE  stage2[t[k].by] = "answered"
  <2>1. k + 1 \in DOMAIN q /\ 1 \in DOMAIN q /\ k + 1 # 1 /\ t[k] = q[k + 1]
    BY <1>1, <1>2
  <2>2. stage[t[k].by] = "answered" /\ t[k].by \in Clicks
    BY <1>3, <2>1 DEF Matched, ForClick
  <2>3. ~(ForClick(q[1]) /\ t[k].by = q[1].by)
    BY <1>3, <2>1 DEF Matched
  <2> QED BY <1>1, <2>2, <2>3
<1>4. ASSUME NEW j \in DOMAIN t, NEW k \in DOMAIN t,
             ForClick(t[j]), ForClick(t[k]), t[j].by = t[k].by
      PROVE  j = k
  <2>1. j + 1 = k + 1
    BY <1>2, <1>4 DEF Matched
  <2> QED BY <1>1, <2>1
<1>5. Matched(t, stage2)
  BY <1>3, <1>4 DEF Matched
<1> QED BY <1>5 DEF t

-----------------------------------------------------------------------------
(* The invariant, action by action.                                        *)

\* What the effects run with is told from their not having run.
LEMMA DepsAreNotNone ==
  ASSUME TypeOK
  PROVE  Deps # None /\ Deps \in [isFlask : BOOLEAN, error : Clicks \cup {None}]
BY SiteAssumption DEF TypeOK, MetamaskState, Deps

LEMMA InitOK == Init => IInv
<1> SUFFICES ASSUME Init PROVE IInv
  OBVIOUS
<1>1. inbox \in Seq(Answer) /\ DOMAIN inbox = {}
  BY DEF Init
<1>2. TypeOK
  <2>1. theme \in [dark : BOOLEAN, checked : BOOLEAN, stored : BOOLEAN]
    BY DEF Init, Preference
  <2>2. state \in MetamaskState
    BY DEF Init, MetamaskState
  <2>3. click \in [Clicks -> Stages]
    BY DEF Init, Stages
  <2>4. /\ metamask \in [flask : BOOLEAN, snap : BOOLEAN] /\ local \in BOOLEAN
        /\ ran = None /\ timer = None /\ excused \in BOOLEAN
        /\ detecting \in {0, 1} /\ lookups = 0
    BY DEF Init
  <2>5. lookups \in 0..MaxLookups
    BY <2>4, SiteAssumption
  <2> QED BY <1>1, <2>1, <2>2, <2>3, <2>4, <2>5 DEF TypeOK
<1>3. ThemeKept
  BY DEF Init, ThemeKept, Preference
<1>4. AskedFlask(inbox) /\ Matched(inbox, click)
  BY <1>1 DEF Init, AskedFlask, Matched
<1>5. Flaskless
  <2>1. ~state.installedSnap /\ state.installedSnap = FALSE /\ ~state.isFlask
    BY DEF Init
  <2>2. ~metamask.flask => metamask.snap = FALSE
    BY DEF Init
  <2> QED BY <1>1, <2>1, <2>2 DEF Init, Flaskless, Told
<1>6. Informed
  BY DEF Init, Informed, Due, Detecting
<1> QED BY <1>2, <1>3, <1>4, <1>5, <1>6 DEF IInv

LEMMA RunEffectsKeeps == IInv /\ RunEffects => IInv'
<1> SUFFICES ASSUME IInv, RunEffects PROVE IInv'
  OBVIOUS
<1> USE DEF effectVars, askVars, userVars
<1>1. /\ TypeOK /\ Deps # None
      /\ Deps \in [isFlask : BOOLEAN, error : Clicks \cup {None}]
      /\ Deps.isFlask = state.isFlask
  BY DepsAreNotNone DEF IInv, Deps
<1>2. ran' = Deps /\ UNCHANGED <<metamask, local, state, click, inbox, theme, excused>>
  BY DEF RunEffects
<1>3. CASE ran = None \/ ran.isFlask # state.isFlask
  <2>1. detecting = 0 /\ \A k \in DOMAIN inbox : inbox[k].kind # "version"
    BY <1>1, <1>3 DEF IInv, AskedFlask, TypeOK
  <2>2. /\ detecting' = 1
        /\ lookups' = (IF state.isFlask THEN lookups + 1 ELSE lookups)
        /\ state.isFlask => lookups < MaxLookups
    BY <1>3, <2>1 DEF RunEffects, FlaskEffect
  <2>3. timer' \in Clicks \cup {None}
    BY <1>1 DEF RunEffects, ErrorEffect, TypeOK, MetamaskState
  <2>4. TypeOK'
    BY <1>1, <1>2, <2>2, <2>3, SiteAssumption DEF TypeOK
  <2>5. AskedFlask(inbox)'
    BY <1>1, <1>2, <2>1, <2>2 DEF AskedFlask
  <2>6. Flaskless'
    BY <1>2, <2>2 DEF IInv, Flaskless
  <2>7. Informed'
    <3>1. CASE state.isFlask
      BY <1>1, <1>2, <2>2, <3>1 DEF Informed, Due, TypeOK
    <3>2. CASE ~state.isFlask
      BY <1>2, <2>2, <3>2 DEF Informed, Due, Detecting
    <3> QED BY <3>1, <3>2
  <2> QED BY <1>2, <2>4, <2>5, <2>6, <2>7 DEF IInv, ThemeKept, Matched
<1>4. CASE ~(ran = None \/ ran.isFlask # state.isFlask)
  <2>1. detecting' = detecting /\ lookups' = lookups
    BY <1>4 DEF RunEffects, FlaskEffect
  <2>2. timer' \in Clicks \cup {None}
    BY <1>1 DEF RunEffects, ErrorEffect, TypeOK, MetamaskState
  <2>3. TypeOK'
    BY <1>1, <1>2, <2>1, <2>2 DEF TypeOK
  <2>4. AskedFlask(inbox)'
    BY <1>1, <1>2, <2>1 DEF IInv, AskedFlask
  <2>5. Informed'
    BY <1>1, <1>2, <1>4, <2>1 DEF IInv, Informed, Due, Detecting
  <2> QED BY <1>2, <2>1, <2>3, <2>4, <2>5 DEF IInv, ThemeKept, Matched, Flaskless
<1> QED BY <1>3, <1>4

LEMMA TimerFiresKeeps == IInv /\ TimerFires => IInv'
<1> SUFFICES ASSUME IInv, TimerFires PROVE IInv'
  OBVIOUS
<1> USE DEF effectVars, askVars, userVars
<1>1. /\ state' \in MetamaskState
      /\ state'.isFlask = state.isFlask /\ state'.installedSnap = state.installedSnap
  BY DEF IInv, TypeOK, MetamaskState, TimerFires, Reduced
<1>2. /\ timer' = None
      /\ UNCHANGED <<metamask, local, ran, detecting, lookups, click, inbox, theme, excused>>
  BY DEF TimerFires
<1>3. TypeOK'
  BY <1>1, <1>2 DEF IInv, TypeOK
<1>4. AskedFlask(inbox)' /\ Matched(inbox, click)' /\ ThemeKept' /\ Flaskless'
  BY <1>1, <1>2 DEF IInv, AskedFlask, Matched, ThemeKept, Flaskless
<1>5. Informed'
  BY <1>1, <1>2 DEF IInv, Informed, Due, Detecting
<1> QED BY <1>3, <1>4, <1>5 DEF IInv

LEMMA ToggleKeeps == IInv /\ Toggle => IInv'
<1> SUFFICES ASSUME IInv, Toggle PROVE IInv'
  OBVIOUS
<1> USE DEF effectVars, askVars
<1>1. /\ theme' \in [dark : BOOLEAN, checked : BOOLEAN, stored : BOOLEAN]
      /\ ThemeKept'
  <2>1. PICK stores \in BOOLEAN : ToggleTheme(stores)
    BY DEF Toggle, setLocalStorage
  <2> QED BY <2>1 DEF IInv, TypeOK, ThemeKept, ToggleTheme, Preference
<1>2. UNCHANGED <<metamask, local, state, ran, timer, detecting, lookups, click, inbox, excused>>
  BY DEF Toggle
<1>3. TypeOK'
  BY <1>1, <1>2 DEF IInv, TypeOK
<1>4. AskedFlask(inbox)' /\ Matched(inbox, click)' /\ Flaskless'
  BY <1>2 DEF IInv, AskedFlask, Matched, Flaskless
<1>5. Informed'
  BY <1>2 DEF IInv, Informed, Due, Detecting
<1> QED BY <1>1, <1>3, <1>4, <1>5 DEF IInv

LEMMA RemoveKeeps == IInv /\ Remove => IInv'
<1> SUFFICES ASSUME IInv, Remove PROVE IInv'
  OBVIOUS
<1> USE DEF effectVars, askVars, userVars
<1>1. /\ metamask' \in [flask : BOOLEAN, snap : BOOLEAN]
      /\ metamask'.flask = metamask.flask /\ ~metamask'.snap
      /\ excused'
  BY DEF IInv, TypeOK, Remove
<1>2. UNCHANGED <<local, state, ran, timer, detecting, lookups, click, inbox, theme>>
  BY DEF Remove
<1>3. TypeOK'
  BY <1>1, <1>2 DEF IInv, TypeOK, Remove
<1>4. AskedFlask(inbox)' /\ Matched(inbox, click)' /\ ThemeKept'
  BY <1>1, <1>2 DEF IInv, AskedFlask, Matched, ThemeKept
<1>5. Flaskless'
  BY <1>1 DEF IInv, Flaskless, Remove
<1> QED BY <1>1, <1>3, <1>4, <1>5 DEF IInv, Informed

\* Only where there is Flask a button connects.
LEMMA ConnectsKeeps ==
  ASSUME IInv, NEW c \in Clicks, PageClick(c) \/ HeaderClick(c)
  PROVE  IInv'
<1> USE DEF effectVars, askVars, userVars
<1>1. /\ click[c] = "idle" /\ click' = [click EXCEPT ![c] = "connecting"]
      /\ UNCHANGED <<metamask, local, state, ran, timer, detecting, lookups, inbox, theme, excused>>
  BY DEF PageClick, HeaderClick, Connects
<1>2. metamask.flask
  BY DEF IInv, Flaskless, PageClick, HeaderClick, PageOffers, HeaderOffers,
         shouldDisplayReconnectButton
<1>3. TypeOK'
  BY <1>1 DEF IInv, TypeOK, Stages
<1>4. Matched(inbox, click)'
  <2>1. Matched(inbox, [click EXCEPT ![c] = "connecting"])
    BY <1>1, MatchedStart DEF IInv, TypeOK
  <2> QED BY <1>1, <2>1
<1>5. AskedFlask(inbox)' /\ ThemeKept' /\ Flaskless'
  BY <1>1, <1>2 DEF IInv, AskedFlask, ThemeKept, Flaskless
<1>6. Informed'
  <2>1. \A d \in Clicks : click[d] = "looking" => click'[d] = "looking"
    BY <1>1 DEF IInv, TypeOK
  <2> QED BY <1>1, <2>1 DEF IInv, Informed, Due, Detecting
<1> QED BY <1>3, <1>4, <1>5, <1>6 DEF IInv

\* Answers about snaps end what was due, unless they are out of date.
LEMMA LookupAnswered ==
  ASSUME TypeOK, NEW by \in Clicks \cup {None}, getSnap(by)
  PROVE  /\ \E m \in Answer : /\ inbox' = Append(inbox, m)
                              /\ m.kind = "snaps" /\ m.by = by
                              /\ ~metamask.snap => ~m.value
         /\ excused' \in BOOLEAN
         /\ excused' \/ Told(inbox', state.installedSnap, metamask.snap)
<1>1. PICK value \in {metamask.snap, FALSE} :
        /\ inbox' = Append(inbox, [kind |-> "snaps", by |-> by, value |-> value])
        /\ excused' = (value # metamask.snap)
  BY DEF getSnap
<1> DEFINE m == [kind |-> "snaps", by |-> by, value |-> value]
<1>2. /\ m \in Answer /\ m.kind = "snaps" /\ m.by = by /\ m.value = value
      /\ ~metamask.snap => ~m.value
  BY DEF TypeOK, Answer
<1>3. inbox' = Append(inbox, m)
  BY <1>1
<1> HIDE DEF m
<1>4. Told(inbox', state.installedSnap, value)
  BY <1>2, <1>3, ToldNow DEF TypeOK
<1>5. excused' \in BOOLEAN /\ (excused' \/ value = metamask.snap)
  BY <1>1
<1> QED BY <1>2, <1>3, <1>4, <1>5

\* What AskedFlask and Flaskless say of the answers, with one more of another kind.
LEMMA OtherKind ==
  ASSUME NEW q \in Seq(Answer), NEW m \in Answer, m.kind # "version", AskedFlask(q)
  PROVE  /\ AskedFlask(Append(q, m))
         /\ (\A k \in DOMAIN q : ~q[k].value) /\ ~m.value =>
              \A k \in DOMAIN Append(q, m) : ~Append(q, m)[k].value
         /\ \A k \in DOMAIN q : k \in DOMAIN Append(q, m) /\ Append(q, m)[k] = q[k]
         /\ \E k \in DOMAIN Append(q, m) : Append(q, m)[k] = m
<1> DEFINE q2 == Append(q, m)  n == Len(q)
<1>1. /\ n \in Nat /\ q2[n + 1] = m
      /\ DOMAIN q = 1..n /\ DOMAIN q2 = 1..(n + 1)
      /\ \A k \in 1..n : q2[k] = q[k]
  BY Arrived
<1> HIDE DEF q2, n
<1>2. /\ \A k \in DOMAIN q2 : \/ k \in DOMAIN q /\ q2[k] = q[k]
                              \/ k = n + 1 /\ q2[k] = m
      /\ \A k \in DOMAIN q : k \in DOMAIN q2 /\ q2[k] = q[k]
      /\ n + 1 \in DOMAIN q2
  BY <1>1
<1>3. AskedFlask(q2)
  BY <1>2 DEF AskedFlask
<1> QED BY <1>1, <1>2, <1>3 DEF q2

LEMMA EffectLookupKeeps == IInv /\ EffectLookup => IInv'
<1> SUFFICES ASSUME IInv, EffectLookup PROVE IInv'
  OBVIOUS
<1> USE DEF effectVars, userVars
<1>1. /\ lookups > 0 /\ lookups' = lookups - 1 /\ getSnap(None)
      /\ UNCHANGED <<metamask, local, state, ran, timer, detecting, click, theme>>
  BY DEF EffectLookup
<1>2. PICK m \in Answer : /\ inbox' = Append(inbox, m)
                          /\ m.kind = "snaps" /\ m.by = None
                          /\ ~metamask.snap => ~m.value
  BY <1>1, LookupAnswered DEF IInv
<1>3. /\ excused' \in BOOLEAN
      /\ excused' \/ Told(inbox', state.installedSnap, metamask.snap)
  BY <1>1, LookupAnswered DEF IInv
<1>4. inbox \in Seq(Answer) /\ inbox' \in Seq(Answer)
  BY <1>2, Arrived DEF IInv, TypeOK
<1>5. TypeOK'
  BY <1>1, <1>3, <1>4, SiteAssumption DEF IInv, TypeOK
<1>6. Matched(inbox, click)'
  <2>1. ~ForClick(m)
    BY <1>2, SiteAssumption DEF ForClick
  <2>2. Matched(Append(inbox, m), click)
    BY <1>4, <2>1, MatchedMore DEF IInv
  <2> QED BY <1>1, <1>2, <2>2
<1>7. AskedFlask(inbox)'
  <2>1. AskedFlask(Append(inbox, m))
    BY <1>2, <1>4, OtherKind DEF IInv
  <2> QED BY <1>1, <1>2, <2>1 DEF AskedFlask
<1>8. metamask.flask
  BY <1>1 DEF IInv, Flaskless
<1>9. ThemeKept' /\ Flaskless' /\ Informed'
  BY <1>1, <1>3, <1>8 DEF IInv, ThemeKept, Flaskless, Informed
<1> QED BY <1>5, <1>6, <1>7, <1>9 DEF IInv

LEMMA ClickLookupKeeps ==
  ASSUME IInv, NEW c \in Clicks, ClickLookup(c)
  PROVE  IInv'
<1> USE DEF effectVars, userVars
<1>1. /\ click[c] = "looking" /\ click' = [click EXCEPT ![c] = "answered"] /\ getSnap(c)
      /\ UNCHANGED <<metamask, local, state, ran, timer, detecting, lookups, theme>>
  BY DEF ClickLookup
<1>2. PICK m \in Answer : /\ inbox' = Append(inbox, m)
                          /\ m.kind = "snaps" /\ m.by = c
                          /\ ~metamask.snap => ~m.value
  BY <1>1, LookupAnswered DEF IInv
<1>3. /\ excused' \in BOOLEAN
      /\ excused' \/ Told(inbox', state.installedSnap, metamask.snap)
  BY <1>1, LookupAnswered DEF IInv
<1>4. inbox \in Seq(Answer) /\ inbox' \in Seq(Answer)
  BY <1>2, Arrived DEF IInv, TypeOK
<1>5. TypeOK'
  BY <1>1, <1>3, <1>4 DEF IInv, TypeOK, Stages
<1>6. Matched(inbox, click)'
  <2>1. ForClick(m) /\ click[m.by] # "answered"
    BY <1>1, <1>2 DEF ForClick
  <2>2. Matched(Append(inbox, m), [click EXCEPT ![m.by] = "answered"])
    BY <1>4, <2>1, MatchedAnswer DEF IInv, TypeOK
  <2> QED BY <1>1, <1>2, <2>2
<1>7. AskedFlask(inbox)'
  <2>1. AskedFlask(Append(inbox, m))
    BY <1>2, <1>4, OtherKind DEF IInv
  <2> QED BY <1>1, <1>2, <2>1 DEF AskedFlask
<1>8. metamask.flask
  BY <1>1 DEF IInv, Flaskless
<1>9. ThemeKept' /\ Flaskless' /\ Informed'
  BY <1>1, <1>3, <1>8 DEF IInv, ThemeKept, Flaskless, Informed
<1> QED BY <1>5, <1>6, <1>7, <1>9 DEF IInv

LEMMA connectSnapKeeps ==
  ASSUME IInv, NEW c \in Clicks, connectSnap(c)
  PROVE  IInv'
<1> USE DEF effectVars, userVars
<1>1. PICK installed \in {metamask.flask, FALSE} :
        /\ metamask' = [metamask EXCEPT !.snap = @ \/ installed]
        /\ inbox' = Append(inbox, [kind |-> "connect", by |-> c, value |-> installed])
  BY DEF connectSnap
<1>2. /\ click[c] = "connecting" /\ click' = [click EXCEPT ![c] = "answered"]
      /\ UNCHANGED <<local, state, ran, timer, detecting, lookups, theme, excused>>
  BY DEF connectSnap
<1> DEFINE m == [kind |-> "connect", by |-> c, value |-> installed]
<1>3. m \in Answer /\ m.kind = "connect" /\ m.by = c /\ m.value = installed
  BY DEF IInv, TypeOK, Answer
<1>4. inbox' = Append(inbox, m)
  BY <1>1
<1> HIDE DEF m
<1>5. inbox \in Seq(Answer) /\ inbox' \in Seq(Answer)
  BY <1>3, <1>4, Arrived DEF IInv, TypeOK
<1>6. /\ metamask' \in [flask : BOOLEAN, snap : BOOLEAN]
      /\ metamask'.flask = metamask.flask
      /\ ~installed => metamask'.snap = metamask.snap
  BY <1>1 DEF IInv, TypeOK
<1>7. TypeOK'
  BY <1>2, <1>5, <1>6 DEF IInv, TypeOK, Stages
<1>8. Matched(inbox, click)'
  <2>1. ForClick(m) /\ click[m.by] # "answered"
    BY <1>2, <1>3 DEF ForClick
  <2>2. Matched(Append(inbox, m), [click EXCEPT ![m.by] = "answered"])
    BY <1>3, <1>5, <2>1, MatchedAnswer DEF IInv, TypeOK
  <2> QED BY <1>2, <1>3, <1>4, <2>2
<1>9. AskedFlask(inbox)'
  <2>1. AskedFlask(Append(inbox, m))
    BY <1>3, <1>5, OtherKind DEF IInv
  <2> QED BY <1>2, <1>4, <2>1 DEF AskedFlask
<1>10. metamask.flask
  BY <1>2 DEF IInv, Flaskless
<1>11. Informed'
  <2>1. /\ \A k \in DOMAIN inbox : k \in DOMAIN inbox' /\ inbox'[k] = inbox[k]
        /\ \E k \in DOMAIN inbox' : inbox'[k] = m
    BY <1>3, <1>4, <1>5, OtherKind DEF IInv
  <2>2. CASE installed
    BY <1>3, <2>1, <2>2 DEF Informed, Due
  <2>3. CASE ~installed /\ Told(inbox, state.installedSnap, metamask.snap)
    <3>1. Told(inbox', state.installedSnap, metamask.snap)
      BY <1>3, <1>4, <1>5, <2>3, ToldMore
    <3> QED BY <1>2, <1>6, <2>3, <3>1 DEF Informed
  <2>4. CASE excused \/ Due
    <3>1. \A d \in Clicks : click[d] = "looking" => click'[d] = "looking"
      BY <1>2 DEF IInv, TypeOK
    <3> QED BY <1>2, <2>1, <2>4, <3>1 DEF Informed, Due, Detecting
  <2> QED BY <1>1, <2>2, <2>3, <2>4 DEF IInv, Informed, TypeOK
<1>12. ThemeKept' /\ Flaskless'
  BY <1>2, <1>6, <1>10 DEF IInv, ThemeKept, Flaskless
<1> QED BY <1>7, <1>8, <1>9, <1>11, <1>12 DEF IInv

LEMMA isFlaskKeeps == IInv /\ isFlask => IInv'
<1> SUFFICES ASSUME IInv, isFlask PROVE IInv'
  OBVIOUS
<1> USE DEF effectVars, userVars
<1>1. PICK value \in {metamask.flask, FALSE} :
        /\ inbox' = Append(inbox, [kind |-> "version", value |-> value])
        /\ excused' = (excused \/ value # metamask.flask)
  BY DEF isFlask
<1>2. /\ detecting > 0 /\ detecting' = detecting - 1
      /\ UNCHANGED <<metamask, local, state, ran, timer, lookups, click, theme>>
  BY DEF isFlask
<1> DEFINE m == [kind |-> "version", value |-> value]  n == Len(inbox)
<1>3. m \in Answer /\ m.kind = "version" /\ m.value = value
  BY DEF IInv, TypeOK, Answer
<1>4. inbox' = Append(inbox, m) /\ inbox \in Seq(Answer)
  BY <1>1 DEF IInv, TypeOK
<1> HIDE DEF m
<1>5. /\ n \in Nat /\ inbox' \in Seq(Answer) /\ inbox'[n + 1] = m
      /\ DOMAIN inbox = 1..n /\ DOMAIN inbox' = 1..(n + 1)
      /\ \A k \in 1..n : inbox'[k] = inbox[k]
  BY <1>3, <1>4, Arrived
<1> HIDE DEF n
<1>6. /\ \A k \in DOMAIN inbox' : \/ k \in DOMAIN inbox /\ inbox'[k] = inbox[k]
                                  \/ k = n + 1 /\ inbox'[k] = m
      /\ \A k \in DOMAIN inbox : k \in DOMAIN inbox' /\ inbox'[k] = inbox[k]
      /\ n + 1 \in DOMAIN inbox'
  BY <1>5
<1>7. detecting = 1 /\ detecting' = 0
  BY <1>2 DEF IInv, TypeOK
<1>8. \A k \in DOMAIN inbox : inbox[k].kind # "version"
  BY <1>7 DEF IInv, AskedFlask
<1>9. TypeOK'
  BY <1>1, <1>2, <1>5, <1>7 DEF IInv, TypeOK
<1>10. Matched(inbox, click)'
  <2>1. Matched(Append(inbox, m), click)
    BY <1>3, <1>4, MatchedMore DEF IInv, ForClick
  <2> QED BY <1>2, <1>4, <2>1
<1>11. AskedFlask(inbox)'
  <2>1. ran # None /\ ran.isFlask = state.isFlask
    BY <1>7 DEF IInv, AskedFlask
  <2> QED BY <1>2, <1>6, <1>7, <1>8, <2>1 DEF AskedFlask
<1>12. Flaskless'
  <2>1. CASE metamask.flask
    BY <1>2, <2>1 DEF Flaskless
  <2>2. CASE ~metamask.flask
    <3>1. ~m.value
      BY <1>3, <2>2
    <3>2. Told(inbox', state.installedSnap, metamask.snap)
      BY <1>3, <1>4, <2>2, ToldMore DEF IInv, Flaskless
    <3> QED BY <1>2, <1>6, <2>2, <3>1, <3>2 DEF IInv, Flaskless
  <2> QED BY <2>1, <2>2
<1>13. Informed'
  <2>0. Told(inbox, state.installedSnap, metamask.snap) => Informed'
    BY <1>2, <1>3, <1>4, ToldMore DEF Informed
  <2>1. CASE value # metamask.flask
    BY <1>1, <2>1 DEF Informed
  <2>2. CASE value = metamask.flask /\ Told(inbox, state.installedSnap, metamask.snap)
    BY <2>0, <2>2
  <2>3. CASE value = metamask.flask /\ Detecting
    <3>1. ran # None /\ ran.isFlask = state.isFlask
      BY <1>7 DEF IInv, AskedFlask
    <3>2. ~state.isFlask
      BY <2>3, <3>1 DEF Detecting
    <3>3. CASE metamask.flask
      <4>1. \E k \in DOMAIN inbox' : inbox'[k].kind = "version" /\ inbox'[k].value
        BY <1>3, <1>6, <1>5, <2>3, <3>3
      <4> QED BY <1>2, <3>2, <4>1 DEF Informed, Due, Detecting
    <3>4. CASE ~metamask.flask
      BY <2>0, <3>4 DEF IInv, Flaskless, Informed
    <3> QED BY <3>3, <3>4
  <2>4. CASE excused \/ (Due /\ ~Detecting)
    BY <1>1, <1>2, <1>6, <2>4 DEF Informed, Due
  <2> QED BY <2>1, <2>2, <2>3, <2>4 DEF IInv, Informed
<1>14. ThemeKept'
  BY <1>2 DEF IInv, ThemeKept
<1> QED BY <1>9, <1>10, <1>11, <1>12, <1>13, <1>14 DEF IInv

\* The first answer is taken: what the three kinds have in common.
LEMMA ReceiveTakes ==
  ASSUME IInv, Receive
  PROVE  /\ inbox # <<>> /\ inbox \in Seq(Answer) /\ Head(inbox) \in Answer
         /\ inbox' = Tail(inbox) /\ inbox' \in Seq(Answer)
         /\ UNCHANGED <<metamask, local, ran, timer, detecting, lookups, theme, excused>>
         /\ 1 \in DOMAIN inbox /\ inbox[1] = Head(inbox)
         /\ \A k \in DOMAIN inbox' : k + 1 \in DOMAIN inbox /\ inbox'[k] = inbox[k + 1]
         /\ \A k \in DOMAIN inbox : k = 1 \/ (k - 1 \in DOMAIN inbox' /\ inbox'[k - 1] = inbox[k])
         /\ Head(inbox).kind = "version" => VersionAnswered(Head(inbox))
         /\ Head(inbox).kind = "connect" => ConnectAnswered(Head(inbox))
         /\ Head(inbox).kind = "snaps" => SnapsAnswered(Head(inbox))
         /\ Head(inbox).kind \in {"version", "connect", "snaps"}
<1> DEFINE n == Len(Tail(inbox))
<1>1. /\ inbox # <<>> /\ inbox' = Tail(inbox) /\ inbox \in Seq(Answer)
      /\ UNCHANGED <<metamask, local, ran, timer, detecting, lookups, theme, excused>>
  BY DEF Receive, IInv, TypeOK, effectVars, userVars
<1>2. /\ n \in Nat /\ inbox' \in Seq(Answer)
      /\ DOMAIN inbox' = 1..n /\ DOMAIN inbox = 1..(n + 1)
      /\ Head(inbox) = inbox[1] /\ Head(inbox) \in Answer
      /\ \A k \in 1..n : inbox'[k] = inbox[k + 1]
  BY <1>1, Taken
<1> HIDE DEF n
<1>3. /\ Head(inbox).kind = "version" => VersionAnswered(Head(inbox))
      /\ Head(inbox).kind = "connect" => ConnectAnswered(Head(inbox))
      /\ Head(inbox).kind = "snaps" => SnapsAnswered(Head(inbox))
  BY DEF Receive
<1>4. Head(inbox).kind \in {"version", "connect", "snaps"}
  BY <1>2 DEF Answer
<1>5. \A k \in DOMAIN inbox' : k + 1 \in DOMAIN inbox /\ inbox'[k] = inbox[k + 1]
  BY <1>2
<1>6. \A k \in DOMAIN inbox : k = 1 \/ (k - 1 \in DOMAIN inbox' /\ inbox'[k - 1] = inbox[k])
  BY <1>2
<1>7. 1 \in DOMAIN inbox
  BY <1>2
<1> QED BY <1>1, <1>2, <1>3, <1>4, <1>5, <1>6, <1>7

LEMMA VersionKeeps ==
  ASSUME IInv, Receive, Head(inbox).kind = "version"
  PROVE  IInv'
<1> DEFINE m == Head(inbox)
<1>1. /\ inbox \in Seq(Answer) /\ m \in Answer /\ inbox' \in Seq(Answer)
      /\ UNCHANGED <<metamask, local, ran, timer, detecting, lookups, theme, excused>>
      /\ 1 \in DOMAIN inbox /\ inbox[1] = m
      /\ \A k \in DOMAIN inbox' : k + 1 \in DOMAIN inbox /\ inbox'[k] = inbox[k + 1]
      /\ \A k \in DOMAIN inbox : k = 1 \/ (k - 1 \in DOMAIN inbox' /\ inbox'[k - 1] = inbox[k])
      /\ VersionAnswered(m)
  BY ReceiveTakes
<1>2. m.value \in BOOLEAN /\ ~ForClick(m)
  BY <1>1 DEF Answer, ForClick
<1>3. /\ state' \in MetamaskState /\ state'.isFlask = m.value
      /\ state'.installedSnap = state.installedSnap /\ click' = click
  BY <1>1, <1>2 DEF VersionAnswered, Reduced, IInv, TypeOK, MetamaskState
<1>4. Matched(inbox, click)'
  <2>1. Matched(Tail(inbox), click)
    BY <1>1, <1>2, MatchedNext, ReceiveTakes DEF IInv
  <2> QED BY <1>3, <2>1, ReceiveTakes
<1>5. inbox # <<>> /\ inbox' = Tail(inbox)
  BY ReceiveTakes
<1> HIDE DEF m
<1>6. m.kind = "version"
  BY DEF m
<1>7. TypeOK'
  BY <1>1, <1>3 DEF IInv, TypeOK
<1>8. detecting = 0 /\ \A k \in DOMAIN inbox' : inbox'[k].kind # "version"
  <2>1. detecting = 0
    BY <1>1, <1>6 DEF IInv, AskedFlask
  <2>2. ASSUME NEW k \in DOMAIN inbox', inbox'[k].kind = "version" PROVE FALSE
    <3>1. k + 1 \in DOMAIN inbox /\ inbox[k + 1].kind = "version"
      BY <1>1, <2>2
    <3>2. k + 1 = 1
      BY <1>1, <1>6, <3>1 DEF IInv, AskedFlask
    <3> QED BY <1>1, <1>5, <2>2, <3>2, Taken
  <2> QED BY <2>1, <2>2
<1>9. ran # None /\ ran.isFlask = state.isFlask
  BY <1>1, <1>6 DEF IInv, AskedFlask
<1>10. AskedFlask(inbox)'
  BY <1>1, <1>8 DEF AskedFlask
<1>11. Flaskless'
  <2>1. CASE metamask.flask
    BY <1>1, <2>1 DEF Flaskless
  <2>2. CASE ~metamask.flask
    <3>1. Told(inbox', state.installedSnap, metamask.snap)
      BY <1>1, <1>5, <1>6, <2>2, ToldNext DEF IInv, Flaskless, m
    <3> QED BY <1>1, <1>3, <2>2, <3>1 DEF IInv, Flaskless
  <2> QED BY <2>1, <2>2
<1>12. Informed'
  <2>1. CASE Told(inbox, state.installedSnap, metamask.snap)
    <3>1. Told(Tail(inbox), state.installedSnap, metamask.snap)
      BY <1>1, <1>5, <1>6, <2>1, ToldNext DEF m
    <3> QED BY <1>1, <1>3, <1>5, <3>1 DEF Informed
  <2>2. CASE Detecting
    <3>1. ~state.isFlask
      BY <1>9, <2>2 DEF Detecting
    <3>2. m.value
      BY <1>1, <1>6, <1>8, <1>9, <2>2 DEF Detecting, IInv, AskedFlask
    <3> QED BY <1>1, <1>3, <1>9, <3>1, <3>2 DEF Informed, Due, Detecting
  <2>3. CASE excused \/ (Due /\ ~Detecting)
    <3>1. \A k \in DOMAIN inbox : inbox[k].kind = "connect" =>
            \E j \in DOMAIN inbox' : inbox'[j] = inbox[k]
      BY <1>1, <1>6
    <3> QED BY <1>1, <1>3, <2>3, <3>1 DEF Informed, Due
  <2> QED BY <2>1, <2>2, <2>3 DEF IInv, Informed
<1>13. ThemeKept'
  BY <1>1 DEF IInv, ThemeKept
<1> QED BY <1>4, <1>7, <1>10, <1>11, <1>12, <1>13 DEF IInv

\* What the other two kinds leave as it is.
LEMMA OtherKindTaken ==
  ASSUME IInv, Receive, Head(inbox).kind # "version",
         state'.isFlask = state.isFlask
  PROVE  AskedFlask(inbox)' /\ ThemeKept' /\ (Detecting => Detecting')
<1>1. /\ UNCHANGED <<metamask, ran, detecting, theme>>
      /\ inbox[1] = Head(inbox)
      /\ \A k \in DOMAIN inbox' : k + 1 \in DOMAIN inbox /\ inbox'[k] = inbox[k + 1]
      /\ \A k \in DOMAIN inbox : k = 1 \/ (k - 1 \in DOMAIN inbox' /\ inbox'[k - 1] = inbox[k])
  BY ReceiveTakes
<1>2. DOMAIN inbox' \subseteq Nat
  BY ReceiveTakes
<1>3. \A j, k \in DOMAIN inbox' :
        inbox'[j].kind = "version" /\ inbox'[k].kind = "version" => j = k
  <2> SUFFICES ASSUME NEW j \in DOMAIN inbox', NEW k \in DOMAIN inbox',
                      inbox'[j].kind = "version", inbox'[k].kind = "version"
               PROVE  j = k
    OBVIOUS
  <2>1. j + 1 = k + 1
    BY <1>1 DEF IInv, AskedFlask
  <2> QED BY <1>2, <2>1
<1>4. AskedFlask(inbox)'
  BY <1>1, <1>3 DEF IInv, AskedFlask
<1>5. Detecting => Detecting'
  BY <1>1 DEF Detecting
<1>6. ThemeKept'
  BY <1>1 DEF IInv, ThemeKept
<1> QED BY <1>4, <1>5, <1>6

LEMMA ConnectKeeps ==
  ASSUME IInv, Receive, Head(inbox).kind = "connect"
  PROVE  IInv'
<1> DEFINE m == Head(inbox)  c == m.by
           stage == IF m.value THEN "looking" ELSE "done"
<1>1. /\ inbox \in Seq(Answer) /\ m \in Answer /\ inbox' \in Seq(Answer)
      /\ inbox # <<>> /\ inbox' = Tail(inbox)
      /\ UNCHANGED <<metamask, local, ran, timer, detecting, lookups, theme, excused>>
      /\ 1 \in DOMAIN inbox /\ inbox[1] = m
      /\ \A k \in DOMAIN inbox' : k + 1 \in DOMAIN inbox /\ inbox'[k] = inbox[k + 1]
      /\ \A k \in DOMAIN inbox : k = 1 \/ (k - 1 \in DOMAIN inbox' /\ inbox'[k - 1] = inbox[k])
      /\ ConnectAnswered(m)
  BY ReceiveTakes
<1>2. m.value \in BOOLEAN /\ c \in Clicks /\ ForClick(m)
  BY <1>1 DEF Answer, ForClick
<1>3. /\ state' \in MetamaskState /\ state'.isFlask = state.isFlask
      /\ state'.installedSnap = state.installedSnap
      /\ click' = [click EXCEPT ![c] = stage]
  BY <1>1, <1>2 DEF ConnectAnswered, Reduced, IInv, TypeOK, MetamaskState
<1>4. click \in [Clicks -> Stages] /\ click' \in [Clicks -> Stages] /\ click[c] = "answered"
  BY <1>1, <1>2, <1>3 DEF IInv, TypeOK, Stages, Matched
<1>5. Matched(inbox, click)'
  <2>1. \A d \in Clicks : click'[d] = click[d] \/ (ForClick(m) /\ d = m.by)
    BY <1>2, <1>3, <1>4
  <2>2. Matched(Tail(inbox), click')
    BY <1>1, <2>1, MatchedNext DEF IInv
  <2> QED BY <1>1, <2>2
<1>6. m.kind = "connect"
  OBVIOUS
<1>7. AskedFlask(inbox)' /\ ThemeKept' /\ (Detecting => Detecting')
  BY <1>3, OtherKindTaken
<1> HIDE DEF m
<1>8. TypeOK'
  BY <1>1, <1>3, <1>4 DEF IInv, TypeOK
<1>9. Flaskless'
  <2>1. metamask.flask
    BY <1>2, <1>4 DEF IInv, Flaskless
  <2> QED BY <1>1, <2>1 DEF Flaskless
<1>10. Informed'
  <2>1. CASE m.value
    <3>1. click'[c] = "looking"
      BY <1>2, <1>3, <1>4, <2>1
    <3> QED BY <1>2, <3>1 DEF Informed, Due
  <2>2. CASE Told(inbox, state.installedSnap, metamask.snap)
    <3>1. Told(Tail(inbox), state.installedSnap, metamask.snap)
      BY <1>1, <1>6, <2>2, ToldNext DEF m
    <3> QED BY <1>1, <1>3, <3>1 DEF Informed
  <2>3. CASE excused \/ (Due /\ ~m.value)
    <3>1. \A k \in DOMAIN inbox : inbox[k].kind = "connect" /\ inbox[k].value /\ ~m.value =>
            \E j \in DOMAIN inbox' : inbox'[j] = inbox[k]
      BY <1>1
    <3>2. \A d \in Clicks : click[d] = "looking" => click'[d] = "looking"
      BY <1>3, <1>4
    <3> QED BY <1>1, <1>7, <2>3, <3>1, <3>2 DEF Informed, Due
  <2> QED BY <2>1, <2>2, <2>3 DEF IInv, Informed
<1> QED BY <1>5, <1>7, <1>8, <1>9, <1>10 DEF IInv

LEMMA SnapsKeeps ==
  ASSUME IInv, Receive, Head(inbox).kind = "snaps"
  PROVE  IInv'
<1> DEFINE m == Head(inbox)
<1>1. /\ inbox \in Seq(Answer) /\ m \in Answer /\ inbox' \in Seq(Answer)
      /\ inbox # <<>> /\ inbox' = Tail(inbox)
      /\ UNCHANGED <<metamask, local, ran, timer, detecting, lookups, theme, excused>>
      /\ 1 \in DOMAIN inbox /\ inbox[1] = m
      /\ \A k \in DOMAIN inbox' : k + 1 \in DOMAIN inbox /\ inbox'[k] = inbox[k + 1]
      /\ \A k \in DOMAIN inbox : k = 1 \/ (k - 1 \in DOMAIN inbox' /\ inbox'[k - 1] = inbox[k])
      /\ SnapsAnswered(m)
  BY ReceiveTakes
<1>2. m.value \in BOOLEAN /\ m.by \in Clicks \cup {None} /\ m.kind = "snaps"
  BY <1>1 DEF Answer
<1>3. /\ state' \in MetamaskState /\ state'.isFlask = state.isFlask
      /\ state'.installedSnap = m.value
      /\ click' = [c \in Clicks |-> IF c = m.by THEN "done" ELSE click[c]]
  BY <1>1, <1>2 DEF SnapsAnswered, Reduced, IInv, TypeOK, MetamaskState
<1>4. /\ click \in [Clicks -> Stages] /\ click' \in [Clicks -> Stages]
      /\ \A d \in Clicks : click'[d] = click[d] \/ (ForClick(m) /\ d = m.by)
      /\ \A d \in Clicks : d = m.by => click[d] = "answered"
  BY <1>1, <1>2, <1>3 DEF IInv, TypeOK, Stages, Matched, ForClick
<1>5. Matched(inbox, click)'
  <2>1. Matched(Tail(inbox), click')
    BY <1>1, <1>4, MatchedNext DEF IInv
  <2> QED BY <1>1, <2>1
<1>6. AskedFlask(inbox)' /\ ThemeKept' /\ (Detecting => Detecting')
  BY <1>2, <1>3, OtherKindTaken
<1>7. Told(inbox, state.installedSnap, metamask.snap) =>
        Told(Tail(inbox), m.value, metamask.snap)
  BY <1>1, <1>2, ToldNext
<1> HIDE DEF m
<1>8. TypeOK'
  BY <1>1, <1>3, <1>4 DEF IInv, TypeOK
<1>9. Flaskless'
  <2>1. CASE metamask.flask
    BY <1>1, <2>1 DEF Flaskless
  <2>2. CASE ~metamask.flask
    <3>1. ~m.value /\ \A d \in Clicks : click[d] = "idle"
      BY <1>1, <2>2 DEF IInv, Flaskless
    <3>2. \A d \in Clicks : d # m.by
      BY <1>4, <3>1
    <3>3. Told(Tail(inbox), m.value, metamask.snap)
      BY <1>7, <2>2 DEF IInv, Flaskless
    <3> QED BY <1>1, <1>3, <2>2, <3>1, <3>2, <3>3 DEF IInv, Flaskless
  <2> QED BY <2>1, <2>2
<1>10. Informed'
  <2>1. CASE Told(inbox, state.installedSnap, metamask.snap)
    BY <1>1, <1>3, <1>7, <2>1 DEF Informed
  <2>2. CASE excused \/ Due
    <3>1. \A k \in DOMAIN inbox : inbox[k].kind = "connect" =>
            \E j \in DOMAIN inbox' : inbox'[j] = inbox[k]
      BY <1>1, <1>2
    <3>2. \A d \in Clicks : click[d] = "looking" => click'[d] = "looking"
      BY <1>3, <1>4
    <3> QED BY <1>1, <1>6, <2>2, <3>1, <3>2 DEF Informed, Due
  <2> QED BY <2>1, <2>2 DEF IInv, Informed
<1> QED BY <1>5, <1>6, <1>8, <1>9, <1>10 DEF IInv

-----------------------------------------------------------------------------
(* The theorems.                                                           *)

LEMMA Inductive == IInv /\ [Next]_vars => IInv'
<1> SUFFICES ASSUME IInv, [Next]_vars PROVE IInv'
  OBVIOUS
<1>1. CASE RunEffects
  BY <1>1, RunEffectsKeeps
<1>2. CASE TimerFires
  BY <1>2, TimerFiresKeeps
<1>3. CASE Receive
  BY <1>3, ReceiveTakes, VersionKeeps, ConnectKeeps, SnapsKeeps
<1>4. CASE Toggle
  BY <1>4, ToggleKeeps
<1>5. CASE isFlask
  BY <1>5, isFlaskKeeps
<1>6. CASE EffectLookup
  BY <1>6, EffectLookupKeeps
<1>7. CASE Remove
  BY <1>7, RemoveKeeps
<1>8. ASSUME NEW c \in Clicks, PageClick(c) \/ HeaderClick(c) PROVE IInv'
  BY <1>8, ConnectsKeeps
<1>9. ASSUME NEW c \in Clicks, connectSnap(c) PROVE IInv'
  BY <1>9, connectSnapKeeps
<1>10. ASSUME NEW c \in Clicks, ClickLookup(c) PROVE IInv'
  BY <1>10, ClickLookupKeeps
<1>11. CASE UNCHANGED vars
  BY <1>11 DEF vars, IInv, TypeOK, ThemeKept, AskedFlask, Matched, Flaskless,
               Informed, Due, Detecting
<1> QED BY <1>1, <1>2, <1>3, <1>4, <1>5, <1>6, <1>7, <1>8, <1>9, <1>10, <1>11 DEF Next

LEMMA Invariant == Spec => []IInv
<1> QED BY InitOK, Inductive, PTL DEF Spec

\* The site's state keeps its shape, it asks for snaps only where there is Flask, and
\* the switch shows the theme in force and in store (FlaskOnly, ThemeKept).
THEOREM SiteCorrect == Spec => []SiteOK
<1>1. IInv => SiteOK
  <2> SUFFICES ASSUME IInv PROVE FlaskOnly
    BY DEF IInv, SiteOK
  <2> QED BY DEF IInv, Flaskless, FlaskOnly, TypeOK
<1> QED BY <1>1, Invariant, PTL

\* Once all is answered the site shows "Installed!" exactly if MetaMask has the snap,
\* for any number of clicks and look-ups in any order (handleConnectClick, getSnap).
THEOREM InstalledShown == Spec => []ShowsInstalled
<1>1. IInv => ShowsInstalled
  <2> SUFFICES ASSUME IInv, Quiet, ~excused
               PROVE  state.installedSnap = metamask.snap
    BY DEF ShowsInstalled
  <2>1. /\ ran # None /\ ran.isFlask = state.isFlask
        /\ DOMAIN inbox = {} /\ detecting = 0 /\ lookups = 0
        /\ \A c \in Clicks : click[c] # "looking"
    BY DepsAreNotNone DEF IInv, Quiet, Deps
  <2>2. ~Due
    BY <2>1 DEF Due, Detecting, IInv, TypeOK, MetamaskState
  <2> QED BY <2>1, <2>2 DEF IInv, Informed, Told
<1> QED BY <1>1, Invariant, PTL
=============================================================================

------------------------------ MODULE SnapSite ------------------------------
(***************************************************************************)
(* The web site from which a user installs the snap of CoinChoice: the     *)
(* MetaMask context with its effects, the two buttons that connect, and    *)
(* the switch of the theme.                                                *)
(*                                                                         *)
(* The site asks MetaMask what it is and which snaps it has; MetaMask's    *)
(* answers say what is so when it gives them, and arrive in that order.    *)
(* Effects run some time after the dispatch that calls for them.           *)
(***************************************************************************)
EXTENDS Naturals, Sequences

CONSTANTS Clicks,     \* clicks on Connect or Reconnect, each made at most once
          None,       \* no error, no click
          MaxLookups  \* how many questions of the effect are open at a time

VARIABLES
  metamask,   \* whether it is Flask, and whether the snap is installed in it
  local,      \* whether the snap is one that runs locally
  state,      \* MetamaskState
  ran,        \* isFlask and error when the effects ran last, None before
  timer,      \* the error that a timer will clear
  detecting,  \* the open questions of detectFlask
  lookups,    \* the open questions of detectSnapInstalled
  click,      \* how far handleConnectClick is for a click
  inbox,      \* answers of MetaMask on their way to the page
  theme,      \* dark in force, the switch checked, and what is stored
  excused     \* history: MetaMask's last answer was a failure, or out of date

vars == <<metamask, local, state, ran, timer, detecting, lookups, click, inbox, theme, excused>>

effectVars == <<ran, timer>>
askVars == <<detecting, lookups, click>>
userVars == <<local, theme>>

ASSUME SiteAssumption ==
  /\ MaxLookups \in Nat
  /\ None \notin Clicks /\ None \notin [isFlask : BOOLEAN, error : Clicks \cup {None}]

\* The error of a click is an object of its own, named after the click.
MetamaskState == [isFlask : BOOLEAN, installedSnap : BOOLEAN, error : Clicks \cup {None}]
Stages == {"idle", "connecting", "looking", "answered", "done"}

Answer == [kind : {"version"}, value : BOOLEAN]
     \cup [kind : {"connect"}, by : Clicks, value : BOOLEAN]
     \cup [kind : {"snaps"}, by : Clicks \cup {None}, value : BOOLEAN]

\* getThemePreference: the stored theme, or the system's, which it stores.  This page is
\* the only one that does, and on its first visit the storage has room.
Preference(dark) == [dark |-> dark, checked |-> dark, stored |-> dark]

Init ==
  /\ metamask \in [flask : BOOLEAN, snap : BOOLEAN] /\ (metamask.snap => metamask.flask)
  /\ local \in BOOLEAN
  /\ state = [isFlask |-> FALSE, installedSnap |-> FALSE, error |-> None]
  /\ ran = None /\ timer = None
  /\ detecting = 0 /\ lookups = 0
  /\ click = [c \in Clicks |-> "idle"]
  /\ inbox = <<>>
  /\ \E dark \in BOOLEAN : theme = Preference(dark)
  /\ excused = FALSE

-----------------------------------------------------------------------------
(* The context and its effects.                                            *)

Reduced(field, payload) == state' = [state EXCEPT ![field] = payload]

Deps == [isFlask |-> state.isFlask, error |-> state.error]

\* The effect of [state.isFlask, window.ethereum]: what is MetaMask, and, in Flask, is there
\* a snap?  MetaMask has put its window.ethereum in place before the page renders, and it
\* stays the same.
FlaskEffect ==
  IF ran = None \/ ran.isFlask # state.isFlask
  THEN /\ state.isFlask => lookups < MaxLookups
       /\ detecting' = detecting + 1
       /\ lookups' = IF state.isFlask THEN lookups + 1 ELSE lookups
  ELSE UNCHANGED <<detecting, lookups>>

\* Mutation: the effect has no dependencies, and runs once.
ErrorEffect_Once == timer' = IF ran = None THEN state.error ELSE timer

\* The effect of [state.error]: the timer of an error replaces that of the last.
ErrorEffect ==
  timer' = IF ran = None \/ ran.error # state.error THEN state.error ELSE timer

RunEffects ==
  /\ ran # Deps
  /\ ran' = Deps
  /\ FlaskEffect
  /\ ErrorEffect
  /\ UNCHANGED <<metamask, state, click, inbox, excused, userVars>>

\* Ten seconds after the error.
TimerFires ==
  /\ timer # None
  /\ timer' = None
  /\ Reduced("error", None)
  /\ UNCHANGED <<metamask, ran, askVars, inbox, excused, userVars>>

-----------------------------------------------------------------------------
(* The buttons, and the answers to what they ask.                          *)

shouldDisplayReconnectButton == state.installedSnap /\ local

\* The cards of the page: Connect is disabled without Flask.
PageOffers == \/ ~state.installedSnap /\ state.isFlask
              \/ shouldDisplayReconnectButton

\* Mutation: whether there is a snap is looked at first.
HeaderOffers_InstalledFirst == ~state.installedSnap \/ local

\* The header: without Flask or a snap it has no button that connects.
HeaderOffers == IF ~state.isFlask /\ ~state.installedSnap THEN FALSE
                ELSE ~state.installedSnap \/ shouldDisplayReconnectButton

Connects(c) ==
  /\ click[c] = "idle"
  /\ click' = [click EXCEPT ![c] = "connecting"]
  /\ UNCHANGED <<metamask, state, effectVars, detecting, lookups, inbox, excused, userVars>>

PageClick(c) == PageOffers /\ Connects(c)
HeaderClick(c) == HeaderOffers /\ Connects(c)

\* Mutation: what was connected is not looked up.
ConnectAnswered_Blind(m) ==
  IF m.value
  THEN click' = [click EXCEPT ![m.by] = "done"] /\ UNCHANGED state
  ELSE click' = [click EXCEPT ![m.by] = "done"] /\ Reduced("error", m.by)

\* connectSnap returns, and the snap is looked up, or it throws.
ConnectAnswered(m) ==
  IF m.value
  THEN click' = [click EXCEPT ![m.by] = "looking"] /\ UNCHANGED state
  ELSE click' = [click EXCEPT ![m.by] = "done"] /\ Reduced("error", m.by)

\* getSnap returns to a click or to the effect.
SnapsAnswered(m) ==
  /\ Reduced("installedSnap", m.value)
  /\ click' = [c \in Clicks |-> IF c = m.by THEN "done" ELSE click[c]]

VersionAnswered(m) == Reduced("isFlask", m.value) /\ UNCHANGED click

Receive ==
  /\ inbox # <<>>
  /\ LET m == Head(inbox) IN
       CASE m.kind = "version" -> VersionAnswered(m)
         [] m.kind = "connect" -> ConnectAnswered(m)
         [] m.kind = "snaps" -> SnapsAnswered(m)
  /\ inbox' = Tail(inbox)
  /\ UNCHANGED <<metamask, effectVars, detecting, lookups, excused, userVars>>

\* Mutation: the switch moves before the theme is stored.
ToggleTheme_SwitchFirst(stores) ==
  theme' = IF stores THEN Preference(~theme.dark) ELSE [theme EXCEPT !.checked = ~@]

\* The theme is stored first: if that throws, neither theme nor switch changes.
ToggleTheme(stores) == theme' = IF stores THEN Preference(~theme.dark) ELSE theme

\* It stores, or throws, because there is no storage or no room in it.
setLocalStorage == BOOLEAN

Toggle ==
  /\ \E stores \in setLocalStorage : ToggleTheme(stores)
  /\ UNCHANGED <<metamask, local, state, effectVars, askVars, inbox, excused>>

-----------------------------------------------------------------------------
(* MetaMask, and the user in front of it.                                  *)

\* isFlask makes false of a failure.
isFlask ==
  /\ detecting > 0
  /\ detecting' = detecting - 1
  /\ \E value \in {metamask.flask, FALSE} :
       /\ inbox' = Append(inbox, [kind |-> "version", value |-> value])
       /\ excused' = (excused \/ value # metamask.flask)
  /\ UNCHANGED <<metamask, state, effectVars, lookups, click, userVars>>

\* getSnap makes no snap of a failure.
getSnap(by) ==
  \E value \in {metamask.snap, FALSE} :
    /\ inbox' = Append(inbox, [kind |-> "snaps", by |-> by, value |-> value])
    /\ excused' = (value # metamask.snap)

EffectLookup ==
  /\ lookups > 0
  /\ lookups' = lookups - 1
  /\ getSnap(None)
  /\ UNCHANGED <<metamask, state, effectVars, detecting, click, userVars>>

ClickLookup(c) ==
  /\ click[c] = "looking"
  /\ click' = [click EXCEPT ![c] = "answered"]
  /\ getSnap(c)
  /\ UNCHANGED <<metamask, state, effectVars, detecting, lookups, userVars>>

\* wallet_requestSnaps: the user lets MetaMask install the snap, or does not, or
\* it cannot be installed.
connectSnap(c) ==
  /\ click[c] = "connecting"
  /\ click' = [click EXCEPT ![c] = "answered"]
  /\ \E installed \in {metamask.flask, FALSE} :
       /\ metamask' = [metamask EXCEPT !.snap = @ \/ installed]
       /\ inbox' = Append(inbox, [kind |-> "connect", by |-> c, value |-> installed])
  /\ UNCHANGED <<state, effectVars, detecting, lookups, excused, userVars>>

\* The user removes the snap in MetaMask, which tells no page.
Remove ==
  /\ metamask.snap
  /\ metamask' = [metamask EXCEPT !.snap = FALSE]
  /\ excused' = TRUE
  /\ UNCHANGED <<state, effectVars, askVars, inbox, userVars>>

-----------------------------------------------------------------------------
Next ==
  \/ RunEffects \/ TimerFires \/ Receive \/ Toggle
  \/ isFlask \/ EffectLookup \/ Remove
  \/ \E c \in Clicks : PageClick(c) \/ HeaderClick(c) \/ connectSnap(c) \/ ClickLookup(c)

Spec == Init /\ [][Next]_vars

\* React runs its effects, timers fire, and MetaMask answers a look-up; nobody
\* promises that a user answers its prompt.
FairSpec ==
  /\ Spec
  /\ WF_vars(RunEffects) /\ WF_vars(TimerFires) /\ WF_vars(EffectLookup) /\ WF_vars(isFlask)

-----------------------------------------------------------------------------
(* Properties.                                                             *)

TypeOK ==
  /\ metamask \in [flask : BOOLEAN, snap : BOOLEAN]
  /\ local \in BOOLEAN
  /\ state \in MetamaskState
  /\ ran \in [isFlask : BOOLEAN, error : Clicks \cup {None}] \cup {None}
  /\ timer \in Clicks \cup {None}
  /\ detecting \in {0, 1} /\ lookups \in 0..MaxLookups
  /\ click \in [Clicks -> Stages]
  /\ inbox \in Seq(Answer)
  /\ theme \in [dark : BOOLEAN, checked : BOOLEAN, stored : BOOLEAN]
  /\ excused \in BOOLEAN

\* Nothing is asked of a MetaMask that knows no snaps, from neither button and at
\* no time, though isFlask goes back to false when a later question fails and the
\* header's button is never disabled (HeaderButtons, the cards of Index).
FlaskOnly ==
  (\E c \in Clicks : click[c] # "idle") \/ lookups > 0 \/ state.installedSnap => metamask.flask

\* The switch shows the theme in force, and the next visit will have it, also when
\* storing it throws (toggleTheme of Root.tsx, handleChange of Toggle.tsx).
ThemeKept == theme.checked = theme.dark /\ theme.stored = theme.dark

SiteOK == TypeOK /\ FlaskOnly /\ ThemeKept

\* Nothing is asked, on its way, or left to an effect.
Quiet ==
  /\ ran = Deps /\ inbox = <<>> /\ detecting = 0 /\ lookups = 0
  /\ \A c \in Clicks : click[c] \in {"idle", "done"}

\* Once all is answered, the site shows "Installed!" exactly if MetaMask has the
\* snap, in whatever order clicks, the effect's look-ups and prompts are answered;
\* the only excuses are a question that failed, which getSnap and isFlask hide, and
\* a snap removed since (handleConnectClick, detectSnapInstalled).
ShowsInstalled == Quiet /\ ~excused => state.installedSnap = metamask.snap

\* No error message stays: its timer clears it, even if another error came in
\* between and replaced the timer (the effect of [state.error]).
ErrorsEnd == \A c \in Clicks : state.error = c ~> state.error # c
=============================================================================

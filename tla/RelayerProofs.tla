---------------------------- MODULE RelayerProofs ----------------------------
(***************************************************************************)
(* For any users, operators, amounts and number of permits: what the       *)
(* relayer holds between transactions, what a swap pays out, what permits  *)
(* cover, and that nothing is drawn while foreign code has control.        *)
(*                                                                         *)
(* A call of the market runs for many steps, so the invariant speaks of    *)
(* the middle of a call: the guard is set exactly then, the WETH is what   *)
(* was there plus what the market paid, and only a relaySwapToETH holds    *)
(* tokens that did not come in plainly.  It also speaks of the saved       *)
(* storage, which a revert brings back.                                    *)
(***************************************************************************)
EXTENDS Relayer, TLAPS

Guarded ==
  /\ storage.guard <=> frame # None
  /\ frame # None => ~frame.saved.guard

\* What a permit that is not used yet will let the relayer draw.
Pending(s, u, sg) ==
  IF sg[u].nonces > s.nonce[u] /\ "relayer" \in sg[u].spenders THEN PermitValue ELSE 0

\* A draw uses a nonce, one permit at most is not used yet, and what was drawn, can be
\* drawn and can be allowed by that permit is covered by what was signed.
Counted(s, sg) ==
  \A u \in Users :
    /\ s.pulls[u] <= s.nonce[u]
    /\ s.nonce[u] <= sg[u].nonces /\ sg[u].nonces <= s.nonce[u] + 1
    /\ s.drawn[u] + s.allowance[u] + Pending(s, u, sg) <= sg[u].granted

\* What Counted speaks of.
Ledger(s) == <<s.nonce, s.allowance, s.pulls, s.drawn>>

Plain(s) ==
  /\ s.held["token"] <= s.plain["token"]
  /\ s.held["WETH"] <= s.plain["WETH"]
  /\ s.held["ETH"] <= s.plain["ETH"] + s.stray
  /\ contract = "Relayer" => s.stray = 0

\* In the middle of a call.
Underway ==
  /\ Plain(frame.saved)
  /\ storage.held["WETH"] = frame.before + frame.paid
  /\ frame.before <= storage.plain["WETH"]
  /\ storage.held["ETH"] <= storage.plain["ETH"] + storage.stray + frame.ether
  /\ frame.ether <= storage.held["ETH"]
  /\ contract = "Relayer" => storage.stray = 0
  /\ frame.op # "relaySwapToETH" => storage.held["token"] <= storage.plain["token"]
  /\ frame.op \in Swaps => frame.user \in Users

IInv ==
  /\ TypeOK
  /\ Guarded
  /\ Counted(storage, signed) /\ (frame # None => Counted(frame.saved, signed))
  /\ NothingLeftBehind
  /\ frame # None => Underway
  /\ Recompensed

-----------------------------------------------------------------------------
(* The storage.                                                            *)

LEMMA Fields ==
  ASSUME NEW s \in Storage
  PROVE  /\ s.held \in [Assets -> Nat] /\ s.purse \in [Users -> Nat]
         /\ s.allowance \in [Users -> Nat] /\ s.nonce \in [Users -> Nat]
         /\ s.approved \in BOOLEAN /\ s.guard \in BOOLEAN
         /\ s.plain \in [Assets -> Nat] /\ s.stray \in Nat
         /\ s.pulls \in [Users -> Nat] /\ s.drawn \in [Users -> Nat]
BY DEF Storage

LEMMA Amount ==
  ASSUME NEW s \in Storage
  PROVE  /\ s.held["token"] \in Nat /\ s.held["WETH"] \in Nat /\ s.held["ETH"] \in Nat
         /\ s.plain["token"] \in Nat /\ s.plain["WETH"] \in Nat /\ s.plain["ETH"] \in Nat
BY DEF Storage, Assets

LEMMA Held ==
  ASSUME NEW s \in Storage, NEW a \in Assets, NEW n \in Nat
  PROVE  [s EXCEPT !.held[a] = n] \in Storage
<1>1. [s.held EXCEPT ![a] = n] \in [Assets -> Nat]
  BY Fields
<1>2. QED
  BY <1>1 DEF Storage

LEMMA HeldPlain ==
  ASSUME NEW s \in Storage, NEW a \in Assets, NEW n \in Nat, NEW m \in Nat
  PROVE  [s EXCEPT !.held[a] = n, !.plain[a] = m] \in Storage
<1>1. [s.held EXCEPT ![a] = n] \in [Assets -> Nat]
  BY Fields
<1>2. [s.plain EXCEPT ![a] = m] \in [Assets -> Nat]
  BY Fields
<1>3. QED
  BY <1>1, <1>2 DEF Storage

LEMMA SameLedger ==
  ASSUME NEW s, NEW t, NEW sg, Counted(s, sg), Ledger(t) = Ledger(s)
  PROVE  Counted(t, sg)
<1>1. t.nonce = s.nonce /\ t.allowance = s.allowance /\ t.pulls = s.pulls /\ t.drawn = s.drawn
  BY DEF Ledger
<1>2. QED
  BY <1>1 DEF Counted, Pending

-----------------------------------------------------------------------------
(* Permits and draws.                                                      *)

\* The token takes a permit: what was pending can be drawn.
LEMMA PermitTaken ==
  ASSUME NEW s \in Storage, signed \in [Users -> Signed], NEW p \in Permits,
         Counted(s, signed), p.spender \in Unused(s, p.owner)
  PROVE  /\ Permit(s, p) \in Storage
         /\ Permit(s, p).held = s.held /\ Permit(s, p).plain = s.plain
         /\ Permit(s, p).stray = s.stray /\ Permit(s, p).guard = s.guard
         /\ Permit(s, p).purse = s.purse /\ Permit(s, p).pulls = s.pulls
         /\ Permit(s, p).drawn = s.drawn
         /\ Permit(s, p).nonce[p.owner] = s.nonce[p.owner] + 1
         /\ Counted(Permit(s, p), signed)
<1> DEFINE o == p.owner
           t == Permit(s, p)
           allowed == IF p.spender = "relayer" THEN PermitValue ELSE s.allowance[o]
<1>1. o \in Users /\ p.spender \in Spenders /\ PermitValue \in Nat
  BY RelayerAssumption DEF Permits
<1>2. /\ s.nonce \in [Users -> Nat] /\ s.allowance \in [Users -> Nat]
      /\ s.pulls \in [Users -> Nat] /\ s.drawn \in [Users -> Nat]
  BY Fields
<1>3. allowed \in Nat
  BY <1>1, <1>2
<1>4. t = [s EXCEPT !.nonce = [s.nonce EXCEPT ![o] = @ + 1],
                    !.allowance = [s.allowance EXCEPT ![o] = allowed]]
  BY DEF Permit, Storage
<1>5. /\ [s.nonce EXCEPT ![o] = @ + 1] \in [Users -> Nat]
      /\ [s.allowance EXCEPT ![o] = allowed] \in [Users -> Nat]
  BY <1>1, <1>2, <1>3
<1>6. /\ t \in Storage /\ t.held = s.held /\ t.plain = s.plain /\ t.stray = s.stray
      /\ t.guard = s.guard /\ t.purse = s.purse /\ t.pulls = s.pulls /\ t.drawn = s.drawn
      /\ t.nonce = [s.nonce EXCEPT ![o] = @ + 1]
      /\ t.allowance = [s.allowance EXCEPT ![o] = allowed]
  BY <1>4, <1>5 DEF Storage
<1>7. signed[o].nonces > s.nonce[o] /\ p.spender \in signed[o].spenders
  BY DEF Unused
<1> HIDE DEF t
<1>8. ASSUME NEW u \in Users
      PROVE  /\ t.pulls[u] <= t.nonce[u]
             /\ t.nonce[u] <= signed[u].nonces /\ signed[u].nonces <= t.nonce[u] + 1
             /\ t.drawn[u] + t.allowance[u] + Pending(t, u, signed) <= signed[u].granted
  <2>1. /\ signed[u].nonces \in Nat /\ signed[u].granted \in Nat /\ s.nonce[u] \in Nat
        /\ s.pulls[u] \in Nat /\ s.drawn[u] \in Nat /\ s.allowance[u] \in Nat
    BY <1>2 DEF Signed
  <2>2. /\ s.pulls[u] <= s.nonce[u]
        /\ s.nonce[u] <= signed[u].nonces /\ signed[u].nonces <= s.nonce[u] + 1
        /\ s.drawn[u] + s.allowance[u] + Pending(s, u, signed) <= signed[u].granted
    BY DEF Counted
  <2>3. CASE u = o
    <3>1. t.nonce[u] = s.nonce[u] + 1 /\ t.allowance[u] = allowed
      BY <1>2, <1>6, <2>3
    <3>2. signed[u].nonces = s.nonce[u] + 1 /\ Pending(t, u, signed) = 0
      <4>1. signed[u].nonces > s.nonce[u]
        BY <1>7, <2>3
      <4>2. signed[u].nonces = s.nonce[u] + 1
        BY <2>1, <2>2, <4>1
      <4>3. ~(signed[u].nonces > t.nonce[u])
        BY <2>1, <3>1, <4>2
      <4>4. QED
        BY <4>2, <4>3 DEF Pending
    <3>3. allowed <= s.allowance[u] + Pending(s, u, signed)
      BY <1>1, <1>7, <2>1, <2>3 DEF Pending
    <3>4. Pending(s, u, signed) \in Nat
      BY <1>1 DEF Pending
    <3>5. QED
      BY <1>3, <1>6, <2>1, <2>2, <3>1, <3>2, <3>3, <3>4
  <2>4. CASE u # o
    <3>1. t.nonce[u] = s.nonce[u] /\ t.allowance[u] = s.allowance[u]
      BY <1>2, <1>6, <2>4
    <3>2. QED
      BY <1>6, <2>2, <3>1 DEF Pending
  <2>5. QED
    BY <2>3, <2>4
<1>9. Counted(t, signed)
  BY <1>8 DEF Counted
<1>10. t.nonce[o] = s.nonce[o] + 1
  BY <1>1, <1>2, <1>6
<1>11. QED
  BY <1>6, <1>9, <1>10 DEF t

\* transferFrom: what could be drawn is drawn.
LEMMA Transfer ==
  ASSUME NEW s \in Storage, signed \in [Users -> Signed], NEW u \in Users, NEW n \in Nat,
         Counted(s, signed), n <= s.allowance[u], n <= s.purse[u]
  PROVE  LET t == [s EXCEPT !.purse[u] = @ - n, !.allowance[u] = @ - n, !.drawn[u] = @ + n]
         IN /\ t \in Storage
            /\ t.held = s.held /\ t.plain = s.plain /\ t.stray = s.stray /\ t.guard = s.guard
            /\ t.pulls = s.pulls /\ t.nonce = s.nonce
            /\ Counted(t, signed)
<1> DEFINE t == [s EXCEPT !.purse[u] = @ - n, !.allowance[u] = @ - n, !.drawn[u] = @ + n]
<1>1. /\ s.purse \in [Users -> Nat] /\ s.allowance \in [Users -> Nat]
      /\ s.drawn \in [Users -> Nat]
  BY Fields
<1>2. /\ [s.purse EXCEPT ![u] = @ - n] \in [Users -> Nat]
      /\ [s.allowance EXCEPT ![u] = @ - n] \in [Users -> Nat]
      /\ [s.drawn EXCEPT ![u] = @ + n] \in [Users -> Nat]
  BY <1>1
<1>3. /\ t \in Storage /\ t.held = s.held /\ t.plain = s.plain /\ t.stray = s.stray
      /\ t.guard = s.guard /\ t.pulls = s.pulls /\ t.nonce = s.nonce
      /\ t.allowance = [s.allowance EXCEPT ![u] = @ - n]
      /\ t.drawn = [s.drawn EXCEPT ![u] = @ + n]
  BY <1>2 DEF Storage
<1> HIDE DEF t
<1>4. ASSUME NEW v \in Users
      PROVE  t.drawn[v] + t.allowance[v] = s.drawn[v] + s.allowance[v]
  BY <1>1, <1>3
<1>5. Counted(t, signed)
  BY <1>3, <1>4 DEF Counted, Pending
<1>6. QED
  BY <1>3, <1>5 DEF t

\* A draw uses up a permit.
LEMMA Pulled ==
  ASSUME NEW s \in Storage, signed \in [Users -> Signed],
         NEW u \in Users, NEW n \in Amounts, NEW p \in Permits, Counted(s, signed),
         p.spender \in Unused(s, p.owner), n <= Permit(s, p).allowance[u], n <= s.purse[u]
  PROVE  /\ Pull(s, u, n, p) \in Storage
         /\ Pull(s, u, n, p).guard = s.guard
         /\ Pull(s, u, n, p).plain = s.plain /\ Pull(s, u, n, p).stray = s.stray
         /\ Pull(s, u, n, p).held = [s.held EXCEPT !["token"] = @ + n]
         /\ Counted(Pull(s, u, n, p), signed)
<1> DEFINE o == p.owner
           q == Permit(s, p)
           t == [q EXCEPT !.purse[u] = @ - n, !.allowance[u] = @ - n, !.drawn[u] = @ + n]
           h == [s.held EXCEPT !["token"] = @ + n]
           k == [s.pulls EXCEPT ![o] = @ + 1]
           r == Pull(s, u, n, p)
<1>1. n \in Nat /\ o \in Users
  BY RelayerAssumption DEF Permits
<1>2. /\ q \in Storage /\ q.held = s.held /\ q.plain = s.plain /\ q.stray = s.stray
      /\ q.guard = s.guard /\ q.purse = s.purse /\ q.pulls = s.pulls
      /\ q.nonce[o] = s.nonce[o] + 1 /\ Counted(q, signed)
  BY PermitTaken
<1>3. /\ t \in Storage
      /\ t.held = q.held /\ t.plain = q.plain /\ t.stray = q.stray /\ t.guard = q.guard
      /\ t.pulls = q.pulls /\ t.nonce = q.nonce
      /\ Counted(t, signed)
  <2> HIDE DEF q
  <2>1. n <= q.allowance[u] /\ n <= q.purse[u]
    BY <1>2 DEF q
  <2>2. QED
    BY <1>1, <1>2, <2>1, Transfer
<1>4. h \in [Assets -> Nat] /\ k \in [Users -> Nat]
  BY <1>1, Fields DEF Assets
<1>5. r = [t EXCEPT !.held = h, !.pulls = k]
  <2>1. r = [q EXCEPT !.allowance[u] = @ - n, !.purse[u] = @ - n, !.drawn[u] = @ + n,
                      !.held["token"] = @ + n, !.pulls[o] = @ + 1]
    BY DEF Pull
  <2> HIDE DEF r, q
  <2>2. QED
    BY <1>2, <2>1 DEF Storage
<1> HIDE DEF r, t, h, k, q
<1>6. /\ r \in Storage /\ r.guard = t.guard /\ r.plain = t.plain /\ r.stray = t.stray
      /\ r.held = h /\ r.pulls = k /\ r.nonce = t.nonce /\ r.allowance = t.allowance
      /\ r.drawn = t.drawn
  BY <1>3, <1>4, <1>5 DEF Storage
<1>7. \A v \in Users : r.pulls[v] <= r.nonce[v]
  <2>1. s.pulls \in [Users -> Nat] /\ s.nonce \in [Users -> Nat]
    BY Fields
  <2>2. s.pulls[o] <= s.nonce[o] /\ \A v \in Users : q.pulls[v] <= q.nonce[v]
    BY <1>1, <1>2 DEF Counted
  <2>3. ASSUME NEW v \in Users PROVE r.pulls[v] <= r.nonce[v]
    <3>1. CASE v = o
      <4>1. r.pulls[v] = s.pulls[o] + 1 /\ r.nonce[v] = s.nonce[o] + 1
        BY <1>1, <1>2, <1>3, <1>6, <2>1, <3>1 DEF k
      <4>2. QED
        BY <1>1, <2>1, <2>2, <4>1
    <3>2. CASE v # o
      <4>1. r.pulls[v] = q.pulls[v] /\ r.nonce[v] = q.nonce[v]
        BY <1>1, <1>2, <1>3, <1>6, <2>1, <3>2 DEF k
      <4>2. QED
        BY <2>2, <4>1
    <3>3. QED
      BY <3>1, <3>2
  <2>4. QED
    BY <2>3
<1>8. Counted(r, signed)
  BY <1>3, <1>6, <1>7 DEF Counted, Pending
<1>9. QED
  BY <1>2, <1>3, <1>6, <1>8 DEF r, h

-----------------------------------------------------------------------------
(* The four ways of a step: nothing is under way before and after, a call  *)
(* begins, it goes on, or it ends.                                         *)

LEMMA Initially == Init => IInv
<1> SUFFICES ASSUME Init PROVE IInv
  OBVIOUS
<1>1. storage \in Storage
  BY RelayerAssumption DEF Init, Storage, Nothing
<1>2. signed \in [Users -> Signed]
  BY DEF Init, Signed
<1>3. TypeOK
  BY <1>1, <1>2, RelayerAssumption DEF Init, TypeOK
<1>4. Guarded /\ NothingLeftBehind /\ Recompensed
  BY DEF Init, Guarded, NothingLeftBehind, Recompensed, Nothing, Assets
<1>5. ASSUME NEW u \in Users
      PROVE  /\ storage.pulls[u] = 0 /\ storage.nonce[u] = 0 /\ storage.drawn[u] = 0
             /\ storage.allowance[u] = 0 /\ signed[u].nonces = 0 /\ signed[u].granted = 0
             /\ Pending(storage, u, signed) = 0
  BY DEF Init, Pending
<1>6. Counted(storage, signed)
  <2>1. ASSUME NEW u \in Users
        PROVE  /\ storage.pulls[u] <= storage.nonce[u]
               /\ storage.nonce[u] <= signed[u].nonces
               /\ signed[u].nonces <= storage.nonce[u] + 1
               /\ storage.drawn[u] + storage.allowance[u] + Pending(storage, u, signed)
                    <= signed[u].granted
    <3>1. PICK x : x = Pending(storage, u, signed)
      OBVIOUS
    <3>2. QED
      BY <1>5, <3>1
  <2>2. QED
    BY <2>1 DEF Counted
<1>7. frame = None
  BY DEF Init
<1>8. QED
  BY <1>3, <1>4, <1>6, <1>7 DEF IInv

LEMMA Quiet ==
  ASSUME IInv, frame = None, frame' = None, UNCHANGED <<contract, owner>>, last' = None,
         executioners' \subseteq Operators, paused' \in BOOLEAN,
         signed' \in [Users -> Signed], storage' \in Storage, ~storage'.guard,
         Counted(storage', signed'), Plain(storage')
  PROVE  IInv'
<1>1. TypeOK'
  BY DEF IInv, TypeOK
<1>2. Guarded' /\ NothingLeftBehind' /\ Recompensed'
  BY DEF Guarded, NothingLeftBehind, Plain, Recompensed
<1>3. QED
  BY <1>1, <1>2 DEF IInv

\* What is known of the storage between calls.
LEMMA Between ==
  ASSUME IInv, frame = None
  PROVE  /\ storage \in Storage /\ ~storage.guard /\ signed \in [Users -> Signed]
         /\ Plain(storage) /\ Counted(storage, signed)
BY DEF IInv, TypeOK, Guarded, NothingLeftBehind, Plain

LEMMA Begins ==
  ASSUME IInv, frame = None,
         NEW op \in Swaps \cup {"unsafeGeneralCall"}, NEW user \in Users \cup {None},
         NEW s \in Storage, Call(op, user, s), UNCHANGED setup,
         op \in Swaps => user \in Users, Counted(s, signed),
         s.held["WETH"] = storage.held["WETH"], s.held["ETH"] = storage.held["ETH"],
         op # "relaySwapToETH" => s.held["token"] = storage.held["token"],
         s.plain = storage.plain, s.stray = storage.stray
  PROVE  IInv'
<1>1. /\ storage \in Storage /\ storage.held["WETH"] \in Nat /\ storage.held["ETH"] \in Nat
      /\ storage.plain["ETH"] \in Nat /\ storage.stray \in Nat
      /\ ~storage.guard /\ Plain(storage)
  BY Between, Fields, Amount
<1>2. /\ storage' \in Storage /\ storage'.guard /\ storage'.held = s.held
      /\ storage'.plain = s.plain /\ storage'.stray = s.stray /\ Ledger(storage') = Ledger(s)
  BY DEF Call, Storage, Ledger
<1>3. frame' \in Frame /\ frame' # None
  BY <1>1, NoneAssumption DEF Call, Frame
<1>4. /\ frame'.op = op /\ frame'.user = user /\ frame'.saved = storage
      /\ frame'.before = storage.held["WETH"] /\ frame'.paid = 0 /\ frame'.ether = 0
  BY DEF Call
<1>5. UNCHANGED <<contract, owner, executioners, paused, signed>> /\ last' = None
  BY DEF Call, setup
<1>6. TypeOK'
  BY <1>2, <1>3, <1>5 DEF IInv, TypeOK
<1>7. Guarded'
  BY <1>1, <1>2, <1>3, <1>4 DEF Guarded
<1>8. Counted(storage', signed') /\ Counted(frame'.saved, signed')
  BY <1>2, <1>4, <1>5, SameLedger, Between
<1>9. Underway'
  <2>1. Plain(frame.saved)'
    BY <1>1, <1>4, <1>5 DEF Plain
  <2>2. storage'.held["WETH"] = frame'.before + frame'.paid
    BY <1>1, <1>2, <1>4
  <2>3. frame'.before <= storage'.plain["WETH"]
    BY <1>1, <1>2, <1>4 DEF Plain
  <2>4. /\ storage'.held["ETH"] <= storage'.plain["ETH"] + storage'.stray + frame'.ether
        /\ frame'.ether <= storage'.held["ETH"]
    BY <1>1, <1>2, <1>4 DEF Plain
  <2>5. contract' = "Relayer" => storage'.stray = 0
    BY <1>1, <1>2, <1>5 DEF Plain
  <2>6. frame'.op # "relaySwapToETH" => storage'.held["token"] <= storage'.plain["token"]
    BY <1>1, <1>2, <1>4 DEF Plain
  <2>7. frame'.op \in Swaps => frame'.user \in Users
    BY <1>4
  <2>8. QED
    BY <2>1, <2>2, <2>3, <2>4, <2>5, <2>6, <2>7 DEF Underway
<1>10. NothingLeftBehind' /\ Recompensed'
  BY <1>3, <1>5 DEF NothingLeftBehind, Recompensed
<1>11. QED
  BY <1>6, <1>7, <1>8, <1>9, <1>10 DEF IInv

LEMMA GoesOn ==
  ASSUME IInv, frame # None, UNCHANGED <<setup, executioners, paused, signed>>, last' = None,
         storage' \in Storage, storage'.guard, Counted(storage', signed),
         frame' \in Frame, frame'.saved = frame.saved, Underway'
  PROVE  IInv'
<1>1. TypeOK' /\ frame' # None
  BY NoneAssumption DEF IInv, TypeOK, setup
<1>2. Guarded' /\ NothingLeftBehind' /\ Recompensed'
  BY <1>1 DEF IInv, Guarded, NothingLeftBehind, Recompensed
<1>3. QED
  BY <1>1, <1>2 DEF IInv

LEMMA Ends ==
  ASSUME IInv, frame # None, NEW s \in Storage, NEW got \in Nat, Finish(s, got), UNCHANGED setup,
         frame.op \in Swaps, Plain(s), Ledger(s) = Ledger(storage), got > 0,
         IF contract = "CoinChoiceRelayer" /\ frame.op = "swap0x"
           THEN got = frame.paid ELSE got >= frame.paid + frame.ether
  PROVE  IInv'
<1>1. frame \in Frame
  BY DEF IInv, TypeOK
<1>2. /\ storage' \in Storage /\ ~storage'.guard /\ storage'.held = s.held
      /\ storage'.plain = s.plain /\ storage'.stray = s.stray
      /\ Ledger(storage') = Ledger(storage)
  BY DEF Finish, Storage, Ledger
<1>3. frame' = None /\ UNCHANGED <<contract, owner, executioners, paused, signed>>
  BY DEF Finish, setup
<1>4. /\ last' \in PaidOut /\ last'.op = frame.op /\ last'.paid = frame.paid
      /\ last'.ether = frame.ether /\ last'.got = got
  BY <1>1 DEF Finish, PaidOut, Frame
<1>5. TypeOK'
  BY <1>2, <1>3, <1>4 DEF IInv, TypeOK
<1>6. Guarded' /\ NothingLeftBehind'
  BY <1>2, <1>3 DEF Guarded, NothingLeftBehind, Plain
<1>7. Counted(storage', signed')
  BY <1>2, <1>3, SameLedger DEF IInv
<1>8. Recompensed'
  BY <1>3, <1>4 DEF Recompensed
<1>9. QED
  BY <1>3, <1>5, <1>6, <1>7, <1>8 DEF IInv

-----------------------------------------------------------------------------
(* What anybody does while no call is under way.                           *)

LEMMA SignedMore ==
  ASSUME IInv, NEW u \in Users, NEW spender \in Spenders, Sign(u, spender) PROVE IInv'
<1> DEFINE others == Unused(storage, u)
           new == IF spender = "relayer" /\ spender \notin others THEN PermitValue ELSE 0
           mine == [nonces |-> storage.nonce[u] + 1, spenders |-> others \cup {spender},
                    granted |-> signed[u].granted + new]
<1>1. /\ frame = None /\ signed' = [signed EXCEPT ![u] = mine]
      /\ UNCHANGED <<setup, executioners, paused, storage, frame>> /\ last' = None
  BY DEF Sign
<1>2. /\ storage \in Storage /\ ~storage.guard /\ signed \in [Users -> Signed]
      /\ Plain(storage) /\ Counted(storage, signed)
  BY <1>1, Between
<1>3. signed[u].spenders \subseteq Spenders /\ signed[u].granted \in Nat
      /\ signed[u].nonces \in Nat /\ PermitValue \in Nat
  BY <1>2, RelayerAssumption DEF Signed
<1>4. storage.nonce[u] \in Nat /\ storage.drawn[u] \in Nat /\ storage.allowance[u] \in Nat
  BY <1>2, Fields
<1>5. others \subseteq Spenders /\ new \in Nat
  BY <1>3 DEF Unused
<1>6. mine \in Signed
  BY <1>3, <1>4, <1>5 DEF Signed
<1>7. signed' \in [Users -> Signed]
  BY <1>1, <1>2, <1>6
<1>8. ASSUME NEW v \in Users
      PROVE  /\ storage.pulls[v] <= storage.nonce[v]
             /\ storage.nonce[v] <= signed'[v].nonces
             /\ signed'[v].nonces <= storage.nonce[v] + 1
             /\ storage.drawn[v] + storage.allowance[v] + Pending(storage, v, signed')
                  <= signed'[v].granted
  <2>1. CASE v # u
    <3>1. signed'[v] = signed[v]
      BY <1>1, <2>1
    <3>2. QED
      BY <1>2, <3>1 DEF Counted, Pending
  <2>2. CASE v = u
    <3>1. /\ signed'[v].nonces = storage.nonce[u] + 1
          /\ signed'[v].spenders = others \cup {spender}
          /\ signed'[v].granted = signed[u].granted + new
      BY <1>1, <1>2, <2>2
    <3>2. storage.pulls[v] <= storage.nonce[v]
      BY <1>2 DEF Counted
    <3>3. storage.drawn[u] + storage.allowance[u] + Pending(storage, u, signed)
            <= signed[u].granted
      BY <1>2 DEF Counted
    <3>4. Pending(storage, u, signed) = IF "relayer" \in others THEN PermitValue ELSE 0
      BY DEF Pending, Unused
    <3>5. Pending(storage, u, signed')
            = IF "relayer" \in others \cup {spender} THEN PermitValue ELSE 0
      BY <1>4, <2>2, <3>1 DEF Pending
    <3>6. Pending(storage, u, signed') <= Pending(storage, u, signed) + new
      <4> HIDE DEF others
      <4>1. QED
        BY <1>3, <3>4, <3>5
    <3>7. Pending(storage, u, signed') \in Nat /\ Pending(storage, u, signed) \in Nat
      BY <1>3, <3>4, <3>5
    <3> HIDE DEF others, new
    <3>8. QED
      BY <1>3, <1>4, <1>5, <2>2, <3>1, <3>2, <3>3, <3>6, <3>7
  <2>3. QED
    BY <2>1, <2>2
<1>9. Counted(storage', signed') /\ Plain(storage') /\ storage' \in Storage /\ ~storage'.guard
  BY <1>1, <1>2, <1>8 DEF Counted, Plain, Pending
<1>10. QED
  BY <1>1, <1>7, <1>9, Quiet DEF IInv, TypeOK, setup

LEMMA Sent ==
  ASSUME IInv, NEW a \in Assets, NEW n \in Payments, PlainSend(a, n) PROVE IInv'
<1> DEFINE h == storage.held[a] + n
           p == storage.plain[a] + n
<1>1. /\ storage \in Storage /\ n \in Nat /\ frame = None /\ ~storage.guard
      /\ signed \in [Users -> Signed] /\ Plain(storage) /\ Counted(storage, signed)
  BY Between, RelayerAssumption DEF PlainSend
<1>2. /\ storage.held \in [Assets -> Nat] /\ storage.plain \in [Assets -> Nat]
      /\ storage.stray \in Nat
  BY <1>1, Fields
<1>3. h \in Nat /\ p \in Nat
  BY <1>1, <1>2
<1>4. storage' = [storage EXCEPT !.held[a] = h, !.plain[a] = p]
  BY DEF PlainSend
<1>5. storage' \in Storage
  BY <1>1, <1>3, <1>4, HeldPlain
<1>6. /\ storage'.held = [storage.held EXCEPT ![a] = h] /\ storage'.stray = storage.stray
      /\ storage'.plain = [storage.plain EXCEPT ![a] = p]
      /\ ~storage'.guard /\ Ledger(storage') = Ledger(storage)
  BY <1>1, <1>4 DEF Storage, Ledger
<1>7. Plain(storage')
  BY <1>1, <1>2, <1>6 DEF Plain, Assets
<1>8. Counted(storage', signed') /\ signed' = signed
  BY <1>1, <1>6, SameLedger DEF PlainSend
<1>9. QED
  BY <1>1, <1>5, <1>6, <1>7, <1>8, Quiet DEF PlainSend, IInv, TypeOK, setup

LEMMA Deposited ==
  ASSUME IInv, frame = None, NEW u \in Users, NEW n \in Amounts, NEW p \in Permits,
         Deposit(u, n, p)
  PROVE  IInv'
<1> DEFINE s == Pull(storage, u, n, p)
<1>1. /\ storage \in Storage /\ n \in Nat /\ ~storage.guard /\ signed \in [Users -> Signed]
      /\ Plain(storage) /\ Counted(storage, signed)
  BY Between, RelayerAssumption
<1>2. /\ p.spender \in Unused(storage, p.owner) /\ n <= Permit(storage, p).allowance[u]
      /\ n <= storage.purse[u]
      /\ storage' = [s EXCEPT !.plain["token"] = @ + n]
      /\ UNCHANGED <<setup, executioners, paused, frame, signed>> /\ last' = None
  BY DEF Deposit, CanPull
<1>3. /\ s \in Storage /\ s.guard = storage.guard /\ s.plain = storage.plain
      /\ s.stray = storage.stray
      /\ s.held = [storage.held EXCEPT !["token"] = @ + n]
      /\ Counted(s, signed)
  BY <1>1, <1>2, Pulled
<1> HIDE DEF s
<1>4. storage.plain \in [Assets -> Nat] /\ storage.held \in [Assets -> Nat]
  BY <1>1, Fields
<1>5. [s.plain EXCEPT !["token"] = @ + n] \in [Assets -> Nat]
  BY <1>1, <1>3, <1>4 DEF Assets
<1>6. /\ storage' \in Storage /\ ~storage'.guard /\ storage'.held = s.held
      /\ storage'.stray = s.stray /\ Ledger(storage') = Ledger(s)
      /\ storage'.plain = [storage.plain EXCEPT !["token"] = @ + n]
  BY <1>1, <1>2, <1>3, <1>5 DEF Storage, Ledger
<1>7. Plain(storage')
  BY <1>1, <1>3, <1>4, <1>6 DEF Plain, Assets
<1>8. Counted(storage', signed')
  BY <1>2, <1>3, <1>6, SameLedger
<1>9. QED
  BY <1>1, <1>2, <1>6, <1>7, <1>8, Quiet DEF IInv, TypeOK, setup

\* Between calls a permit is handed to the token.
LEMMA PermittedQuietly ==
  ASSUME IInv, frame = None, NEW p \in Permits, TokenPermit(p) PROVE IInv'
<1>1. /\ storage \in Storage /\ ~storage.guard /\ signed \in [Users -> Signed]
      /\ Plain(storage) /\ Counted(storage, signed)
  BY Between
<1>2. /\ p.spender \in Unused(storage, p.owner) /\ storage' = Permit(storage, p)
      /\ UNCHANGED <<setup, executioners, paused, frame, signed>> /\ last' = None
  BY DEF TokenPermit
<1>3. /\ storage' \in Storage /\ storage'.held = storage.held
      /\ storage'.plain = storage.plain /\ storage'.stray = storage.stray
      /\ storage'.guard = storage.guard /\ Counted(storage', signed)
  BY <1>1, <1>2, PermitTaken
<1>4. Plain(storage') /\ Counted(storage', signed') /\ ~storage'.guard
  BY <1>1, <1>2, <1>3 DEF Plain
<1>5. QED
  BY <1>1, <1>2, <1>3, <1>4, Quiet DEF IInv, TypeOK, setup

LEMMA RelaySwapBegins ==
  ASSUME IInv, frame = None, UNCHANGED setup, NEW u \in Users, NEW n \in Amounts,
         NEW p \in Permits, BeginRelaySwap(u, n, p)
  PROVE  IInv'
<1> DEFINE q == Pull(storage, u, n, p)
           s == [q EXCEPT !.approved = TRUE]
<1>1. /\ storage \in Storage /\ signed \in [Users -> Signed] /\ Counted(storage, signed)
      /\ p.spender \in Unused(storage, p.owner) /\ n <= Permit(storage, p).allowance[u]
      /\ n <= storage.purse[u]
  BY Between DEF BeginRelaySwap, CanPull
<1>2. /\ q \in Storage /\ q.guard = storage.guard /\ q.plain = storage.plain
      /\ q.stray = storage.stray
      /\ q.held = [storage.held EXCEPT !["token"] = @ + n]
      /\ Counted(q, signed)
  BY <1>1, Pulled
<1>3. storage.held \in [Assets -> Nat]
  BY <1>1, Fields
<1>4. Call("relaySwapToETH", u, s)
  BY DEF BeginRelaySwap
<1> HIDE DEF q
<1>5. /\ s \in Storage /\ s.held = q.held /\ s.plain = q.plain /\ s.stray = q.stray
      /\ Ledger(s) = Ledger(q)
  BY <1>2 DEF Storage, Ledger
<1> HIDE DEF s
<1>6. Counted(s, signed)
  BY <1>2, <1>5, SameLedger
<1>7. s.held["WETH"] = storage.held["WETH"] /\ s.held["ETH"] = storage.held["ETH"]
  BY <1>2, <1>3, <1>5 DEF Assets
<1>8. QED
  BY <1>2, <1>4, <1>5, <1>6, <1>7, Begins DEF Swaps

LEMMA Swap0xBegins ==
  ASSUME IInv, frame = None, UNCHANGED setup, NEW u \in Users, BeginSwap0x(u) PROVE IInv'
<1> DEFINE s == [storage EXCEPT !.approved = TRUE]
<1>1. storage \in Storage /\ Counted(storage, signed)
  BY Between
<1>2. /\ s \in Storage /\ s.held = storage.held /\ s.plain = storage.plain
      /\ s.stray = storage.stray /\ Ledger(s) = Ledger(storage)
  BY <1>1 DEF Storage, Ledger
<1>3. Call("swap0x", u, s)
  BY DEF BeginSwap0x
<1> HIDE DEF s
<1>4. Counted(s, signed)
  BY <1>1, <1>2, SameLedger
<1>5. QED
  BY <1>2, <1>3, <1>4, Begins DEF Swaps

LEMMA Approved ==
  ASSUME IInv, frame = None, storage' = [storage EXCEPT !.approved = TRUE],
         UNCHANGED <<setup, executioners, paused, frame, signed>>, last' = None
  PROVE  IInv'
<1>1. /\ storage \in Storage /\ ~storage.guard /\ signed \in [Users -> Signed]
      /\ Plain(storage) /\ Counted(storage, signed)
  BY Between
<1>2. /\ storage' \in Storage /\ storage'.held = storage.held
      /\ storage'.plain = storage.plain /\ storage'.stray = storage.stray
      /\ ~storage'.guard /\ Ledger(storage') = Ledger(storage)
  BY <1>1 DEF Storage, Ledger
<1>3. Plain(storage') /\ Counted(storage', signed')
  BY <1>1, <1>2, SameLedger DEF Plain
<1>4. QED
  BY <1>1, <1>2, <1>3, Quiet DEF IInv, TypeOK, setup

LEMMA CalledGenerally ==
  ASSUME IInv, frame = None, UNCHANGED setup, GeneralCall PROVE IInv'
<1>1. /\ storage \in Storage /\ ~storage.guard /\ signed \in [Users -> Signed]
      /\ Plain(storage) /\ Counted(storage, signed)
  BY Between
<1>2. CASE Call("unsafeGeneralCall", None, storage)
  BY <1>1, <1>2, Begins DEF Swaps
<1>3. ASSUME NEW a \in {"token", "WETH"}, NEW n \in Amounts, n <= storage.held[a],
             storage' = [storage EXCEPT !.held[a] = @ - n],
             UNCHANGED <<setup, executioners, paused, frame, signed>>, last' = None
      PROVE  IInv'
  <2>1. n \in Nat /\ a \in Assets /\ storage.held \in [Assets -> Nat]
        /\ storage.plain \in [Assets -> Nat]
    BY <1>1, Fields, RelayerAssumption DEF Assets
  <2>2. storage.held[a] - n \in Nat
    BY <1>3, <2>1
  <2>3. storage' \in Storage
    BY <1>1, <1>3, <2>1, <2>2, Held
  <2>4. /\ storage'.held = [storage.held EXCEPT ![a] = storage.held[a] - n]
        /\ storage'.plain = storage.plain /\ storage'.stray = storage.stray
        /\ ~storage'.guard /\ Ledger(storage') = Ledger(storage)
    BY <1>1, <1>3 DEF Storage, Ledger
  <2>5. Plain(storage')
    BY <1>1, <2>1, <2>2, <2>4 DEF Plain, Assets
  <2>6. Counted(storage', signed')
    BY <1>1, <1>3, <2>4, SameLedger
  <2>7. QED
    BY <1>1, <1>3, <2>3, <2>4, <2>5, <2>6, Quiet DEF IInv, TypeOK, setup
<1>4. ASSUME NEW u \in Users, NEW n \in Amounts, n <= storage.allowance[u],
             n <= storage.purse[u],
             storage' = [storage EXCEPT !.purse[u] = @ - n, !.allowance[u] = @ - n,
                                        !.drawn[u] = @ + n],
             UNCHANGED <<setup, executioners, paused, frame, signed>>, last' = None
      PROVE  IInv'
  <2>1. n \in Nat
    BY RelayerAssumption
  <2>2. /\ storage' \in Storage /\ storage'.held = storage.held
        /\ storage'.plain = storage.plain /\ storage'.stray = storage.stray
        /\ storage'.guard = storage.guard /\ Counted(storage', signed)
    BY <1>1, <1>4, <2>1, Transfer
  <2>3. Plain(storage') /\ Counted(storage', signed') /\ ~storage'.guard
    BY <1>1, <1>4, <2>2 DEF Plain
  <2>4. QED
    BY <1>1, <1>4, <2>2, <2>3, Quiet DEF IInv, TypeOK, setup
<1>5. QED
  BY <1>2, <1>3, <1>4, Approved DEF GeneralCall

LEMMA Swiped ==
  ASSUME IInv, frame = None, NEW c \in Callers, NEW a \in Assets, relaySwipe(c, a) PROVE IInv'
<1> DEFINE left == IF a = "ETH" THEN 0 ELSE storage.stray
           h == [storage.held EXCEPT ![a] = 0]
           k == [storage.plain EXCEPT ![a] = 0]
<1>1. /\ storage \in Storage /\ ~storage.guard /\ signed \in [Users -> Signed]
      /\ Plain(storage) /\ Counted(storage, signed)
  BY Between
<1>2. storage.held \in [Assets -> Nat] /\ storage.plain \in [Assets -> Nat]
      /\ storage.stray \in Nat
  BY <1>1, Fields
<1>3. h \in [Assets -> Nat] /\ k \in [Assets -> Nat] /\ left \in Nat
  BY <1>2
<1>4. storage' = [storage EXCEPT !.held = h, !.plain = k, !.stray = left]
  BY DEF relaySwipe
<1>5. /\ storage' \in Storage /\ ~storage'.guard /\ Ledger(storage') = Ledger(storage)
      /\ storage'.held = h /\ storage'.plain = k /\ storage'.stray = left
  BY <1>1, <1>3, <1>4 DEF Storage, Ledger
<1>6. Plain(storage')
  BY <1>1, <1>2, <1>5 DEF Plain, Assets
<1>7. Counted(storage', signed') /\ signed' = signed
  BY <1>1, <1>5, SameLedger DEF relaySwipe
<1>8. QED
  BY <1>1, <1>5, <1>6, <1>7, Quiet DEF IInv, TypeOK, setup, relaySwipe

-----------------------------------------------------------------------------
(* What the market does.                                                   *)

LEMMA During ==
  ASSUME IInv, frame # None
  PROVE  /\ storage \in Storage /\ frame \in Frame /\ storage.guard /\ Underway
         /\ signed \in [Users -> Signed] /\ Counted(storage, signed)
         /\ frame.paid \in Nat /\ frame.ether \in Nat /\ frame.before \in Nat
         /\ storage.held \in [Assets -> Nat] /\ storage.plain \in [Assets -> Nat]
         /\ storage.stray \in Nat
<1>1. /\ storage \in Storage /\ frame \in Frame /\ storage.guard /\ Underway
      /\ signed \in [Users -> Signed] /\ Counted(storage, signed)
  BY DEF IInv, TypeOK, Guarded
<1>2. QED
  BY <1>1, Fields DEF Frame

\* In a call the market hands a permit to the token.
LEMMA PermittedInCall ==
  ASSUME IInv, frame # None, NEW p \in Permits, TokenPermit(p) PROVE IInv'
<1>1. /\ storage \in Storage /\ frame \in Frame /\ storage.guard /\ Underway
      /\ signed \in [Users -> Signed] /\ Counted(storage, signed)
  BY During
<1>2. /\ p.spender \in Unused(storage, p.owner) /\ storage' = Permit(storage, p)
      /\ UNCHANGED <<setup, executioners, paused, frame, signed>> /\ last' = None
  BY DEF TokenPermit
<1>3. /\ storage' \in Storage /\ storage'.held = storage.held
      /\ storage'.plain = storage.plain /\ storage'.stray = storage.stray
      /\ storage'.guard = storage.guard /\ Counted(storage', signed)
  BY <1>1, <1>2, PermitTaken
<1>4. Underway'
  BY <1>1, <1>2, <1>3 DEF Underway, Plain, setup
<1>5. QED
  BY <1>1, <1>2, <1>3, <1>4, GoesOn

LEMMA Taken == ASSUME IInv, NEW n \in Amounts, MarketTakes(n) PROVE IInv'
<1>1. storage \in Storage /\ n \in Nat /\ Counted(storage, signed)
  BY RelayerAssumption DEF IInv, TypeOK
<1>2. storage.held \in [Assets -> Nat] /\ storage.plain \in [Assets -> Nat]
  BY <1>1, Fields
<1>3. storage.held["token"] - n \in Nat /\ "token" \in Assets
  BY <1>1, <1>2 DEF MarketTakes, Assets
<1>4. storage' = [storage EXCEPT !.held["token"] = storage.held["token"] - n]
  BY DEF MarketTakes
<1>5. /\ storage' \in Storage /\ storage'.plain = storage.plain
      /\ storage'.held = [storage.held EXCEPT !["token"] = storage.held["token"] - n]
      /\ storage'.guard = storage.guard /\ storage'.stray = storage.stray
      /\ Ledger(storage') = Ledger(storage)
  BY <1>1, <1>3, <1>4, Held DEF Storage, Ledger
<1>6. UNCHANGED <<setup, executioners, paused, frame, signed>> /\ last' = None
  BY DEF MarketTakes
<1>7. Counted(storage', signed)
  BY <1>1, <1>5, SameLedger
<1>8. CASE frame = None
  <2>1. Plain(storage) /\ ~storage.guard /\ signed \in [Users -> Signed]
    BY <1>8, Between
  <2>2. Plain(storage')
    BY <1>1, <1>2, <1>3, <1>5, <2>1 DEF Plain, Assets
  <2>3. QED
    BY <1>5, <1>6, <1>7, <1>8, <2>1, <2>2, Quiet DEF setup, IInv, TypeOK
<1>9. CASE frame # None
  <2>1. Underway /\ storage.guard /\ frame \in Frame
    BY <1>9, During
  <2>2. Underway'
    BY <1>1, <1>2, <1>3, <1>5, <1>6, <2>1 DEF Underway, Plain, Assets, setup
  <2>3. QED
    BY <1>5, <1>6, <1>7, <1>9, <2>1, <2>2, GoesOn
<1>10. QED
  BY <1>8, <1>9

LEMMA PaidWETH == ASSUME IInv, NEW n \in Payments, MarketPaysWETH(n) PROVE IInv'
<1>1. frame # None /\ UNCHANGED <<setup, executioners, paused, signed>> /\ last' = None
      /\ n \in Nat
  BY RelayerAssumption DEF MarketPaysWETH
<1>2. /\ storage \in Storage /\ frame \in Frame /\ storage.guard /\ Underway
      /\ Counted(storage, signed) /\ frame.paid \in Nat /\ frame.before \in Nat
      /\ storage.held \in [Assets -> Nat]
  BY <1>1, During
<1>3. storage.held["WETH"] + n \in Nat /\ "WETH" \in Assets
  BY <1>1, <1>2 DEF Assets
<1>4. /\ storage' \in Storage /\ storage'.plain = storage.plain
      /\ storage'.held = [storage.held EXCEPT !["WETH"] = storage.held["WETH"] + n]
      /\ storage'.guard = storage.guard /\ storage'.stray = storage.stray
      /\ Ledger(storage') = Ledger(storage)
  BY <1>2, <1>3, Held DEF Storage, MarketPaysWETH, Ledger
<1>5. /\ frame' \in Frame /\ frame'.saved = frame.saved /\ frame'.paid = frame.paid + n
      /\ frame'.before = frame.before /\ frame'.op = frame.op /\ frame'.user = frame.user
      /\ frame'.ether = frame.ether
  BY <1>1, <1>2 DEF Frame, MarketPaysWETH
<1>6. Underway'
  BY <1>1, <1>2, <1>4, <1>5 DEF Underway, Plain, Assets, setup
<1>7. Counted(storage', signed)
  BY <1>2, <1>4, SameLedger
<1>8. QED
  BY <1>1, <1>2, <1>4, <1>5, <1>6, <1>7, GoesOn

LEMMA PaidETH == ASSUME IInv, NEW n \in Payments, MarketPaysETH(n) PROVE IInv'
<1>1. frame # None /\ UNCHANGED <<setup, executioners, paused, signed>> /\ last' = None
      /\ n \in Nat
  BY RelayerAssumption DEF MarketPaysETH
<1>2. /\ storage \in Storage /\ frame \in Frame /\ storage.guard /\ Underway
      /\ Counted(storage, signed) /\ frame.ether \in Nat
      /\ storage.held \in [Assets -> Nat] /\ storage.plain \in [Assets -> Nat]
      /\ storage.stray \in Nat
  BY <1>1, During
<1>3. storage.held["ETH"] + n \in Nat /\ "ETH" \in Assets
  BY <1>1, <1>2 DEF Assets
<1>4. /\ storage' \in Storage /\ storage'.plain = storage.plain
      /\ storage'.held = [storage.held EXCEPT !["ETH"] = storage.held["ETH"] + n]
      /\ storage'.guard = storage.guard /\ storage'.stray = storage.stray
      /\ Ledger(storage') = Ledger(storage)
  BY <1>2, <1>3, Held DEF Storage, MarketPaysETH, Ledger
<1>5. /\ frame' \in Frame /\ frame'.saved = frame.saved /\ frame'.ether = frame.ether + n
      /\ frame'.before = frame.before /\ frame'.op = frame.op /\ frame'.user = frame.user
      /\ frame'.paid = frame.paid
  BY <1>1, <1>2 DEF Frame, MarketPaysETH
<1>6. Underway'
  BY <1>1, <1>2, <1>4, <1>5 DEF Underway, Plain, Assets, setup
<1>7. Counted(storage', signed)
  BY <1>2, <1>4, SameLedger
<1>8. QED
  BY <1>1, <1>2, <1>4, <1>5, <1>6, <1>7, GoesOn

-----------------------------------------------------------------------------
(* The call is over.                                                       *)

LEMMA RelaySwapReturned == ASSUME IInv, relaySwapReturns, UNCHANGED setup PROVE IInv'
<1> DEFINE u == frame.user
           tokens == storage.purse[u] + storage.held["token"]
           got == storage.held["WETH"] + storage.held["ETH"]
           s == [storage EXCEPT !.held = Nothing, !.plain = Nothing, !.stray = 0,
                                !.purse[u] = tokens]
<1>1. frame # None /\ frame.op = "relaySwapToETH" /\ storage.held["WETH"] > 0
  BY DEF relaySwapReturns, InCall
<1>2. /\ storage \in Storage /\ frame \in Frame /\ Underway /\ storage.held \in [Assets -> Nat]
      /\ frame.paid \in Nat /\ frame.before \in Nat /\ frame.ether \in Nat
  BY <1>1, During
<1>3. u \in Users
  BY <1>1, <1>2 DEF Underway, Swaps
<1>4. storage.purse \in [Users -> Nat]
  BY <1>2, Fields
<1>5. storage.held["WETH"] \in Nat /\ storage.held["ETH"] \in Nat /\ tokens \in Nat
  BY <1>2, <1>3, <1>4 DEF Assets
<1>6. [storage.purse EXCEPT ![u] = tokens] \in [Users -> Nat] /\ Nothing \in [Assets -> Nat]
  BY <1>4, <1>5 DEF Nothing
<1>7. /\ s \in Storage /\ s.held = Nothing /\ s.plain = Nothing /\ s.stray = 0
      /\ Ledger(s) = Ledger(storage)
  BY <1>2, <1>6 DEF Storage, Ledger
<1>8. Plain(s)
  BY <1>7 DEF Plain, Nothing, Assets
<1>9. got \in Nat /\ got > 0 /\ got >= frame.paid + frame.ether
  BY <1>1, <1>2, <1>5 DEF Underway
<1>10. Finish(s, got)
  BY DEF relaySwapReturns
<1> HIDE DEF s, got
<1>11. QED
  BY <1>1, <1>7, <1>8, <1>9, <1>10, Ends DEF Swaps

LEMMA Swap0xReturned == ASSUME IInv, Relayer_swap0xReturns, UNCHANGED setup PROVE IInv'
<1> DEFINE got == storage.held["WETH"] + storage.held["ETH"]
           h == [storage.held EXCEPT !["WETH"] = 0, !["ETH"] = 0]
           p == [storage.plain EXCEPT !["WETH"] = 0, !["ETH"] = 0]
           s == [storage EXCEPT !.held["WETH"] = 0, !.held["ETH"] = 0,
                                !.plain["WETH"] = 0, !.plain["ETH"] = 0, !.stray = 0]
<1>1. frame # None /\ frame.op = "swap0x" /\ storage.held["WETH"] > 0 /\ contract = "Relayer"
  BY DEF Relayer_swap0xReturns, InCall
<1>2. /\ storage \in Storage /\ frame \in Frame /\ Underway
      /\ storage.held \in [Assets -> Nat] /\ storage.plain \in [Assets -> Nat]
      /\ frame.paid \in Nat /\ frame.before \in Nat /\ frame.ether \in Nat
  BY <1>1, During
<1>3. h \in [Assets -> Nat] /\ p \in [Assets -> Nat]
  BY <1>2
<1>4. s = [storage EXCEPT !.held = h, !.plain = p, !.stray = 0]
  BY <1>2 DEF Storage
<1>5. /\ s \in Storage /\ s.held = h /\ s.plain = p /\ s.stray = 0
      /\ Ledger(s) = Ledger(storage)
  BY <1>2, <1>3, <1>4 DEF Storage, Ledger
<1>6. storage.held["token"] <= storage.plain["token"]
  BY <1>1, <1>2 DEF Underway
<1>7. Plain(s)
  BY <1>2, <1>5, <1>6 DEF Plain, Assets
<1>8. got \in Nat /\ got > 0 /\ got >= frame.paid + frame.ether
  BY <1>1, <1>2 DEF Underway, Assets
<1>9. Finish(s, got)
  BY DEF Relayer_swap0xReturns
<1> HIDE DEF s, got
<1>10. QED
  BY <1>1, <1>5, <1>7, <1>8, <1>9, Ends DEF Swaps

LEMMA CoinChoiceSwap0xReturned ==
  ASSUME IInv, CoinChoice_swap0xReturns, UNCHANGED setup PROVE IInv'
<1> DEFINE got == storage.held["WETH"] - frame.before
           more == storage.stray + frame.ether
           h == [storage.held EXCEPT !["WETH"] = frame.before]
           s == [storage EXCEPT !.held["WETH"] = frame.before, !.stray = @ + frame.ether]
<1>1. /\ frame # None /\ frame.op = "swap0x" /\ got > 0 /\ contract = "CoinChoiceRelayer"
      /\ Finish(s, got)
  BY DEF CoinChoice_swap0xReturns, InCall
<1>2. /\ storage \in Storage /\ frame \in Frame /\ Underway
      /\ storage.held \in [Assets -> Nat] /\ storage.plain \in [Assets -> Nat]
      /\ frame.paid \in Nat /\ frame.before \in Nat /\ frame.ether \in Nat
      /\ storage.stray \in Nat
  BY <1>1, During
<1>3. got = frame.paid
  BY <1>2 DEF Underway
<1>4. h \in [Assets -> Nat] /\ more \in Nat
  BY <1>2 DEF Assets
<1> HIDE DEF s
<1>5. s = [storage EXCEPT !.held = h, !.stray = more]
  BY <1>2 DEF Storage, s
<1>6. /\ s \in Storage /\ s.held = h /\ s.stray = more
      /\ s.plain = storage.plain /\ Ledger(s) = Ledger(storage)
  BY <1>2, <1>4, <1>5 DEF Storage, Ledger
<1>7. Plain(s)
  BY <1>1, <1>2, <1>6 DEF Plain, Underway, Assets
<1> HIDE DEF got
<1>8. QED
  BY <1>1, <1>2, <1>3, <1>6, <1>7, Ends DEF Swaps

LEMMA CallReturned == ASSUME IInv, GeneralCallReturns PROVE IInv'
<1> DEFINE p == [storage.plain EXCEPT !["WETH"] = @ + frame.paid, !["ETH"] = @ + frame.ether]
<1>1. /\ frame # None /\ frame.op = "unsafeGeneralCall" /\ frame' = None
      /\ UNCHANGED <<setup, executioners, paused, signed>> /\ last' = None
  BY DEF GeneralCallReturns, InCall
<1>2. /\ storage \in Storage /\ frame \in Frame /\ Underway
      /\ storage.held \in [Assets -> Nat] /\ storage.plain \in [Assets -> Nat]
      /\ frame.paid \in Nat /\ frame.before \in Nat /\ frame.ether \in Nat
      /\ storage.stray \in Nat /\ Counted(storage, signed)
  BY <1>1, During
<1>3. p \in [Assets -> Nat]
  BY <1>2 DEF Assets
<1>4. storage' = [storage EXCEPT !.guard = FALSE, !.plain = p]
  BY <1>2 DEF GeneralCallReturns, Storage
<1>5. /\ storage' \in Storage /\ storage'.held = storage.held /\ ~storage'.guard
      /\ storage'.plain = p /\ storage'.stray = storage.stray
      /\ Ledger(storage') = Ledger(storage)
  BY <1>2, <1>3, <1>4 DEF Storage, Ledger
<1>6. Plain(storage')
  BY <1>1, <1>2, <1>5 DEF Plain, Underway, Assets, Swaps
<1>7. Counted(storage', signed')
  BY <1>1, <1>2, <1>5, SameLedger
<1>8. TypeOK'
  BY <1>1, <1>5 DEF IInv, TypeOK, setup
<1>9. QED
  BY <1>1, <1>5, <1>6, <1>7, <1>8
  DEF IInv, Guarded, NothingLeftBehind, Plain, Recompensed, setup

\* What was saved when the call began is as it should be between calls.
LEMMA Reverted == ASSUME IInv, CallReverts PROVE IInv'
<1>1. frame # None /\ frame \in Frame /\ Underway
  BY During DEF CallReverts
<1>2. storage' = frame.saved /\ storage' \in Storage
  BY <1>1 DEF Frame, CallReverts
<1>3. frame' = None /\ UNCHANGED <<setup, executioners, paused, signed>> /\ last' = None
  BY DEF CallReverts
<1>4. Plain(storage') /\ Counted(storage', signed') /\ ~storage'.guard
  BY <1>1, <1>2, <1>3 DEF IInv, Underway, Guarded
<1>5. TypeOK'
  BY <1>2, <1>3 DEF IInv, TypeOK, setup
<1>6. QED
  BY <1>3, <1>4, <1>5 DEF IInv, Guarded, NothingLeftBehind, Plain, Recompensed, setup

-----------------------------------------------------------------------------
\* Whoever calls the relayer while a call is under way is turned away.
LEMMA TurnedAway ==
  ASSUME IInv, NEW c \in Callers,
         RelayerCall(c) \/ CoinChoiceCall(c) \/ OwnerCall(c)
  PROVE  frame = None
<1>1. Turn(c)
  BY DEF RelayerCall, CoinChoiceCall, OwnerCall, Relayer_depositERC20,
         Relayer_relaySwapToETH, Relayer_swap0x, Relayer_unsafeGeneralCall, addExecutioner,
         CoinChoice_depositERC20, CoinChoice_relaySwapToETH, CoinChoice_swap0x,
         CoinChoice_unsafeGeneralCall, relayApprove, relaySwipe
<1>2. nonReentrant \/ onlyOwner(c)
  BY DEF RelayerCall, CoinChoiceCall, OwnerCall, Relayer_depositERC20,
         Relayer_relaySwapToETH, Relayer_swap0x, Relayer_unsafeGeneralCall, addExecutioner,
         CoinChoice_depositERC20, CoinChoice_relaySwapToETH, CoinChoice_swap0x,
         CoinChoice_unsafeGeneralCall, relayApprove, relaySwipe
<1>3. nonReentrant => frame = None
  BY DEF nonReentrant, IInv, Guarded
<1>4. ~onlyOwner(Market)
  BY RelayerAssumption DEF onlyOwner, IInv, TypeOK
<1>5. QED
  BY <1>1, <1>2, <1>3, <1>4 DEF Turn

LEMMA Called ==
  ASSUME IInv, NEW c \in Callers,
         RelayerCall(c) \/ CoinChoiceCall(c) \/ OwnerCall(c), UNCHANGED setup
  PROVE  IInv'
<1>1. frame = None
  BY TurnedAway
<1>2. ASSUME NEW u \in Users, NEW n \in Amounts, NEW p \in Permits,
             Relayer_depositERC20(c, u, n, p) \/ CoinChoice_depositERC20(c, u, n, p)
      PROVE  IInv'
  BY <1>1, <1>2, Deposited DEF Relayer_depositERC20, CoinChoice_depositERC20
<1>3. ASSUME NEW u \in Users, NEW n \in Amounts, NEW p \in Permits,
             Relayer_relaySwapToETH(c, u, n, p) \/ CoinChoice_relaySwapToETH(c, u, n, p)
      PROVE  IInv'
  BY <1>1, <1>3, RelaySwapBegins DEF Relayer_relaySwapToETH, CoinChoice_relaySwapToETH
<1>4. ASSUME NEW u \in Users, Relayer_swap0x(c, u) \/ CoinChoice_swap0x(c, u)
      PROVE  IInv'
  BY <1>1, <1>4, Swap0xBegins DEF Relayer_swap0x, CoinChoice_swap0x
<1>5. CASE Relayer_unsafeGeneralCall(c) \/ CoinChoice_unsafeGeneralCall(c)
  BY <1>1, <1>5, CalledGenerally DEF Relayer_unsafeGeneralCall, CoinChoice_unsafeGeneralCall
<1>6. ASSUME NEW e \in Operators, addExecutioner(c, e)
      PROVE  IInv'
  <2>1. /\ Plain(storage') /\ Counted(storage', signed') /\ ~storage'.guard
        /\ storage' \in Storage /\ signed' \in [Users -> Signed]
    BY <1>1, <1>6, Between DEF addExecutioner
  <2>2. executioners' \subseteq Operators
    BY <1>6 DEF addExecutioner, IInv, TypeOK
  <2>3. QED
    BY <1>1, <1>6, <2>1, <2>2, Quiet DEF addExecutioner, IInv, TypeOK, setup
<1>7. CASE relayApprove(c)
  BY <1>1, <1>7, Approved DEF relayApprove
<1>8. ASSUME NEW a \in Assets, relaySwipe(c, a)
      PROVE  IInv'
  BY <1>1, <1>8, Swiped
<1>9. QED
  BY <1>2, <1>3, <1>4, <1>5, <1>6, <1>7, <1>8 DEF RelayerCall, CoinChoiceCall, OwnerCall

LEMMA Paused == ASSUME IInv, pause PROVE IInv'
<1>1. /\ Plain(storage') /\ Counted(storage', signed') /\ ~storage'.guard
      /\ storage' \in Storage /\ signed' \in [Users -> Signed]
  BY Between DEF pause
<1>2. QED
  BY <1>1, Quiet DEF pause, IInv, TypeOK, setup

LEMMA Transferred ==
  ASSUME IInv, NEW c \in Callers, NEW to \in Operators, transferOwnership(c, to)
  PROVE  IInv'
<1>1. frame = None
  <2>1. Turn(c) /\ c \in Operators
    BY RelayerAssumption DEF transferOwnership, onlyOwner, IInv, TypeOK, Callers
  <2>2. QED
    BY <2>1, RelayerAssumption DEF Turn
<1>2. /\ Plain(storage)' /\ Counted(storage', signed') /\ ~storage'.guard
  BY <1>1, Between DEF transferOwnership, Plain
<1>3. TypeOK' /\ Recompensed'
  BY DEF transferOwnership, IInv, TypeOK, Recompensed
<1>4. QED
  BY <1>1, <1>2, <1>3 DEF transferOwnership, IInv, Guarded, NothingLeftBehind, Plain

\* Nobody deploys the other contract, and nothing else changes the owner.
LEMMA SetUpOnce ==
  ASSUME Next, ~\E c \in Callers, to \in Operators : transferOwnership(c, to)
  PROVE  UNCHANGED setup
<1>1. ASSUME NEW c \in Callers, RelayerCall(c) \/ CoinChoiceCall(c) \/ OwnerCall(c)
      PROVE  UNCHANGED setup
  BY <1>1 DEF RelayerCall, CoinChoiceCall, OwnerCall, Relayer_depositERC20,
       Relayer_relaySwapToETH, Relayer_swap0x, Relayer_unsafeGeneralCall, addExecutioner,
       CoinChoice_depositERC20, CoinChoice_relaySwapToETH, CoinChoice_swap0x,
       CoinChoice_unsafeGeneralCall, relayApprove, relaySwipe, Deposit, BeginRelaySwap,
       BeginSwap0x, GeneralCall, Call
<1>2. CASE Returns
  BY <1>2 DEF Returns, Finish, relaySwapReturns, Relayer_swap0xReturns,
       CoinChoice_swap0xReturns, GeneralCallReturns, CallReverts
<1>3. QED
  BY <1>1, <1>2 DEF Next, Sign, TokenPermit, PlainSend, MarketTakes, MarketPaysWETH,
                    MarketPaysETH, pause

LEMMA Inductive == ASSUME IInv, [Next]_vars PROVE IInv'
<1>1. CASE UNCHANGED vars
  <2>1. /\ UNCHANGED <<contract, owner, executioners, paused, storage, frame, signed, last>>
    BY <1>1 DEF vars
  <2>2. Underway' <=> Underway
    BY <2>1 DEF Underway, Plain
  <2>3. QED
    BY <2>1, <2>2 DEF IInv, TypeOK, Guarded, NothingLeftBehind, Recompensed
<1>2. ASSUME NEW c \in Callers, NEW to \in Operators, transferOwnership(c, to)
      PROVE  IInv'
  BY <1>2, Transferred
<1>3. CASE Next /\ ~\E c \in Callers, to \in Operators : transferOwnership(c, to)
  <2>1. UNCHANGED setup
    BY <1>3, SetUpOnce
  <2>2. ASSUME NEW c \in Callers, RelayerCall(c) \/ CoinChoiceCall(c) \/ OwnerCall(c)
        PROVE  IInv'
    BY <2>1, <2>2, Called
  <2>3. CASE Returns
    BY <2>1, <2>3, RelaySwapReturned, Swap0xReturned, CoinChoiceSwap0xReturned, CallReturned,
       Reverted DEF Returns
  <2>4. ASSUME NEW p \in Permits, TokenPermit(p) PROVE IInv'
    BY <2>4, PermittedQuietly, PermittedInCall
  <2>5. QED
    BY <1>3, <2>2, <2>3, <2>4, SignedMore, Sent, Taken, PaidWETH, PaidETH, Paused DEF Next
<1>4. QED
  BY <1>1, <1>2, <1>3

THEOREM Invariance == Spec => []IInv
<1>1. Init => IInv
  BY Initially
<1>2. IInv /\ [Next]_vars => IInv'
  BY Inductive
<1>3. QED
  BY <1>1, <1>2, PTL DEF Spec

-----------------------------------------------------------------------------
\* The state of the relayer keeps its shape: nobody holds less than nothing, whatever
\* the market does with its approval.
THEOREM TypeCorrect == Spec => []TypeOK
<1>1. IInv => TypeOK
  BY DEF IInv
<1>2. QED
  BY <1>1, Invariance, PTL

\* Between transactions nothing of a swap is left in the relayer but, after a swap0x of
\* CoinChoiceRelayer, ETH the market paid in it.
THEOREM NothingIsLeft == Spec => []NothingLeftBehind
<1>1. IInv => NothingLeftBehind
  BY DEF IInv
<1>2. QED
  BY <1>1, Invariance, PTL

\* A completed swap paid out at least what the market paid for it, a swap0x of
\* CoinChoiceRelayer the WETH of it.
THEOREM SwapsRecompensed == Spec => []Recompensed
<1>1. IInv => Recompensed
  BY DEF IInv
<1>2. QED
  BY <1>1, Invariance, PTL

\* Each draw uses up a permit, and what is drawn from a user stays within what the user's
\* permits for the relayer come to.
THEOREM DrawnOncePerSignature == Spec => []OncePerSignature
<1>1. ASSUME IInv PROVE OncePerSignature
  <2>1. /\ storage \in Storage /\ signed \in [Users -> Signed] /\ Counted(storage, signed)
        /\ PermitValue \in Nat
    BY <1>1, RelayerAssumption DEF IInv, TypeOK
  <2>2. ASSUME NEW u \in Users
        PROVE  storage.pulls[u] <= signed[u].nonces /\ storage.drawn[u] <= signed[u].granted
    <3>1. /\ storage.pulls[u] \in Nat /\ storage.nonce[u] \in Nat /\ storage.drawn[u] \in Nat
          /\ storage.allowance[u] \in Nat /\ signed[u].nonces \in Nat
          /\ signed[u].granted \in Nat /\ Pending(storage, u, signed) \in Nat
      BY <2>1, Fields DEF Signed, Pending
    <3>2. /\ storage.pulls[u] <= storage.nonce[u] /\ storage.nonce[u] <= signed[u].nonces
          /\ storage.drawn[u] + storage.allowance[u] + Pending(storage, u, signed)
               <= signed[u].granted
      BY <2>1 DEF Counted
    <3>3. QED
      BY <3>1, <3>2
  <2>3. QED
    BY <2>2 DEF OncePerSignature
<1>2. QED
  BY <1>1, Invariance, PTL

\* Nothing is drawn from a user while the market has control.
THEOREM NothingDrawnInSwap == Spec => NoPullInSwap
<1>1. ASSUME IInv, [Next]_vars, frame # None, frame' # None
      PROVE  storage'.purse = storage.purse
  <2>1. storage \in Storage
    BY <1>1 DEF IInv, TypeOK
  <2>2. CASE UNCHANGED vars
    BY <2>2 DEF vars
  <2>3. ASSUME NEW n \in Amounts, MarketTakes(n) PROVE storage'.purse = storage.purse
    BY <2>1, <2>3 DEF MarketTakes, Storage
  <2>4. ASSUME NEW n \in Payments, MarketPaysWETH(n) \/ MarketPaysETH(n)
        PROVE  storage'.purse = storage.purse
    BY <2>1, <2>4 DEF MarketPaysWETH, MarketPaysETH, Storage
  <2>5. ASSUME NEW p \in Permits, TokenPermit(p) PROVE storage'.purse = storage.purse
    BY <2>1, <2>5 DEF TokenPermit, Permit, Storage
  <2>6. ~Returns
    BY <1>1 DEF Returns, relaySwapReturns, Relayer_swap0xReturns, CoinChoice_swap0xReturns,
                GeneralCallReturns, CallReverts, Finish
  <2>7. QED
    BY <1>1, <2>2, <2>3, <2>4, <2>5, <2>6, TurnedAway DEF Next, Sign, PlainSend, pause,
                                                       transferOwnership
<1>2. IInv /\ [Next]_vars => [frame # None /\ frame' # None => storage'.purse = storage.purse]_vars
  BY <1>1
<1>3. QED
  BY <1>2, Invariance, PTL DEF Spec, NoPullInSwap
=============================================================================

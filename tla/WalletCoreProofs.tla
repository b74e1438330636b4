-------------------------- MODULE WalletCoreProofs --------------------------
(* Proofs about the in-memory ledger, for any finite set of wallets and any  *)
(* keys and amounts: the books are conserved and a stake is always covered.  *)
EXTENDS WalletCore, SequenceTheorems, SumProofs

(* What the algebra of balances does to the two parts of a balance.          *)
LEMMA Algebra ==
  ASSUME NEW s \in BalanceState, NEW a \in Nat
  PROVE  /\ s.available \in Nat /\ s.locked \in Nat
         /\ total(s) \in Nat
         /\ /\ credit(s, a) \in BalanceState
            /\ total(credit(s, a)) = total(s) + a
            /\ credit(s, a).locked = s.locked
         /\ CanDebit(s, a) =>
              /\ debit(s, a) \in BalanceState
              /\ total(debit(s, a)) = total(s) - a
              /\ debit(s, a).locked = s.locked
         /\ CanReserve(s, a) =>
              /\ reserve(s, a) \in BalanceState
              /\ total(reserve(s, a)) = total(s)
              /\ reserve(s, a).locked = s.locked + a
         /\ CanSettle(s, a) =>
              /\ commitReserved(s, a) \in BalanceState
              /\ total(commitReserved(s, a)) = total(s) - a
              /\ commitReserved(s, a).locked = s.locked - a
         /\ CanSettle(s, a) =>
              /\ releaseReserved(s, a) \in BalanceState
              /\ total(releaseReserved(s, a)) = total(s)
              /\ releaseReserved(s, a).locked = s.locked - a
<1>1. s.available \in Nat /\ s.locked \in Nat
  BY DEF BalanceState
<1>2. total(s) \in Nat
  BY <1>1 DEF total
<1>3. /\ credit(s, a) \in BalanceState
      /\ total(credit(s, a)) = total(s) + a
      /\ credit(s, a).locked = s.locked
  BY <1>1 DEF BalanceState, credit, total
<1>4. CanDebit(s, a) =>
        /\ debit(s, a) \in BalanceState
        /\ total(debit(s, a)) = total(s) - a
        /\ debit(s, a).locked = s.locked
  BY <1>1 DEF BalanceState, CanDebit, debit, total
<1>5. CanReserve(s, a) =>
        /\ reserve(s, a) \in BalanceState
        /\ total(reserve(s, a)) = total(s)
        /\ reserve(s, a).locked = s.locked + a
  BY <1>1 DEF BalanceState, CanReserve, reserve, total
<1>6. CanSettle(s, a) =>
        /\ commitReserved(s, a) \in BalanceState
        /\ total(commitReserved(s, a)) = total(s) - a
        /\ commitReserved(s, a).locked = s.locked - a
  BY <1>1 DEF BalanceState, CanSettle, commitReserved, total
<1>7. CanSettle(s, a) =>
        /\ releaseReserved(s, a) \in BalanceState
        /\ total(releaseReserved(s, a)) = total(s)
        /\ releaseReserved(s, a).locked = s.locked - a
  BY <1>1 DEF BalanceState, CanSettle, releaseReserved, total
<1> QED
  BY <1>1, <1>2, <1>3, <1>4, <1>5, <1>6, <1>7

(* The same of a settlement with its win.                                    *)
LEMMA AfterCommitAlgebra ==
  ASSUME NEW s \in BalanceState, NEW a \in Nat, NEW win \in Nat, CanSettle(s, a)
  PROVE  /\ AfterCommit(s, a, win) \in BalanceState
         /\ total(AfterCommit(s, a, win)) = total(s) - a + win
         /\ AfterCommit(s, a, win).locked = s.locked - a
<1> DEFINE t == commitReserved(s, a)
<1>1. /\ t \in BalanceState /\ total(t) = total(s) - a /\ t.locked = s.locked - a
      /\ total(s) \in Nat
  BY Algebra
<1>2. /\ credit(t, win) \in BalanceState
      /\ total(credit(t, win)) = total(t) + win
      /\ credit(t, win).locked = t.locked
  BY <1>1, Algebra
<1>3. total(t) \in Nat
  BY <1>1, Algebra
<1> HIDE DEF t
<1>4. CASE win > 0
  BY <1>1, <1>2, <1>3, <1>4 DEF AfterCommit, t
<1>5. CASE ~(win > 0)
  BY <1>1, <1>3, <1>5 DEF AfterCommit, t
<1> QED
  BY <1>4, <1>5
-----------------------------------------------------------------------------
(* One more reservation.                                                     *)
LEMMA OneMore ==
  ASSUME NEW S, NEW s \in Seq(S), NEW e \in S
  PROVE  /\ Append(s, e) \in Seq(S)
         /\ DOMAIN s = 1 .. Len(s)
         /\ Len(s) \in Nat
         /\ DOMAIN Append(s, e) = DOMAIN s \cup {Len(s) + 1}
         /\ Len(s) + 1 \notin DOMAIN s
         /\ \A i \in DOMAIN s : Append(s, e)[i] = s[i]
         /\ Append(s, e)[Len(s) + 1] = e
  OBVIOUS

(* The operations keep every balance, reservation and key typed: in          *)
(* particular no balance is ever negative.                                   *)
THEOREM TypeCorrect == Spec => []TypeOK
<1>1. Init => TypeOK
  BY DEF Init, TypeOK, emptyBalance, BalanceState
<1>2. TypeOK /\ [Next]_vars => TypeOK'
  <2> SUFFICES ASSUME TypeOK, [Next]_vars
               PROVE  TypeOK'
    OBVIOUS
  <2>t. /\ \A a \in Amounts : a \in Nat
        /\ \A w \in Wallets : wallets[w] \in BalanceState
        /\ system.house \in Int /\ system.external \in Int
        /\ \A i \in DOMAIN reservations : reservations[i] \in Reservation
    BY WalletCoreAssumption DEF TypeOK
  <2>r. \A i \in DOMAIN reservations :
          reservations[i].wallet \in Wallets /\ reservations[i].amount \in Amounts
    BY <2>t DEF Reservation
  <2>k. \A k \in Keys \cup {NoKey} : Idempotent(k) => processed' \in SUBSET Keys
    BY DEF Idempotent, TypeOK
  <2>1. ASSUME NEW w \in Wallets, NEW a \in Amounts, Open(w, a)
        PROVE  TypeOK'
    <3>1. credit(wallets[w], a) \in BalanceState
      BY <2>t, Algebra
    <3> QED
      BY <2>1, <2>t, <3>1 DEF TypeOK, Open
  <2>2. ASSUME NEW w \in Wallets, NEW a \in Amounts, NEW k \in Keys \cup {NoKey},
               Credit(w, a, k)
        PROVE  TypeOK'
    <3>1. credit(wallets[w], a) \in BalanceState
      BY <2>t, Algebra
    <3> QED
      BY <2>2, <2>t, <2>k, <3>1 DEF TypeOK, Credit
  <2>3. ASSUME NEW w \in Wallets, NEW a \in Amounts, NEW k \in Keys \cup {NoKey},
               Debit(w, a, k)
        PROVE  TypeOK'
    <3>1. debit(wallets[w], a) \in BalanceState
      BY <2>3, <2>t, Algebra DEF Debit
    <3> QED
      BY <2>3, <2>t, <2>k, <3>1 DEF TypeOK, Debit
  <2>4. ASSUME NEW w \in Wallets, NEW a \in Amounts, NEW k \in Keys \cup {NoKey},
               Reserve(w, a, k)
        PROVE  TypeOK'
    <3> DEFINE r == [wallet |-> w, amount |-> a, status |-> "RESERVED"]
    <3>1. reserve(wallets[w], a) \in BalanceState
      BY <2>4, <2>t, Algebra DEF Reserve
    <3>2. r \in Reservation
      BY DEF Reservation
    <3>3. reservations' \in Seq(Reservation)
      BY <2>4, <3>2, OneMore DEF TypeOK, Reserve
    <3> QED
      BY <2>4, <2>t, <2>k, <3>1, <3>3 DEF TypeOK, Reserve
  <2>5. ASSUME NEW i \in DOMAIN reservations, NEW win \in Amounts \cup {0},
               NEW k \in Keys \cup {NoKey}, Commit(i, win, k)
        PROVE  TypeOK'
    <3> DEFINE r == reservations[i]
               w == r.wallet
               next == AfterCommit(wallets[w], r.amount, win)
    <3>1. w \in Wallets /\ r.amount \in Nat /\ win \in Nat
      BY <2>t, <2>r
    <3>2. next \in BalanceState
      BY <2>5, <2>t, <3>1, AfterCommitAlgebra DEF Commit
    <3>3. [r EXCEPT !.status = "COMMITTED"] \in Reservation
      BY <2>t DEF Reservation
    <3>4. reservations' \in Seq(Reservation)
      BY <2>5, <3>3 DEF TypeOK, Commit
    <3>5. system' \in [house : Int, external : Int]
      BY <2>5, <2>t, <3>1 DEF TypeOK, Commit
    <3> HIDE DEF next
    <3>6. wallets' = [wallets EXCEPT ![w] = next]
      BY <2>5 DEF Commit, next
    <3> QED
      BY <2>5, <2>k, <3>2, <3>4, <3>5, <3>6 DEF TypeOK, Commit
  <2>6. ASSUME NEW i \in DOMAIN reservations, NEW k \in Keys \cup {NoKey}, Release(i, k)
        PROVE  TypeOK'
    <3> DEFINE r == reservations[i]
    <3>1. r.wallet \in Wallets /\ r.amount \in Nat
      BY <2>t, <2>r
    <3>2. releaseReserved(wallets[r.wallet], r.amount) \in BalanceState
      BY <2>6, <2>t, <3>1, Algebra DEF Release
    <3>3. [r EXCEPT !.status = "RELEASED"] \in Reservation
      BY <2>t DEF Reservation
    <3>4. reservations' \in Seq(Reservation)
      BY <2>6, <3>3 DEF TypeOK, Release
    <3> QED
      BY <2>6, <2>k, <3>2, <3>4 DEF TypeOK, Release
  <2>7. ASSUME NEW from \in Wallets, NEW to \in Wallets, NEW a \in Amounts,
               NEW k \in Keys \cup {NoKey}, Transfer(from, to, a, k)
        PROVE  TypeOK'
    <3>1. debit(wallets[from], a) \in BalanceState /\ credit(wallets[to], a) \in BalanceState
      BY <2>7, <2>t, Algebra DEF Transfer
    <3> QED
      BY <2>7, <2>k, <3>1 DEF TypeOK, Transfer
  <2>8. CASE UNCHANGED vars
    BY <2>8 DEF TypeOK, vars
  <2> QED
    BY <2>1, <2>2, <2>3, <2>4, <2>5, <2>6, <2>7, <2>8 DEF Next
<1> QED
  BY <1>1, <1>2, PTL DEF Spec
-----------------------------------------------------------------------------
(* What the wallets ws are worth together.                                   *)
Money(ws) == SumFunctionOnSet([w \in Wallets |-> total(ws[w])], Wallets)

(* One balance changes.                                                      *)
LEMMA MoneyMoves ==
  ASSUME NEW ws \in [Wallets -> BalanceState], NEW w \in Wallets, NEW next \in BalanceState
  PROVE  /\ Money([ws EXCEPT ![w] = next]) = Money(ws) + (total(next) - total(ws[w]))
         /\ Money(ws) \in Int
<1> DEFINE f == [v \in Wallets |-> total(ws[v])]
           g == [v \in Wallets |-> total([ws EXCEPT ![w] = next][v])]
<1>1. \A s \in BalanceState : total(s) \in Int
  BY DEF BalanceState, total
<1>2. /\ \A v \in Wallets : f[v] \in Int /\ g[v] \in Int
      /\ \A v \in Wallets : v # w => g[v] = f[v]
      /\ f[w] = total(ws[w]) /\ g[w] = total(next)
  BY <1>1
<1> HIDE DEF f, g
<1>3. /\ SumFunctionOnSet(g, Wallets) = SumFunctionOnSet(f, Wallets) + (g[w] - f[w])
      /\ SumFunctionOnSet(f, Wallets) \in Int
  BY <1>2, WalletCoreFinite, SumChange
<1> QED
  BY <1>2, <1>3 DEF Money, f, g

(* What is conserved, of the tables of a state.                              *)
Zero(ws, sys) == Money(ws) + sys.house + sys.external = 0

LEMMA IsZero == isConserved <=> Zero(wallets, system)
  BY DEF isConserved, Zero, Money, worth

(* The empty ledger is balanced ...                                          *)
LEMMA ConservedInit == Init => isConserved
<1> SUFFICES ASSUME Init
             PROVE  isConserved
  OBVIOUS
<1>1. \A w \in Wallets : worth[w] = 0
  BY DEF Init, worth, emptyBalance, total
<1>2. SumFunctionOnSet(worth, Wallets) = 0
  BY <1>1, WalletCoreFinite, SumOfZeros
<1> QED
  BY <1>2 DEF Init, isConserved

(* ... and stays so: what a wallet gains or loses a system account, or       *)
(* another wallet, loses or gains.                                           *)
LEMMA ConservedStep == TypeOK /\ isConserved /\ [Next]_vars => isConserved'
<1> SUFFICES ASSUME TypeOK, isConserved, [Next]_vars
             PROVE  Zero(wallets', system')
  BY DEF isConserved, Zero, Money, worth
<1>z. Zero(wallets, system)
  BY IsZero
<1>t. /\ \A a \in Amounts : a \in Nat
      /\ wallets \in [Wallets -> BalanceState]
      /\ \A w \in Wallets : wallets[w] \in BalanceState
      /\ system = [house |-> system.house, external |-> system.external]
      /\ system.house \in Int /\ system.external \in Int
      /\ \A i \in DOMAIN reservations :
           reservations[i].wallet \in Wallets /\ reservations[i].amount \in Nat
  <2>1. \A i \in DOMAIN reservations : reservations[i] \in Reservation
    BY DEF TypeOK
  <2> QED
    BY <2>1, WalletCoreAssumption DEF TypeOK, Reservation
<1>m. ASSUME NEW w \in Wallets, NEW next \in BalanceState, NEW d \in Int,
             wallets' = [wallets EXCEPT ![w] = next],
             total(next) = total(wallets[w]) + d,
             system'.house \in Int, system'.external \in Int,
             system'.house + system'.external = (system.house + system.external) - d
      PROVE  Zero(wallets', system')
  <2>1. Money(wallets') = Money(wallets) + (total(next) - total(wallets[w]))
        /\ Money(wallets) \in Int
    BY <1>m, <1>t, MoneyMoves
  <2>2. total(next) \in Int /\ total(wallets[w]) \in Int
    BY <1>t, Algebra
  <2>3. Money(wallets') = Money(wallets) + d
    BY <1>m, <2>1, <2>2
  <2> QED
    BY <1>m, <1>t, <1>z, <2>1, <2>3 DEF Zero
<1>1. ASSUME NEW w \in Wallets, NEW a \in Amounts, Open(w, a)
      PROVE  Zero(wallets', system')
  <2>1. /\ credit(wallets[w], a) \in BalanceState
        /\ total(credit(wallets[w], a)) = total(wallets[w]) + a
    BY <1>t, Algebra
  <2>2. /\ wallets' = [wallets EXCEPT ![w] = credit(wallets[w], a)]
        /\ system'.house = system.house /\ system'.external = system.external - a
    BY <1>1, <1>t DEF Open
  <2>3. /\ a \in Int
        /\ system'.house + system'.external = (system.house + system.external) - a
        /\ system'.house \in Int /\ system'.external \in Int
    BY <1>t, <2>2
  <2> QED
    BY <1>m, <2>1, <2>2, <2>3
<1>2. ASSUME NEW w \in Wallets, NEW a \in Amounts, NEW k \in Keys \cup {NoKey},
             Credit(w, a, k)
      PROVE  Zero(wallets', system')
  <2>1. /\ credit(wallets[w], a) \in BalanceState
        /\ total(credit(wallets[w], a)) = total(wallets[w]) + a
    BY <1>t, Algebra
  <2>2. /\ wallets' = [wallets EXCEPT ![w] = credit(wallets[w], a)]
        /\ system'.house = system.house /\ system'.external = system.external - a
    BY <1>2, <1>t DEF Credit
  <2>3. /\ a \in Int
        /\ system'.house + system'.external = (system.house + system.external) - a
        /\ system'.house \in Int /\ system'.external \in Int
    BY <1>t, <2>2
  <2> QED
    BY <1>m, <2>1, <2>2, <2>3
<1>3. ASSUME NEW w \in Wallets, NEW a \in Amounts, NEW k \in Keys \cup {NoKey},
             Debit(w, a, k)
      PROVE  Zero(wallets', system')
  <2>1. /\ debit(wallets[w], a) \in BalanceState
        /\ total(debit(wallets[w], a)) = total(wallets[w]) - a
        /\ total(wallets[w]) \in Nat
    BY <1>3, <1>t, Algebra DEF Debit
  <2>2. /\ wallets' = [wallets EXCEPT ![w] = debit(wallets[w], a)]
        /\ system'.house = system.house /\ system'.external = system.external + a
    BY <1>3, <1>t DEF Debit
  <2>3. total(debit(wallets[w], a)) = total(wallets[w]) + (-a) /\ -a \in Int
    BY <1>t, <2>1
  <2>4. system'.house + system'.external = (system.house + system.external) - (-a)
        /\ system'.house \in Int /\ system'.external \in Int
    BY <1>t, <2>2
  <2> QED
    BY <1>m, <2>1, <2>2, <2>3, <2>4
<1>4. ASSUME NEW w \in Wallets, NEW a \in Amounts, NEW k \in Keys \cup {NoKey},
             Reserve(w, a, k)
      PROVE  Zero(wallets', system')
  <2>1. /\ reserve(wallets[w], a) \in BalanceState
        /\ total(reserve(wallets[w], a)) = total(wallets[w])
        /\ total(wallets[w]) \in Nat
    BY <1>4, <1>t, Algebra DEF Reserve
  <2>2. /\ wallets' = [wallets EXCEPT ![w] = reserve(wallets[w], a)]
        /\ system' = system
    BY <1>4 DEF Reserve
  <2>3. /\ total(reserve(wallets[w], a)) = total(wallets[w]) + 0 /\ 0 \in Int
        /\ system'.house + system'.external = (system.house + system.external) - 0
        /\ system'.house \in Int /\ system'.external \in Int
    BY <1>t, <2>1, <2>2
  <2> QED
    BY <1>m, <2>1, <2>2, <2>3
<1>5. ASSUME NEW i \in DOMAIN reservations, NEW win \in Amounts \cup {0},
             NEW k \in Keys \cup {NoKey}, Commit(i, win, k)
      PROVE  Zero(wallets', system')
  <2> DEFINE r    == reservations[i]
             w    == r.wallet
             next == AfterCommit(wallets[w], r.amount, win)
  <2>1. w \in Wallets /\ r.amount \in Nat /\ win \in Nat /\ wallets[w] \in BalanceState
    BY <1>t
  <2>2. /\ next \in BalanceState
        /\ total(next) = total(wallets[w]) - r.amount + win
        /\ total(wallets[w]) \in Nat
    <3>1. CanSettle(wallets[w], r.amount)
      BY <1>5 DEF Commit
    <3>2. total(wallets[w]) \in Nat
      BY <2>1, Algebra
    <3> HIDE DEF r, w
    <3> QED
      BY <2>1, <3>1, <3>2, AfterCommitAlgebra
  <2>3. /\ wallets' = [wallets EXCEPT ![w] = next]
        /\ system'.house = system.house + r.amount - win
        /\ system'.external = system.external
    BY <1>5, <1>t DEF Commit
  <2> HIDE DEF next, w, r
  <2>4. /\ total(next) = total(wallets[w]) + (win - r.amount) /\ win - r.amount \in Int
        /\ system'.house + system'.external
             = (system.house + system.external) - (win - r.amount)
        /\ system'.house \in Int /\ system'.external \in Int
    BY <1>t, <2>1, <2>2, <2>3
  <2> QED
    BY <1>m, <2>1, <2>2, <2>3, <2>4
<1>6. ASSUME NEW i \in DOMAIN reservations, NEW k \in Keys \cup {NoKey}, Release(i, k)
      PROVE  Zero(wallets', system')
  <2> DEFINE r    == reservations[i]
             w    == r.wallet
             next == releaseReserved(wallets[w], r.amount)
  <2>1. w \in Wallets /\ r.amount \in Nat /\ wallets[w] \in BalanceState
    BY <1>t
  <2>2. /\ next \in BalanceState
        /\ total(next) = total(wallets[w])
        /\ total(wallets[w]) \in Nat
    BY <1>6, <2>1, Algebra DEF Release
  <2>3. wallets' = [wallets EXCEPT ![w] = next] /\ system' = system
    BY <1>6 DEF Release
  <2> HIDE DEF next, w, r
  <2>4. /\ total(next) = total(wallets[w]) + 0 /\ 0 \in Int
        /\ system'.house + system'.external = (system.house + system.external) - 0
        /\ system'.house \in Int /\ system'.external \in Int
    BY <1>t, <2>2, <2>3
  <2> QED
    BY <1>m, <2>1, <2>2, <2>3, <2>4
<1>7. ASSUME NEW from \in Wallets, NEW to \in Wallets, NEW a \in Amounts,
             NEW k \in Keys \cup {NoKey}, Transfer(from, to, a, k)
      PROVE  Zero(wallets', system')
  <2> DEFINE less == debit(wallets[from], a)
             more == credit(wallets[to], a)
             half == [wallets EXCEPT ![from] = less]
  <2>1. /\ less \in BalanceState /\ total(less) = total(wallets[from]) - a
        /\ more \in BalanceState /\ total(more) = total(wallets[to]) + a
        /\ total(wallets[from]) \in Nat /\ total(wallets[to]) \in Nat
    BY <1>7, <1>t, Algebra DEF Transfer
  <2>2. from # to /\ system' = system
        /\ wallets' = [wallets EXCEPT ![from] = less, ![to] = more]
    BY <1>7 DEF Transfer
  <2> HIDE DEF less, more
  <2>3. half \in [Wallets -> BalanceState] /\ half[to] = wallets[to]
        /\ wallets' = [half EXCEPT ![to] = more]
    BY <1>t, <2>1, <2>2
  <2>4. /\ Money(half) = Money(wallets) + (total(less) - total(wallets[from]))
        /\ Money(wallets) \in Int
    BY <1>t, <2>1, MoneyMoves
  <2> HIDE DEF half
  <2>5. /\ Money(wallets') = Money(half) + (total(more) - total(half[to]))
        /\ Money(half) \in Int
    BY <2>1, <2>3, MoneyMoves
  <2>6. Money(wallets') = Money(wallets)
    BY <1>t, <2>1, <2>3, <2>4, <2>5
  <2> QED
    BY <1>z, <2>2, <2>6 DEF Zero
<1>8. CASE UNCHANGED vars
  BY <1>z, <1>8 DEF vars
<1> QED
  BY <1>1, <1>2, <1>3, <1>4, <1>5, <1>6, <1>7, <1>8 DEF Next

(* "The books are always conserved": players and system accounts sum up to   *)
(* nothing, whatever was opened, paid, staked, won and moved (engine.ts).    *)
THEOREM ConservationCorrect == Spec => []isConserved
  BY ConservedInit, ConservedStep, TypeCorrect, PTL DEF Spec
-----------------------------------------------------------------------------
(* What the unresolved ones of the reservations rs hold of wallet w.         *)
Stakes(rs) == [i \in DOMAIN rs |-> rs[i].amount]

Unresolved(rs, w) == {i \in DOMAIN rs : rs[i].wallet = w /\ rs[i].status = "RESERVED"}

Held(rs, w) == SumFunctionOnSet(Stakes(rs), Unresolved(rs, w))

LEMMA LockedIsHeld ==
  LockedIsReserved <=> \A w \in Wallets : wallets[w].locked = Held(reservations, w)
  BY DEF LockedIsReserved, Held, Stakes, Unresolved, staked, unresolved

(* It is a finite sum of integers.                                           *)
LEMMA HeldSum ==
  ASSUME NEW rs \in Seq(Reservation), NEW w
  PROVE  /\ IsFiniteSet(Unresolved(rs, w))
         /\ \A i \in DOMAIN rs : Stakes(rs)[i] = rs[i].amount /\ rs[i].amount \in Int
         /\ Unresolved(rs, w) \subseteq DOMAIN rs
         /\ Held(rs, w) \in Int
<1>1. Len(rs) \in Nat /\ DOMAIN rs = 1 .. Len(rs)
  OBVIOUS
<1>2. IsFiniteSet(DOMAIN rs)
  BY <1>1, FS_Interval
<1>3. Unresolved(rs, w) \in SUBSET DOMAIN rs
  BY DEF Unresolved
<1>4. IsFiniteSet(Unresolved(rs, w))
  BY <1>2, <1>3, FS_Subset
<1>5. \A i \in DOMAIN rs : Stakes(rs)[i] = rs[i].amount /\ rs[i].amount \in Int
  <2>1. \A i \in DOMAIN rs : rs[i] \in Reservation
    OBVIOUS
  <2>2. \A i \in DOMAIN rs : rs[i].amount \in Amounts
    BY <2>1 DEF Reservation
  <2>3. \A i \in DOMAIN rs : Stakes(rs)[i] = rs[i].amount
    BY DEF Stakes
  <2>4. \A a \in Amounts : a \in Int
    BY WalletCoreAssumption
  <2> QED
    BY <2>2, <2>3, <2>4
<1>6. \A i \in Unresolved(rs, w) : Stakes(rs)[i] \in Int
  BY <1>3, <1>5
<1> QED
  BY <1>3, <1>4, <1>5, <1>6, SumIsInt DEF Held

(* A new reservation is held of its wallet and of no other.                  *)
LEMMA HeldMore ==
  ASSUME NEW rs \in Seq(Reservation), NEW r \in Reservation, r.status = "RESERVED",
         NEW w \in Wallets
  PROVE  Held(Append(rs, r), w) =
           IF w = r.wallet THEN Held(rs, w) + r.amount ELSE Held(rs, w)
<1> DEFINE more == Append(rs, r)
           n == Len(rs) + 1
           S == Unresolved(rs, w)
<1>1. /\ more \in Seq(Reservation)
      /\ DOMAIN more = DOMAIN rs \cup {n}
      /\ n \notin DOMAIN rs
      /\ \A i \in DOMAIN rs : more[i] = rs[i]
      /\ more[n] = r
  BY OneMore
<1> HIDE DEF more, n
<1>2. /\ IsFiniteSet(S) /\ S \subseteq DOMAIN rs
      /\ \A i \in S : Stakes(more)[i] = Stakes(rs)[i]
      /\ \A i \in S \cup {n} : Stakes(more)[i] \in Int
      /\ Stakes(more)[n] = r.amount
  <2>1. /\ IsFiniteSet(S) /\ S \subseteq DOMAIN rs
        /\ \A i \in DOMAIN rs : Stakes(rs)[i] = rs[i].amount
    BY HeldSum
  <2>2. /\ \A i \in DOMAIN rs : Stakes(more)[i] = rs[i].amount
        /\ Stakes(more)[n] = r.amount
    BY <1>1 DEF Stakes
  <2>3. \A i \in DOMAIN more : Stakes(more)[i] \in Int
    <3>1. \A i \in DOMAIN more : Stakes(more)[i] = more[i].amount /\ more[i].amount \in Int
      BY <1>1, HeldSum
    <3> QED
      BY <3>1
  <2> HIDE DEF S
  <2> QED
    BY <1>1, <2>1, <2>2, <2>3
<1>3. SumFunctionOnSet(Stakes(more), S) = Held(rs, w)
  BY <1>2, SumSame DEF Held
<1>4. CASE w = r.wallet
  <2>1. Unresolved(more, w) = S \cup {n} /\ n \notin S
    BY <1>1, <1>4 DEF Unresolved
  <2> DEFINE f == Stakes(more)
  <2>f. /\ IsFiniteSet(S) /\ n \notin S
        /\ \A i \in S \cup {n} : f[i] \in Int
    BY <1>2, <2>1
  <2> HIDE DEF f, S
  <2>2. SumFunctionOnSet(f, S \cup {n}) = SumFunctionOnSet(f, S) + f[n]
    BY <2>f, SumWith
  <2> USE DEF f
  <2>3. Held(more, w) = SumFunctionOnSet(Stakes(more), S \cup {n})
    BY <2>1 DEF Held
  <2>4. Held(more, w) = Held(rs, w) + r.amount
    BY <1>2, <1>3, <2>2, <2>3
  <2> QED
    BY <1>4, <2>4 DEF more
<1>5. CASE w # r.wallet
  <2>1. Unresolved(more, w) = S
    BY <1>1, <1>5 DEF Unresolved
  <2>2. Held(more, w) = Held(rs, w)
    BY <1>3, <2>1 DEF Held
  <2> QED
    BY <1>5, <2>2 DEF more
<1> QED
  BY <1>4, <1>5

(* A resolved one is no longer held of its wallet; the others stay as held.  *)
LEMMA HeldLess ==
  ASSUME NEW rs \in Seq(Reservation), NEW i \in DOMAIN rs, rs[i].status = "RESERVED",
         NEW st \in {"COMMITTED", "RELEASED"}, NEW w \in Wallets
  PROVE  Held([rs EXCEPT ![i].status = st], w) =
           IF w = rs[i].wallet THEN Held(rs, w) - rs[i].amount ELSE Held(rs, w)
<1> DEFINE less == [rs EXCEPT ![i].status = st]
           S == Unresolved(rs, w)
<1>0. rs[i] \in Reservation
  OBVIOUS
<1>1. /\ DOMAIN less = DOMAIN rs
      /\ \A j \in DOMAIN rs : j # i => less[j] = rs[j]
      /\ less[i].status = st /\ less[i].amount = rs[i].amount
  BY <1>0 DEF Reservation
<1> HIDE DEF less
<1>2. Stakes(less) = Stakes(rs)
  <2>1. \A j \in DOMAIN rs : less[j].amount = rs[j].amount
    BY <1>1
  <2> QED
    BY <1>1, <2>1 DEF Stakes
<1>3. Unresolved(less, w) = S \ {i}
  BY <1>1 DEF Unresolved
<1>4. /\ IsFiniteSet(S) /\ \A j \in S : Stakes(rs)[j] \in Int
      /\ Stakes(rs)[i] = rs[i].amount /\ rs[i].amount \in Int
  BY HeldSum
<1>5. CASE w = rs[i].wallet
  <2>1. i \in S
    BY <1>5 DEF Unresolved
  <2> HIDE DEF S
  <2>2. SumFunctionOnSet(Stakes(rs), S) = rs[i].amount + SumFunctionOnSet(Stakes(rs), S \ {i})
    BY <1>4, <2>1, SumWithout
  <2>3. SumFunctionOnSet(Stakes(rs), S \ {i}) \in Int
    BY <1>4, FS_RemoveElement, SumIsInt
  <2>4. Held(rs, w) = rs[i].amount + Held(less, w) /\ Held(less, w) \in Int
    BY <1>2, <1>3, <2>2, <2>3 DEF Held, S
  <2>5. Held(less, w) = Held(rs, w) - rs[i].amount
    BY <1>4, <2>4
  <2> QED
    BY <1>5, <2>5 DEF less
<1>6. CASE w # rs[i].wallet
  <2>1. Unresolved(less, w) = S
    BY <1>3, <1>6 DEF Unresolved
  <2>2. Held(less, w) = Held(rs, w)
    BY <1>2, <2>1 DEF Held
  <2> QED
    BY <1>6, <2>2 DEF less
<1> QED
  BY <1>5, <1>6

(* Money is locked with a reservation and leaves with it.                    *)
LEMMA LockedStep == TypeOK /\ LockedIsReserved /\ [Next]_vars => LockedIsReserved'
<1> SUFFICES ASSUME TypeOK, LockedIsReserved, [Next]_vars
             PROVE  \A v \in Wallets : wallets'[v].locked = Held(reservations', v)
  BY DEF LockedIsReserved, Held, Stakes, Unresolved, staked, unresolved
<1>h. \A v \in Wallets : wallets[v].locked = Held(reservations, v)
  BY LockedIsHeld
<1>t. /\ \A a \in Amounts : a \in Nat
      /\ wallets \in [Wallets -> BalanceState]
      /\ \A w \in Wallets : wallets[w] \in BalanceState
      /\ reservations \in Seq(Reservation)
      /\ \A i \in DOMAIN reservations :
           reservations[i].wallet \in Wallets /\ reservations[i].amount \in Nat
  <2>1. \A i \in DOMAIN reservations : reservations[i] \in Reservation
    BY DEF TypeOK
  <2> QED
    BY <2>1, WalletCoreAssumption DEF TypeOK, Reservation
<1> DEFINE Goal == \A v \in Wallets : wallets'[v].locked = Held(reservations', v)
<1>a. ASSUME NEW w \in Wallets, NEW next, wallets' = [wallets EXCEPT ![w] = next],
             next.locked = wallets[w].locked, reservations' = reservations
      PROVE  Goal
  BY <1>a, <1>h, <1>t
<1>1. ASSUME NEW w \in Wallets, NEW a \in Amounts, Open(w, a)
      PROVE  Goal
  <2> DEFINE next == credit(wallets[w], a)
  <2>1. /\ wallets' = [wallets EXCEPT ![w] = next]
        /\ reservations' = reservations
    BY <1>1 DEF Open
  <2>2. next.locked = wallets[w].locked
    BY <1>t, <2>1, Algebra
  <2> HIDE DEF next
  <2> QED
    BY <1>a, <2>1, <2>2
<1>2. ASSUME NEW w \in Wallets, NEW a \in Amounts, NEW k \in Keys \cup {NoKey},
             Credit(w, a, k)
      PROVE  Goal
  <2> DEFINE next == credit(wallets[w], a)
  <2>1. /\ wallets' = [wallets EXCEPT ![w] = next]
        /\ reservations' = reservations
    BY <1>2 DEF Credit
  <2>2. next.locked = wallets[w].locked
    BY <1>t, <2>1, Algebra
  <2> HIDE DEF next
  <2> QED
    BY <1>a, <2>1, <2>2
<1>3. ASSUME NEW w \in Wallets, NEW a \in Amounts, NEW k \in Keys \cup {NoKey},
             Debit(w, a, k)
      PROVE  Goal
  <2> DEFINE next == debit(wallets[w], a)
  <2>1. /\ wallets' = [wallets EXCEPT ![w] = next]
        /\ CanDebit(wallets[w], a)
        /\ reservations' = reservations
    BY <1>3 DEF Debit
  <2>2. next.locked = wallets[w].locked
    BY <1>t, <2>1, Algebra
  <2> HIDE DEF next
  <2> QED
    BY <1>a, <2>1, <2>2
<1>4. ASSUME NEW w \in Wallets, NEW a \in Amounts, NEW k \in Keys \cup {NoKey},
             Reserve(w, a, k)
      PROVE  Goal
  <2> DEFINE r == [wallet |-> w, amount |-> a, status |-> "RESERVED"]
             next == reserve(wallets[w], a)
  <2>1. /\ wallets' = [wallets EXCEPT ![w] = next]
        /\ reservations' = Append(reservations, r)
    BY <1>4 DEF Reserve
  <2>2. next.locked = wallets[w].locked + a
    BY <1>4, <1>t, Algebra DEF Reserve
  <2>3. r \in Reservation /\ r.status = "RESERVED" /\ r.wallet = w /\ r.amount = a
    BY DEF Reservation
  <2> HIDE DEF r, next
  <2>4. \A v \in Wallets : Held(reservations', v) =
          IF v = w THEN Held(reservations, v) + a ELSE Held(reservations, v)
    BY <1>t, <2>1, <2>3, HeldMore
  <2> QED
    BY <1>h, <1>t, <2>1, <2>2, <2>4
<1>5. ASSUME NEW i \in DOMAIN reservations, NEW next, NEW st \in {"COMMITTED", "RELEASED"},
             reservations[i].status = "RESERVED",
             wallets' = [wallets EXCEPT ![reservations[i].wallet] = next],
             next.locked = wallets[reservations[i].wallet].locked - reservations[i].amount,
             reservations' = [reservations EXCEPT ![i].status = st]
      PROVE  Goal
  <2>1. \A v \in Wallets : Held(reservations', v) =
          IF v = reservations[i].wallet THEN Held(reservations, v) - reservations[i].amount
                                        ELSE Held(reservations, v)
    BY <1>t, <1>5, HeldLess
  <2> QED
    BY <1>h, <1>t, <1>5, <2>1
<1>6. ASSUME NEW i \in DOMAIN reservations, NEW win \in Amounts \cup {0},
             NEW k \in Keys \cup {NoKey}, Commit(i, win, k)
      PROVE  Goal
  <2> DEFINE r    == reservations[i]
             w    == r.wallet
             next == AfterCommit(wallets[w], r.amount, win)
  <2>1. /\ wallets' = [wallets EXCEPT ![w] = next]
        /\ reservations' = [reservations EXCEPT ![i].status = "COMMITTED"]
        /\ r.status = "RESERVED"
        /\ CanSettle(wallets[w], r.amount)
    BY <1>6 DEF Commit
  <2>2. next.locked = wallets[w].locked - r.amount
    <3>1. w \in Wallets /\ r.amount \in Nat /\ win \in Nat /\ wallets[w] \in BalanceState
      BY <1>t
    <3> HIDE DEF r, w
    <3> QED
      BY <2>1, <3>1, AfterCommitAlgebra
  <2> HIDE DEF next
  <2> QED
    BY <2>1, <2>2, <1>5
<1>7. ASSUME NEW i \in DOMAIN reservations, NEW k \in Keys \cup {NoKey}, Release(i, k)
      PROVE  Goal
  <2> DEFINE r    == reservations[i]
             w    == r.wallet
             next == releaseReserved(wallets[w], r.amount)
  <2>1. /\ wallets' = [wallets EXCEPT ![w] = next]
        /\ reservations' = [reservations EXCEPT ![i].status = "RELEASED"]
        /\ r.status = "RESERVED"
        /\ CanSettle(wallets[w], r.amount)
    BY <1>7 DEF Release
  <2>2. next.locked = wallets[w].locked - r.amount
    BY <1>t, <2>1, Algebra
  <2> HIDE DEF next
  <2> QED
    BY <2>1, <2>2, <1>5
<1>8. ASSUME NEW from \in Wallets, NEW to \in Wallets, NEW a \in Amounts,
             NEW k \in Keys \cup {NoKey}, Transfer(from, to, a, k)
      PROVE  Goal
  <2> DEFINE less == debit(wallets[from], a)
             more == credit(wallets[to], a)
  <2>1. less.locked = wallets[from].locked /\ more.locked = wallets[to].locked
    BY <1>8, <1>t, Algebra DEF Transfer
  <2>2. /\ wallets' = [wallets EXCEPT ![from] = less, ![to] = more]
        /\ reservations' = reservations
    BY <1>8 DEF Transfer
  <2> HIDE DEF less, more
  <2> QED
    BY <1>h, <1>t, <2>1, <2>2
<1>9. ASSUME UNCHANGED vars
      PROVE  Goal
  BY <1>9, <1>h DEF vars
<1> HIDE DEF Goal
<1>10. Goal
  BY <1>1, <1>2, <1>3, <1>4, <1>6, <1>7, <1>8, <1>9 DEF Next
<1> QED
  BY <1>10 DEF Goal

(* The locked part of every balance is its unresolved reservations, so each  *)
(* of them can be settled or returned.                                       *)
THEOREM LockedCorrect == Spec => []LockedIsReserved
<1>1. Init => LockedIsReserved
  <2> SUFFICES ASSUME Init, NEW w \in Wallets
               PROVE  wallets[w].locked = SumFunctionOnSet(staked, unresolved(w))
    BY DEF LockedIsReserved
  <2>1. unresolved(w) = {} /\ wallets[w].locked = 0
    BY DEF Init, unresolved, emptyBalance
  <2> QED
    BY <2>1, SumOfNothing
<1> QED
  BY <1>1, LockedStep, TypeCorrect, PTL DEF Spec
=============================================================================

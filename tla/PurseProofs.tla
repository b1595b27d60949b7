----------------------------- MODULE PurseProofs -----------------------------
(***************************************************************************)
(* Theorems about coin, experience and henchmen for any characters, rooms, *)
(* prices, fees and rewards.                                               *)
(***************************************************************************)
EXTENDS Purse, FiniteSetTheorems, TLAPS

Books == VaultIsCredited /\ ExperienceIsEarned
Bonds == EmployedLive /\ FollowersKeepUp

LEMMA ConstantsAre ==
    /\ {Bank, Trader, Tavern, Bailey} \subseteq Rooms /\ Nowhere \notin Rooms
    /\ Nobody \notin Characters /\ Follow \in Orders
    /\ \A i \in Items : Value[i] \in Nat /\ Payout(i) \in Nat
    /\ \A h \in Retainers : HireFee[h] \in Nat
    /\ \A n \in Rewards : n \in Nat
    /\ NoCorpse \in [room : Rooms \cup {Nowhere}, owner : Characters \cup {Nobody}, coin : Nat]
BY PurseAssumption DEF Payout, NoCorpse

(* Experience *)

\* What is granted is entered: the credited total rises to what is secured, and by as
\* much as the experience does.
LEMMA SecureKeepsBooks ==
    ASSUME TypeOK, ExperienceIsEarned, NEW c \in Characters, NEW total \in Nat, Secure(c, total)
    PROVE  /\ xp' \in [Characters -> Nat] /\ credited' \in [Characters -> Nat]
           /\ credited'[c] >= total
           /\ \A d \in Characters : credited'[d] >= credited[d]
           /\ ExperienceIsEarned'
<1>1. xp \in [Characters -> Nat] /\ credited \in [Characters -> Nat]
  BY DEF TypeOK
<1>2. Grant(c, total) \in Nat /\ xp[c] + Grant(c, total) <= IF total > credited[c] THEN total ELSE credited[c]
  BY <1>1 DEF Grant, ExperienceIsEarned
<1> QED
  BY <1>1, <1>2 DEF Secure, ExperienceIsEarned

\* The same of a recall, whatever the death has cost before.
LEMMA RecallKeepsBooks ==
    ASSUME TypeOK, Books, NEW c \in Characters, Recall(c)
    PROVE  /\ xp' \in [Characters -> Nat] /\ credited' = credited
           /\ xp'[c] <= xp[c] /\ \A d \in Characters : xp'[d] <= xp[d]
<1> DEFINE total == Secured(c, Bailey, 0, bank[c])
<1>1. xp \in [Characters -> Nat] /\ credited \in [Characters -> Nat] /\ bank \in [Characters -> Nat]
  BY DEF TypeOK
<1>2. total = bank[c] /\ bank[c] <= credited[c]
  BY <1>1 DEF Secured, Books, VaultIsCredited
<1>3. Grant(c, total) = 0
  BY <1>1, <1>2 DEF Grant
<1>4. Humbled(c) \in Nat /\ Humbled(c) <= xp[c]
  BY <1>1, PurseAssumption DEF Humbled
<1>5. /\ xp' = [xp EXCEPT ![c] = Humbled(c) + Grant(c, total)]
      /\ credited' = [credited EXCEPT ![c] = IF total > credited[c] THEN total ELSE credited[c]]
  BY DEF Recall
<1> HIDE DEF total
<1>6. xp' = [xp EXCEPT ![c] = Humbled(c)]
  <2>1. Humbled(c) + Grant(c, total) = Humbled(c)
    BY <1>3, <1>4
  <2> QED
    BY <1>5, <2>1
<1>7. credited' = credited
  BY <1>1, <1>2, <1>5
<1> QED
  BY <1>1, <1>4, <1>6, <1>7

(* Companies *)

\* A party that only shrinks stays within its cap.
LEMMA ShrinkingPartyKeepsCap ==
    ASSUME RetainersWithinCap, \A h \in Retainers : employer'[h] \in {employer[h], Nobody}
    PROVE  RetainersWithinCap'
<1> SUFFICES ASSUME NEW c \in Characters PROVE Cardinality(Party(c)') <= Cap[c]
  BY DEF RetainersWithinCap
<1>1. Party(c)' \subseteq Party(c)
  BY PurseAssumption DEF Party
<1>2. IsFiniteSet(Party(c))
  BY PurseAssumption, FS_Subset DEF Party
<1>3. Cardinality(Party(c)') <= Cardinality(Party(c)) /\ Cardinality(Party(c)') \in Nat /\ Cardinality(Party(c)) \in Nat
  BY <1>1, <1>2, FS_Subset, FS_CardinalityType
<1> QED
  BY <1>3, PurseAssumption DEF RetainersWithinCap

\* When c goes to a room of the world those who follow him come along.
LEMMA FollowersCome ==
    ASSUME TypeOK, Bonds, NEW c \in Characters, NEW room \in Rooms,
           place' = [place EXCEPT ![c] = room],
           post' = [h \in Retainers |-> IF h \in Followers(c) THEN room ELSE post[h]],
           UNCHANGED <<employer, order>>
    PROVE  /\ Bonds' /\ place' \in [Characters -> Rooms \cup {Nowhere}]
           /\ post' \in [Retainers -> Rooms \cup {Nowhere}]
<1>1. place' \in [Characters -> Rooms \cup {Nowhere}] /\ post' \in [Retainers -> Rooms \cup {Nowhere}]
  BY DEF TypeOK
<1>2. ASSUME NEW h \in Retainers, employer[h] # Nobody
      PROVE  /\ place'[employer[h]] \in Rooms /\ post'[h] # Nowhere
             /\ order[h] = Follow => post'[h] = place'[employer[h]]
  <2>1. /\ employer[h] \in Characters /\ place[employer[h]] \in Rooms /\ post[h] # Nowhere
        /\ order[h] = Follow => post[h] = place[employer[h]]
    BY <1>2 DEF Bonds, EmployedLive, FollowersKeepUp, Alive, TypeOK
  <2>2. h \in Followers(c) <=> employer[h] = c /\ order[h] = Follow
    BY <2>1 DEF Followers, TypeOK, Bonds
  <2>3. CASE h \in Followers(c)
    BY <2>1, <2>2, <2>3, ConstantsAre DEF TypeOK
  <2>4. CASE h \notin Followers(c)
    BY <2>1, <2>2, <2>4, ConstantsAre DEF TypeOK
  <2> QED
    BY <2>3, <2>4
<1> QED
  BY <1>1, <1>2 DEF Bonds, EmployedLive, FollowersKeepUp, Alive

LEMMA CompanyAtRest ==
    ASSUME IInv, UNCHANGED <<place, company>> PROVE Bonds' /\ RetainersWithinCap'
<1>1. UNCHANGED <<place, employer, order, post>>
  BY DEF company
<1>2. Bonds'
  BY <1>1 DEF IInv, Bonds, EmployedLive, FollowersKeepUp, Alive
<1>3. RetainersWithinCap'
  BY <1>1, ShrinkingPartyKeepsCap DEF IInv
<1> QED
  BY <1>2, <1>3

LEMMA Joined == IInv' <=> TypeOK' /\ Books' /\ Bonds' /\ RetainersWithinCap'
BY DEF IInv, Books, Bonds

-----------------------------------------------------------------------------
(* One lemma per action that moves more than a coin *)

LEMMA WalkKeeps ==
    ASSUME IInv, NEW c \in Characters, NEW room \in Rooms, Walk(c, room) PROVE IInv'
<1>1. TypeOK /\ Books /\ Bonds /\ RetainersWithinCap
  BY DEF IInv, Books, Bonds
<1>2. UNCHANGED <<coin, bank, holder, corpse, employer, order, won, house, lost>>
  BY DEF Walk, purse, history
<1>3. Bonds' /\ place' \in [Characters -> Rooms \cup {Nowhere}] /\ post' \in [Retainers -> Rooms \cup {Nowhere}]
  BY <1>1, <1>2, FollowersCome DEF Walk, Arrive
<1>4. RetainersWithinCap'
  BY <1>1, <1>2, ShrinkingPartyKeepsCap
<1>5. Books' /\ xp' \in [Characters -> Nat] /\ credited' \in [Characters -> Nat]
  <2>1. CASE room \in Keep
    <3>1. Secured(c, room, coin[c], bank[c]) \in Nat
      BY <1>1 DEF TypeOK, Secured
    <3>2. Secure(c, Secured(c, room, coin[c], bank[c]))
      BY <2>1 DEF Walk, Arrive
    <3>3. /\ xp' \in [Characters -> Nat] /\ credited' \in [Characters -> Nat]
          /\ \A d \in Characters : credited'[d] >= credited[d]
          /\ ExperienceIsEarned'
      BY <1>1, <3>1, <3>2, SecureKeepsBooks DEF Books
    <3>4. VaultIsCredited'
      BY <1>1, <1>2, <3>3 DEF Books, VaultIsCredited, TypeOK
    <3> QED
      BY <3>3, <3>4 DEF Books
  <2>2. CASE room \notin Keep
    BY <1>1, <1>2, <2>2 DEF Walk, Arrive, lore, Books, VaultIsCredited, ExperienceIsEarned, TypeOK
  <2> QED
    BY <2>1, <2>2
<1>6. TypeOK'
  BY <1>1, <1>2, <1>3, <1>5 DEF TypeOK
<1> QED
  BY <1>3, <1>4, <1>5, <1>6, Joined

LEMMA BuryIsSound ==
    ASSUME TypeOK, NEW c \in Characters, NEW g \in Corpses, Alive(c), Bury(c, g)
    PROVE  /\ corpse' \in [Corpses -> [room : Rooms \cup {Nowhere}, owner : Characters \cup {Nobody}, coin : Nat]]
           /\ holder' \in [Items -> Characters \cup Corpses \cup {Nowhere}]
           /\ coin' \in [Characters -> Nat]
BY DEF TypeOK, Bury, Alive

LEMMA DieKeeps ==
    ASSUME IInv, NEW c \in Characters, NEW g \in Corpses, Die(c, g) PROVE IInv'
<1>1. TypeOK /\ Books /\ Bonds /\ RetainersWithinCap
  BY DEF IInv, Books, Bonds
<1>2. UNCHANGED <<bank, employer, order, won, house, lost>> /\ Alive(c) /\ Bury(c, g) /\ Recall(c)
  BY DEF Die, history
<1>3. Bonds' /\ place' \in [Characters -> Rooms \cup {Nowhere}] /\ post' \in [Retainers -> Rooms \cup {Nowhere}]
  BY <1>1, <1>2, ConstantsAre, FollowersCome DEF Recall
<1>4. RetainersWithinCap'
  BY <1>1, <1>2, ShrinkingPartyKeepsCap
<1>5. xp' \in [Characters -> Nat] /\ credited' = credited /\ \A d \in Characters : xp'[d] <= xp[d]
  BY <1>1, <1>2, RecallKeepsBooks
<1>6. Books'
  BY <1>1, <1>2, <1>5 DEF Books, VaultIsCredited, ExperienceIsEarned, TypeOK
<1>7. TypeOK'
  BY <1>1, <1>2, <1>3, <1>5, BuryIsSound DEF TypeOK
<1> QED
  BY <1>3, <1>4, <1>6, <1>7, Joined

LEMMA DieForGoodKeeps ==
    ASSUME IInv, NEW c \in Characters, NEW g \in Corpses, DieForGood(c, g) PROVE IInv'
<1>1. TypeOK /\ Books /\ Bonds /\ RetainersWithinCap
  BY DEF IInv, Books, Bonds
<1>2. /\ UNCHANGED <<xp, credited, order, post, won, house>> /\ Alive(c) /\ Bury(c, g)
      /\ place' = [place EXCEPT ![c] = Nowhere]
      /\ bank' = [bank EXCEPT ![c] = 0] /\ lost' = lost + bank[c]
      /\ employer' = [h \in Retainers |-> IF employer[h] = c THEN Nobody ELSE employer[h]]
  BY DEF DieForGood, lore
<1>3. Bonds'
  BY <1>1, <1>2, ConstantsAre DEF Bonds, EmployedLive, FollowersKeepUp, Alive, TypeOK
<1>4. RetainersWithinCap'
  BY <1>1, <1>2, ShrinkingPartyKeepsCap
<1>5. Books'
  BY <1>1, <1>2 DEF Books, VaultIsCredited, ExperienceIsEarned, TypeOK
<1>6. TypeOK'
  BY <1>1, <1>2, BuryIsSound DEF TypeOK
<1> QED
  BY <1>3, <1>4, <1>5, <1>6, Joined

LEMMA DepositKeeps ==
    ASSUME IInv, NEW c \in Characters, NEW n \in 1 .. MaxWon, Deposit(c, n) PROVE IInv'
<1> DEFINE total == Secured(c, place[c], coin[c] - n, bank[c] + n)
<1>1. TypeOK /\ Books /\ n \in Nat /\ n <= coin[c] /\ coin[c] \in Nat /\ bank[c] \in Nat
  BY PurseAssumption DEF IInv, Books, Deposit, TypeOK
<1>2. /\ UNCHANGED <<place, holder, corpse, employer, order, post, won, house, lost>>
      /\ coin' = [coin EXCEPT ![c] = @ - n] /\ bank' = [bank EXCEPT ![c] = @ + n]
      /\ Secure(c, total)
  BY DEF Deposit, company, history
<1>3. total \in Nat /\ total >= bank[c] + n
  BY <1>1 DEF Secured
<1> HIDE DEF total
<1>4. /\ xp' \in [Characters -> Nat] /\ credited' \in [Characters -> Nat]
      /\ credited'[c] >= total /\ ExperienceIsEarned'
      /\ \A d \in Characters : credited'[d] >= credited[d]
  BY <1>1, <1>2, <1>3, SecureKeepsBooks DEF Books
<1>5. VaultIsCredited'
  <2> SUFFICES ASSUME NEW d \in Characters PROVE bank'[d] <= credited'[d]
    BY DEF VaultIsCredited
  <2>0. bank[d] <= credited[d] /\ bank[d] \in Nat /\ credited[d] \in Nat /\ credited'[d] \in Nat /\ credited'[c] \in Nat
    BY <1>1, <1>4 DEF Books, VaultIsCredited, TypeOK
  <2>1. CASE d = c
    BY <1>1, <1>2, <1>3, <1>4, <2>0, <2>1 DEF TypeOK
  <2>2. CASE d # c
    BY <1>2, <1>4, <2>0, <2>2 DEF TypeOK
  <2> QED
    BY <1>1, <2>1, <2>2 DEF TypeOK
<1>6. coin' \in [Characters -> Nat] /\ bank' \in [Characters -> Nat]
  BY <1>1, <1>2 DEF TypeOK
<1>7. TypeOK'
  BY <1>1, <1>2, <1>4, <1>6 DEF TypeOK
<1>8. Bonds' /\ RetainersWithinCap'
  BY <1>2, CompanyAtRest DEF company
<1> QED
  BY <1>4, <1>5, <1>7, <1>8, Joined DEF Books

LEMMA HireKeeps ==
    ASSUME IInv, NEW c \in Characters, NEW h \in Retainers, Hire(c, h) PROVE IInv'
<1>1. TypeOK /\ Books /\ Bonds /\ RetainersWithinCap
  BY DEF IInv, Books, Bonds
<1>2. /\ UNCHANGED <<place, bank, xp, credited, holder, corpse, won, lost>>
      /\ place[c] = Tavern /\ post[h] = Nowhere /\ Cardinality(Party(c)) < Cap[c]
      /\ coin[c] >= HireFee[h] /\ coin' = [coin EXCEPT ![c] = @ - HireFee[h]] /\ house' = house + HireFee[h]
      /\ employer' = [employer EXCEPT ![h] = c] /\ order' = [order EXCEPT ![h] = Follow]
      /\ post' = [post EXCEPT ![h] = Tavern]
  BY DEF Hire, HasRoom, Spend, lore
<1>3. employer[h] = Nobody
  BY <1>1, <1>2 DEF Bonds, EmployedLive
<1>4. RetainersWithinCap'
  <2> SUFFICES ASSUME NEW d \in Characters PROVE Cardinality(Party(d)') <= Cap[d]
    BY DEF RetainersWithinCap
  <2>1. IsFiniteSet(Party(d)) /\ Cardinality(Party(d)) \in Nat /\ Cap[d] \in Nat
    <3>1. Party(d) \subseteq Retainers
      BY DEF Party
    <3> QED
      BY <3>1, PurseAssumption, FS_Subset, FS_CardinalityType
  <2>2. CASE d = c
    <3>1. Party(d)' = Party(d) \cup {h} /\ h \notin Party(d)
      BY <1>1, <1>2, <1>3, <2>2, ConstantsAre DEF Party, TypeOK
    <3>2. Cardinality(Party(d)') = Cardinality(Party(d)) + 1
      BY <2>1, <3>1, FS_AddElement
    <3> QED
      BY <1>2, <2>1, <2>2, <3>2
  <2>3. CASE d # c
    <3>1. Party(d)' = Party(d)
      BY <1>1, <1>2, <1>3, <2>3, ConstantsAre DEF Party, TypeOK
    <3> QED
      BY <1>1, <3>1 DEF RetainersWithinCap
  <2> QED
    BY <2>2, <2>3
<1>5. Bonds'
  BY <1>1, <1>2, ConstantsAre DEF Bonds, EmployedLive, FollowersKeepUp, Alive, TypeOK
<1>6. Books'
  BY <1>1, <1>2 DEF Books, VaultIsCredited, ExperienceIsEarned
<1>7. TypeOK'
  BY <1>1, <1>2, ConstantsAre DEF TypeOK
<1> QED
  BY <1>4, <1>5, <1>6, <1>7, Joined

\* What moves coin and goods and leaves vaults and lore as they are.
LEMMA TradeKeeps ==
    ASSUME IInv, NEW c \in Characters,
           \/ \E n \in Rewards : Reward(c, n)
           \/ \E i \in Items : Find(c, i) \/ Buy(c, i) \/ Sell(c, i)
           \/ \E g \in Corpses : Loot(c, g)
    PROVE  IInv'
<1>1. TypeOK /\ Books
  BY DEF IInv, Books
<1>2. UNCHANGED <<place, bank, xp, credited, employer, order, post>>
  BY DEF Reward, Find, Buy, Sell, Loot, purse, lore, company
<1>3. Books'
  BY <1>1, <1>2 DEF Books, VaultIsCredited, ExperienceIsEarned
<1>4. Bonds' /\ RetainersWithinCap'
  BY <1>2, CompanyAtRest DEF company
<1>5. TypeOK'
  <2>1. ASSUME NEW n \in Rewards, Reward(c, n) PROVE TypeOK'
    BY <1>1, <1>2, <2>1, ConstantsAre DEF Reward, Receive, TypeOK
  <2>2. ASSUME NEW i \in Items, Find(c, i) PROVE TypeOK'
    BY <1>1, <1>2, <2>2 DEF Find, purse, history, TypeOK
  <2>3. ASSUME NEW i \in Items, Buy(c, i) PROVE TypeOK'
    BY <1>1, <1>2, <2>3, ConstantsAre DEF Buy, Spend, TypeOK
  <2>4. ASSUME NEW i \in Items, Sell(c, i) PROVE TypeOK'
    <3> DEFINE p == Payout(i)
    <3>1. p \in Nat /\ coin[c] \in Nat /\ won[c] \in Nat /\ house \in Int
      BY <1>1, ConstantsAre DEF TypeOK
    <3>2. /\ coin' = [coin EXCEPT ![c] = @ + p] /\ won' = [won EXCEPT ![c] = @ + p] /\ house' = house - p /\ lost' = lost
          /\ corpse' = corpse /\ holder' = [holder EXCEPT ![i] = Nowhere]
      BY <2>4 DEF Sell, Receive
    <3> HIDE DEF p
    <3> QED
      BY <1>1, <1>2, <3>1, <3>2 DEF TypeOK
  <2>5. ASSUME NEW g \in Corpses, Loot(c, g) PROVE TypeOK'
    <3> DEFINE n == corpse[g].coin
    <3>1. n \in Nat
      BY <1>1 DEF TypeOK
    <3>2. /\ coin' = [coin EXCEPT ![c] = @ + n]
          /\ won' = [won EXCEPT ![c] = IF corpse[g].owner = c THEN @ ELSE @ + n]
          /\ corpse' = [corpse EXCEPT ![g] = NoCorpse] /\ house' = house /\ lost' = lost
          /\ holder' = [i \in Items |-> IF holder[i] = g THEN c ELSE holder[i]]
      BY <2>5 DEF Loot
    <3> HIDE DEF n
    <3> QED
      BY <1>1, <1>2, <3>1, <3>2, ConstantsAre DEF TypeOK
  <2> QED
    BY <2>1, <2>2, <2>3, <2>4, <2>5
<1> QED
  BY <1>3, <1>4, <1>5, Joined

LEMMA WithdrawKeeps ==
    ASSUME IInv, NEW c \in Characters, NEW n \in 1 .. MaxWon, Withdraw(c, n) PROVE IInv'
<1>1. TypeOK /\ Books /\ n \in Nat
  BY PurseAssumption DEF IInv, Books
<1>2. /\ UNCHANGED <<place, xp, credited, holder, corpse, employer, order, post, won, house, lost>>
      /\ n <= bank[c] /\ coin' = [coin EXCEPT ![c] = @ + n] /\ bank' = [bank EXCEPT ![c] = @ - n]
  BY DEF Withdraw, lore, company, history
<1>3. Books'
  BY <1>1, <1>2 DEF Books, VaultIsCredited, ExperienceIsEarned, TypeOK
<1>4. TypeOK'
  BY <1>1, <1>2 DEF TypeOK
<1>5. Bonds' /\ RetainersWithinCap'
  BY <1>2, CompanyAtRest DEF company
<1> QED
  BY <1>3, <1>4, <1>5, Joined

\* Orders, dismissals and the death of a henchman.
LEMMA CompanyChanges ==
    ASSUME IInv, NEW h \in Retainers,
           \/ \E c \in Characters : Dismiss(c, h) \/ \E o \in Orders : Order(c, h, o)
           \/ HenchmanDies(h)
    PROVE  IInv'
<1>1. TypeOK /\ Books /\ Bonds /\ RetainersWithinCap
  BY DEF IInv, Books, Bonds
<1>2. UNCHANGED <<place, coin, bank, xp, credited, holder, corpse, won, house, lost>>
  BY DEF Dismiss, Order, HenchmanDies, purse, lore, history
<1>3. Books'
  BY <1>1, <1>2 DEF Books, VaultIsCredited, ExperienceIsEarned
<1>4. ASSUME NEW c \in Characters, NEW o \in Orders, Order(c, h, o)
      PROVE TypeOK' /\ Bonds' /\ RetainersWithinCap'
  <2>1. /\ employer' = employer /\ post' = post /\ order' = [order EXCEPT ![h] = o]
        /\ employer[h] = c /\ post[h] = place[c]
    BY <1>4 DEF Order
  <2>2. RetainersWithinCap'
    BY <1>1, <2>1, ShrinkingPartyKeepsCap
  <2> QED
    BY <1>1, <1>2, <2>1, <2>2 DEF TypeOK, Bonds, EmployedLive, FollowersKeepUp, Alive
<1>5. ASSUME \/ \E c \in Characters : Dismiss(c, h)
             \/ HenchmanDies(h)
      PROVE TypeOK' /\ Bonds' /\ RetainersWithinCap'
  <2>1. /\ employer' = [employer EXCEPT ![h] = Nobody] /\ order' = [order EXCEPT ![h] = Follow]
        /\ post' = post \/ post' = [post EXCEPT ![h] = Nowhere]
    BY <1>5 DEF Dismiss, HenchmanDies
  <2>2. TypeOK'
    BY <1>1, <1>2, <2>1, ConstantsAre DEF TypeOK
  <2>3. RetainersWithinCap'
    BY <1>1, <2>1, ShrinkingPartyKeepsCap DEF TypeOK
  <2>4. Bonds'
    BY <1>1, <1>2, <2>1 DEF Bonds, EmployedLive, FollowersKeepUp, Alive, TypeOK
  <2> QED
    BY <2>2, <2>3, <2>4
<1> QED
  BY <1>3, <1>4, <1>5, Joined

-----------------------------------------------------------------------------
LEMMA InitIsSound == Init => IInv
<1> SUFFICES ASSUME Init PROVE IInv
  OBVIOUS
<1>1. TypeOK /\ VaultIsCredited /\ ExperienceIsEarned
  BY ConstantsAre DEF Init, TypeOK, VaultIsCredited, ExperienceIsEarned
<1>2. EmployedLive /\ FollowersKeepUp
  BY DEF Init, EmployedLive, FollowersKeepUp
<1>3. RetainersWithinCap
  <2> SUFFICES ASSUME NEW c \in Characters PROVE Cardinality(Party(c)) <= Cap[c]
    BY DEF RetainersWithinCap
  <2>1. Party(c) = {}
    BY ConstantsAre DEF Init, Party
  <2> QED
    BY <2>1, FS_EmptySet, PurseAssumption
<1> QED
  BY <1>1, <1>2, <1>3 DEF IInv

LEMMA StepIsSound == IInv /\ [Next]_vars => IInv'
<1> SUFFICES ASSUME IInv, [Next]_vars PROVE IInv'
  OBVIOUS
<1>1. ASSUME NEW c \in Characters, NEW n \in Rewards, Reward(c, n) PROVE IInv'
  BY <1>1, TradeKeeps
<1>2. ASSUME NEW c \in Characters, NEW i \in Items, Find(c, i) \/ Buy(c, i) \/ Sell(c, i) PROVE IInv'
  BY <1>2, TradeKeeps
<1>3. ASSUME NEW c \in Characters, NEW n \in 1 .. MaxWon, Deposit(c, n) \/ Withdraw(c, n) PROVE IInv'
  BY <1>3, DepositKeeps, WithdrawKeeps
<1>4. ASSUME NEW c \in Characters, NEW room \in Rooms, Walk(c, room) PROVE IInv'
  BY <1>4, WalkKeeps
<1>5. ASSUME NEW c \in Characters, NEW g \in Corpses, Die(c, g) \/ DieForGood(c, g) PROVE IInv'
  BY <1>5, DieKeeps, DieForGoodKeeps
<1>6. ASSUME NEW c \in Characters, NEW g \in Corpses, Loot(c, g) PROVE IInv'
  BY <1>6, TradeKeeps
<1>7. ASSUME NEW c \in Characters, NEW h \in Retainers, Hire(c, h) PROVE IInv'
  BY <1>7, HireKeeps
<1>8. ASSUME NEW c \in Characters, NEW h \in Retainers,
             Dismiss(c, h) \/ \E o \in Orders : Order(c, h, o) PROVE IInv'
  BY <1>8, CompanyChanges
<1>9. ASSUME NEW h \in Retainers, HenchmanDies(h) PROVE IInv'
  BY <1>9, CompanyChanges
<1>10. CASE UNCHANGED vars
  <2>1. TypeOK' /\ Books'
    BY <1>10 DEF vars, purse, lore, company, history, IInv, TypeOK, Books, VaultIsCredited, ExperienceIsEarned
  <2>2. Bonds' /\ RetainersWithinCap'
    BY <1>10, CompanyAtRest DEF vars
  <2> QED
    BY <2>1, <2>2, Joined
<1> QED
  BY <1>1, <1>2, <1>3, <1>4, <1>5, <1>6, <1>7, <1>8, <1>9, <1>10 DEF Next

-----------------------------------------------------------------------------
(* Theorems *)

\* Coin, credit, corpses and companies stay in agreement through every command, walk,
\* death and looting.
THEOREM Inductive == Spec => []IInv
BY InitIsSound, StepIsSound, PTL DEF Spec

\* Every variable keeps its type; no pocket and no vault is ever overdrawn.
THEOREM TypeCorrect == Spec => []TypeOK
<1>1. IInv => TypeOK
  BY DEF IInv
<1> QED
  BY <1>1, Inductive, PTL

\* A henchman told to follow is where his employer is.
THEOREM FollowersAreThere == Spec => []FollowersKeepUp
<1>1. IInv => FollowersKeepUp
  BY DEF IInv
<1> QED
  BY <1>1, Inductive, PTL

\* Experience never exceeds the treasure credited, and vaults hold nothing uncredited.
THEOREM ExperienceIsBacked == Spec => [](ExperienceIsEarned /\ VaultIsCredited)
<1>1. IInv => ExperienceIsEarned /\ VaultIsCredited
  BY DEF IInv
<1> QED
  BY <1>1, Inductive, PTL

\* Nobody leads more henchmen than his charisma allows.
THEOREM CapHolds == Spec => []RetainersWithinCap
<1>1. IInv => RetainersWithinCap
  BY DEF IInv
<1> QED
  BY <1>1, Inductive, PTL

\* A death buries all that was carried, leaves the vault of one who comes back alone and
\* secures nothing (at_death).
THEOREM DeathIsNoWayHome == Spec => DeathSecuresNothing
<1> DEFINE Claim(c, g) ==
      corpse[g] = NoCorpse /\ corpse'[g].owner = c =>
          /\ xp'[c] <= xp[c] /\ (c \notin Hardcore => bank'[c] = bank[c])
          /\ coin'[c] = 0 /\ corpse'[g].coin = coin[c]
          /\ \A i \in Items : holder'[i] # c
<1>1. IInv /\ [Next]_vars => [\A c \in Characters, g \in Corpses : Claim(c, g)]_vars
  <2> SUFFICES ASSUME IInv, Next, NEW c \in Characters, NEW g \in Corpses,
                      corpse[g] = NoCorpse, corpse'[g].owner = c
               PROVE  Claim(c, g)
    OBVIOUS
  <2>0. TypeOK /\ Books /\ NoCorpse.owner = Nobody /\ c # Nobody
    BY ConstantsAre DEF IInv, Books, NoCorpse
  <2>1. PICK d \in Characters, k \in Corpses : Bury(d, k) /\ (Die(d, k) \/ DieForGood(d, k))
    <3>1. corpse' # corpse
      BY <2>0
    <3>2. ASSUME NEW d \in Characters, NEW k \in Corpses, Loot(d, k) PROVE FALSE
      BY <2>0, <3>2 DEF Loot, TypeOK
    <3> QED
      BY <3>1, <3>2 DEF Next, Reward, Find, Buy, Sell, Deposit, Withdraw, Walk, Die, DieForGood,
                        Hire, Dismiss, Order, HenchmanDies
  <2>2. k = g /\ d = c
    BY <2>0, <2>1 DEF Bury, TypeOK
  <2>3. coin'[c] = 0 /\ corpse'[g].coin = coin[c]
    BY <2>0, <2>1, <2>2 DEF Bury, TypeOK
  <2>4. ASSUME NEW i \in Items PROVE holder'[i] # c
    BY <2>0, <2>1, <2>2, PurseAssumption DEF Bury, TypeOK
  <2>5. xp'[c] <= xp[c] /\ (c \notin Hardcore => bank'[c] = bank[c])
    <3>1. CASE Die(d, k)
      BY <2>0, <2>2, <3>1, RecallKeepsBooks DEF Die
    <3>2. CASE DieForGood(d, k)
      BY <2>0, <2>2, <3>2 DEF DieForGood, lore, TypeOK
    <3> QED
      BY <2>1, <3>1, <3>2
  <2> QED
    BY <2>3, <2>4, <2>5
<1> QED
  BY <1>1, Inductive, PTL DEF Spec, DeathSecuresNothing

-----------------------------------------------------------------------------
(* Sums *)

\* What holds of a set whenever it holds of the set less any one of its elements holds of every finite set.
LEMMA SubsetInduction ==
    ASSUME NEW S, IsFiniteSet(S), NEW Good \in SUBSET (SUBSET S),
           \A s \in SUBSET S : (\A x \in s : s \ {x} \in Good) => s \in Good
    PROVE  SUBSET S \subseteq Good
<1> DEFINE Bad == (SUBSET S) \ Good
           R == StrictSubsetOrdering(S)
<1>1. IsWellFoundedOn(R, SUBSET S)
  BY FS_StrictSubsetOrderingWellFounded, FS_FiniteSubsetsOfFinite
<1>2. ASSUME NEW b \in Bad, \A y \in Bad : <<y, b>> \notin R PROVE FALSE
  <2>1. ASSUME NEW x \in b PROVE b \ {x} \in Good
    <3>1. b \ {x} \in SUBSET S /\ <<b \ {x}, b>> \in R
      BY <1>2 DEF StrictSubsetOrdering
    <3> QED
      BY <1>2, <3>1
  <2> QED
    BY <1>2, <2>1
<1>3. Bad = {}
  <2> SUFFICES ASSUME Bad # {} PROVE FALSE
    OBVIOUS
  <2> HIDE DEF R
  <2>1. Bad \subseteq SUBSET S
    OBVIOUS
  <2> HIDE DEF Bad
  <2>2. \E b \in Bad : \A y \in Bad : ~ (<<y, b>> \in R)
    BY <1>1, <2>1, WFMin
  <2> QED
    BY <2>2, <1>2
<1> QED
  BY <1>3

\* The coins of a family of heaps, one by one.
Coins(f, S) == {t \in S \X (Nat \ {0}) : t[2] <= f[t[1]]}

LEMMA OneHeapMore ==
    ASSUME NEW S, NEW f, NEW x, x \notin S, f[x] \in Nat, IsFiniteSet(Coins(f, S))
    PROVE  /\ IsFiniteSet(Coins(f, S \cup {x}))
           /\ Cardinality(Coins(f, S \cup {x})) = f[x] + Cardinality(Coins(f, S))
<1> DEFINE heap == {x} \X (1 .. f[x])
<1>1. Coins(f, S \cup {x}) = Coins(f, S) \cup heap
  BY DEF Coins
<1>2. Coins(f, S) \cap heap = {}
  BY DEF Coins
<1>3. IsFiniteSet(heap) /\ Cardinality(heap) = f[x]
  <2>1. IsFiniteSet({x}) /\ Cardinality({x}) = 1
    BY FS_Singleton
  <2>2. IsFiniteSet(1 .. f[x]) /\ Cardinality(1 .. f[x]) = f[x]
    BY FS_Interval
  <2>3. IsFiniteSet(heap) /\ Cardinality(heap) = Cardinality({x}) * Cardinality(1 .. f[x])
    BY <2>1, <2>2, FS_Product
  <2>4. Cardinality(heap) = 1 * f[x]
    BY <2>1, <2>2, <2>3
  <2> QED
    BY <2>3, <2>4
<1> HIDE DEF heap
<1>4. Cardinality(Coins(f, S)) \in Nat
  BY FS_CardinalityType
<1>5. /\ IsFiniteSet(Coins(f, S) \cup heap)
      /\ Cardinality(Coins(f, S) \cup heap) =
            Cardinality(Coins(f, S)) + Cardinality(heap) - Cardinality(Coins(f, S) \cap heap)
  BY <1>3, FS_Union
<1>6. Cardinality(Coins(f, S) \cap heap) = 0
  BY <1>2, FS_EmptySet
<1>7. Cardinality(Coins(f, S) \cup heap) = f[x] + Cardinality(Coins(f, S))
  BY <1>3, <1>4, <1>5, <1>6
<1> QED
  BY <1>1, <1>5, <1>7

LEMMA CoinsAreFinite ==
    ASSUME NEW S, IsFiniteSet(S), NEW f, \A x \in S : f[x] \in Nat
    PROVE  \A s \in SUBSET S : IsFiniteSet(Coins(f, s))
<1> DEFINE Good == {s \in SUBSET S : IsFiniteSet(Coins(f, s))}
<1>1. {} \in Good
  <2>1. Coins(f, {}) = {}
    BY DEF Coins
  <2> QED
    BY <2>1, FS_EmptySet
<1>2. ASSUME NEW s \in SUBSET S, \A x \in s : s \ {x} \in Good PROVE s \in Good
  <2>1. CASE s = {}
    BY <1>1, <2>1
  <2>2. ASSUME NEW x \in s PROVE s \in Good
    <3>1. s = (s \ {x}) \cup {x} /\ x \notin s \ {x} /\ f[x] \in Nat
      OBVIOUS
    <3> QED
      BY <1>2, <3>1, OneHeapMore
  <2> QED
    BY <2>1, <2>2
<1>3. Good \in SUBSET (SUBSET S)
  OBVIOUS
<1> HIDE DEF Good
<1>4. SUBSET S \subseteq Good
  BY <1>1, <1>2, <1>3, SubsetInduction
<1> QED
  BY <1>4 DEF Good

\* Total counts coins.
LEMMA TotalCounts ==
    ASSUME NEW S, IsFiniteSet(S), NEW f \in [S -> Nat]
    PROVE  /\ IsFiniteSet(Coins(f, S))
           /\ Total(f) = Cardinality(Coins(f, S))
<1> DEFINE Def(g) == [s \in SUBSET S |->
                        IF s = {} THEN 0
                        ELSE f[CHOOSE x \in s : TRUE] + g[s \ {CHOOSE x \in s : TRUE}]]
           count == [s \in SUBSET S |-> Cardinality(Coins(f, s))]
           iter == CHOOSE g : g = Def(g)
<1>1. \A s \in SUBSET S : IsFiniteSet(Coins(f, s))
  BY CoinsAreFinite
<1>2. Total(f) = iter[S]
  BY DEF Total, FoldFunction, FoldFunctionOnSet, MapThenFoldSet
<1>3. \A s \in SUBSET S : \A x \in s : count[s] = f[x] + count[s \ {x}]
  <2> TAKE s \in SUBSET S
  <2> TAKE x \in s
  <2>1. s = (s \ {x}) \cup {x} /\ x \notin s \ {x} /\ f[x] \in Nat /\ s \ {x} \in SUBSET S
    OBVIOUS
  <2> QED
    BY <1>1, <2>1, OneHeapMore
<1>4. count[{}] = 0
  <2>1. Coins(f, {}) = {}
    BY DEF Coins
  <2> QED
    BY <2>1, FS_EmptySet
<1>5. count = Def(count)
  <2>1. ASSUME NEW s \in SUBSET S, s # {}
        PROVE  count[s] = f[CHOOSE x \in s : TRUE] + count[s \ {CHOOSE x \in s : TRUE}]
    <3>1. (CHOOSE x \in s : TRUE) \in s
      BY <2>1
    <3> QED
      BY <1>3, <3>1
  <2>2. \A s \in SUBSET S : count[s] = Def(count)[s]
    BY <1>4, <2>1
  <2> QED
    BY <2>2
<1>6. iter = Def(iter)
  <2> HIDE DEF count
  <2>1. \E g : g = Def(g)
    BY <1>5
  <2> QED
    BY <2>1
<1> HIDE DEF count, iter
<1> DEFINE Good == {s \in SUBSET S : iter[s] = count[s]}
<1>7. {} \in Good
  BY <1>4, <1>6
<1>8. ASSUME NEW s \in SUBSET S, \A x \in s : s \ {x} \in Good PROVE s \in Good
  <2>1. CASE s = {}
    BY <1>7, <2>1
  <2>2. CASE s # {}
    <3> DEFINE x == CHOOSE x \in s : TRUE
    <3>1. x \in s
      BY <2>2
    <3>2. iter[s] = f[x] + iter[s \ {x}]
      BY <1>6, <2>2
    <3>3. iter[s \ {x}] = count[s \ {x}]
      BY <1>8, <3>1
    <3>4. count[s] = f[x] + count[s \ {x}]
      BY <1>3, <3>1
    <3> QED
      BY <3>2, <3>3, <3>4
  <2> QED
    BY <2>1, <2>2
<1>9. Good \in SUBSET (SUBSET S)
  OBVIOUS
<1> HIDE DEF Good
<1>10. S \in Good
  BY <1>7, <1>8, <1>9, SubsetInduction
<1> QED
  BY <1>1, <1>2, <1>10 DEF Good, count

\* A sum of which one heap changes.
LEMMA TotalMoves ==
    ASSUME NEW S, IsFiniteSet(S), NEW f \in [S -> Nat], NEW g \in [S -> Nat], NEW x \in S,
           \A y \in S \ {x} : g[y] = f[y]
    PROVE  /\ Total(f) \in Nat /\ Total(g) \in Nat
           /\ Total(g) = Total(f) - f[x] + g[x]
<1> DEFINE rest == S \ {x}
<1>1. S = rest \cup {x} /\ x \notin rest /\ IsFiniteSet(rest)
  BY FS_RemoveElement
<1>2. Coins(f, rest) = Coins(g, rest)
  BY DEF Coins
<1>3. IsFiniteSet(Coins(f, rest))
  BY CoinsAreFinite
<1>4. Total(f) = f[x] + Cardinality(Coins(f, rest)) /\ Total(g) = g[x] + Cardinality(Coins(f, rest))
  <2>1. Total(f) = Cardinality(Coins(f, S)) /\ Total(g) = Cardinality(Coins(g, S))
    BY TotalCounts
  <2> HIDE DEF rest
  <2>2. Cardinality(Coins(f, rest \cup {x})) = f[x] + Cardinality(Coins(f, rest))
    BY <1>1, <1>3, OneHeapMore
  <2>3. Cardinality(Coins(g, rest \cup {x})) = g[x] + Cardinality(Coins(g, rest))
    BY <1>1, <1>2, <1>3, OneHeapMore
  <2> QED
    BY <1>1, <1>2, <2>1, <2>2, <2>3
<1>5. Cardinality(Coins(f, rest)) \in Nat
  BY <1>3, FS_CardinalityType
<1> QED
  BY <1>4, <1>5

LEMMA TotalOfNothing ==
    ASSUME NEW S, IsFiniteSet(S)
    PROVE  Total([x \in S |-> 0]) = 0
<1>1. Coins([x \in S |-> 0], S) = {}
  BY DEF Coins
<1> QED
  BY <1>1, TotalCounts, FS_EmptySet

LEMMA TotalIsNat ==
    ASSUME NEW S, IsFiniteSet(S), NEW f \in [S -> Nat]
    PROVE  Total(f) \in Nat
BY TotalCounts, FS_CardinalityType

-----------------------------------------------------------------------------
(* The ledger *)

Graves == [g \in Corpses |-> corpse[g].coin]

\* Everything that is summed.
LEMMA Summands ==
    ASSUME TypeOK
    PROVE  /\ IsFiniteSet(Characters) /\ IsFiniteSet(Corpses)
           /\ coin \in [Characters -> Nat] /\ bank \in [Characters -> Nat]
           /\ Graves \in [Corpses -> Nat] /\ \A c \in Characters : Buried(c) \in [Corpses -> Nat]
           /\ Total(coin) \in Nat /\ Total(bank) \in Nat /\ Total(Graves) \in Nat
           /\ \A c \in Characters : Total(Buried(c)) \in Nat
           /\ won \in [Characters -> Nat] /\ credited \in [Characters -> Nat] /\ house \in Int /\ lost \in Nat
<1>1. /\ IsFiniteSet(Characters) /\ IsFiniteSet(Corpses)
      /\ coin \in [Characters -> Nat] /\ bank \in [Characters -> Nat]
      /\ won \in [Characters -> Nat] /\ credited \in [Characters -> Nat] /\ house \in Int /\ lost \in Nat
  BY PurseAssumption DEF TypeOK
<1>2. \A g \in Corpses : corpse[g].coin \in Nat
  BY DEF TypeOK
<1>3. Graves \in [Corpses -> Nat] /\ \A c \in Characters : Buried(c) \in [Corpses -> Nat]
  BY <1>2 DEF Graves, Buried
<1> QED
  BY <1>1, <1>3, TotalIsNat

\* The ledger, written out.
LEMMA LedgerIs ==
    Ledger <=> /\ Total(coin) + Total(bank) + Total(Graves) + lost + house = 0
               /\ \A c \in Characters : /\ coin[c] + bank[c] + Total(Buried(c)) <= won[c]
                                         /\ credited[c] <= won[c]
BY DEF Ledger, NoCoinFromNothing, HeldWasWon, CreditWasWon, Graves

LEMMA NextLedgerIs ==
    Ledger' <=> /\ Total(coin') + Total(bank') + Total(Graves') + lost' + house' = 0
                /\ \A c \in Characters : /\ coin'[c] + bank'[c] + Total(Buried(c)') <= won'[c]
                                          /\ credited'[c] <= won'[c]
BY DEF Ledger, NoCoinFromNothing, HeldWasWon, CreditWasWon, Graves

\* A pocket, or a vault, in which n coins more, or less, are.
LEMMA PocketMoves ==
    ASSUME TypeOK, TypeOK', NEW c \in Characters, \A d \in Characters \ {c} : coin'[d] = coin[d]
    PROVE  Total(coin') = Total(coin) - coin[c] + coin'[c]
<1>1. IsFiniteSet(Characters) /\ coin \in [Characters -> Nat] /\ coin' \in [Characters -> Nat]
  BY PurseAssumption DEF TypeOK
<1> QED
  BY <1>1, TotalMoves

LEMMA VaultMoves ==
    ASSUME TypeOK, TypeOK', NEW c \in Characters, \A d \in Characters \ {c} : bank'[d] = bank[d]
    PROVE  Total(bank') = Total(bank) - bank[c] + bank'[c]
<1>1. IsFiniteSet(Characters) /\ bank \in [Characters -> Nat] /\ bank' \in [Characters -> Nat]
  BY PurseAssumption DEF TypeOK
<1> QED
  BY <1>1, TotalMoves

\* Coin that comes from outside or goes there: the pocket and the house agree.
LEMMA TradeBalances ==
    ASSUME TypeOK, TypeOK', Ledger, NEW c \in Characters,
           house' = house - (coin'[c] - coin[c]),
           \A d \in Characters \ {c} : coin'[d] = coin[d] /\ won'[d] = won[d],
           \/ coin'[c] <= coin[c] /\ won'[c] = won[c]
           \/ coin'[c] >= coin[c] /\ won'[c] = won[c] + (coin'[c] - coin[c]),
           UNCHANGED <<bank, corpse, credited, lost>>
    PROVE  Ledger'
<1>1. Graves' = Graves /\ \A d \in Characters : Buried(d)' = Buried(d)
  BY DEF Graves, Buried
<1>2. \A d \in Characters : coin'[d] \in Nat
  BY DEF TypeOK
<1>3. Total(coin') + Total(bank') + Total(Graves') + lost' + house' = 0
  <2>1. Total(coin') = Total(coin) - coin[c] + coin'[c]
    BY PocketMoves
  <2>2. /\ coin[c] \in Nat /\ Total(coin) \in Nat /\ Total(bank) \in Nat /\ Total(Graves) \in Nat
        /\ house \in Int /\ lost \in Nat
        /\ Total(coin) + Total(bank) + Total(Graves) + lost + house = 0
    BY Summands, LedgerIs
  <2> QED
    BY <1>1, <1>2, <2>1, <2>2
<1>4. ASSUME NEW d \in Characters
      PROVE  coin'[d] + bank'[d] + Total(Buried(d)') <= won'[d] /\ credited'[d] <= won'[d]
  <2>1. /\ coin[d] \in Nat /\ bank[d] \in Nat /\ Total(Buried(d)) \in Nat /\ won[d] \in Nat
        /\ credited[d] \in Nat
        /\ coin[d] + bank[d] + Total(Buried(d)) <= won[d] /\ credited[d] <= won[d]
    BY Summands, LedgerIs
  <2> QED
    BY <1>1, <1>2, <2>1
<1> QED
  BY <1>3, <1>4, NextLedgerIs

LEMMA Received ==
    ASSUME TypeOK, TypeOK', Ledger, NEW c \in Characters, NEW n \in Nat, Receive(c, n),
           UNCHANGED <<bank, corpse, credited>>
    PROVE  Ledger'
<1>1. /\ coin'[c] = coin[c] + n /\ won'[c] = won[c] + n /\ house' = house - n /\ coin[c] \in Nat
      /\ \A d \in Characters \ {c} : coin'[d] = coin[d] /\ won'[d] = won[d]
      /\ lost' = lost
  BY DEF Receive, TypeOK
<1>2. coin'[c] - coin[c] = n /\ coin'[c] >= coin[c]
  BY <1>1
<1> QED
  BY <1>1, <1>2, TradeBalances

LEMMA Spent ==
    ASSUME TypeOK, TypeOK', Ledger, NEW c \in Characters, NEW n \in Nat, Spend(c, n),
           UNCHANGED <<bank, corpse, credited>>
    PROVE  Ledger'
<1>1. /\ coin'[c] = coin[c] - n /\ house' = house + n /\ coin[c] \in Nat /\ house \in Int
      /\ \A d \in Characters \ {c} : coin'[d] = coin[d] /\ won'[d] = won[d]
      /\ lost' = lost /\ won' = won
  BY DEF Spend, TypeOK
<1>2. house' = house - (coin'[c] - coin[c]) /\ coin'[c] <= coin[c]
  BY <1>1
<1> QED
  BY <1>1, <1>2, TradeBalances

\* Coin that goes into the vault or comes from it, and what is credited on the way.
LEMMA BankingBalances ==
    ASSUME TypeOK, TypeOK', Ledger, NEW c \in Characters,
           coin'[c] + bank'[c] = coin[c] + bank[c],
           \A d \in Characters \ {c} : coin'[d] = coin[d] /\ bank'[d] = bank[d],
           \A d \in Characters : credited'[d] <= credited[d] \/ credited'[d] <= coin[d] + bank[d],
           UNCHANGED <<corpse, won, house, lost>>
    PROVE  Ledger'
<1>1. Graves' = Graves /\ \A d \in Characters : Buried(d)' = Buried(d)
  BY DEF Graves, Buried
<1>2. \A d \in Characters : coin'[d] \in Nat /\ bank'[d] \in Nat /\ credited'[d] \in Nat
  BY DEF TypeOK
<1>3. Total(coin') + Total(bank') + Total(Graves') + lost' + house' = 0
  <2>1. /\ Total(coin') = Total(coin) - coin[c] + coin'[c]
        /\ Total(bank') = Total(bank) - bank[c] + bank'[c]
    BY PocketMoves, VaultMoves
  <2>2. /\ coin[c] \in Nat /\ bank[c] \in Nat
        /\ Total(coin) \in Nat /\ Total(bank) \in Nat /\ Total(Graves) \in Nat
        /\ house \in Int /\ lost \in Nat
        /\ Total(coin) + Total(bank) + Total(Graves) + lost + house = 0
    BY Summands, LedgerIs
  <2> QED
    BY <1>1, <1>2, <2>1, <2>2
<1>4. ASSUME NEW d \in Characters
      PROVE  coin'[d] + bank'[d] + Total(Buried(d)') <= won'[d] /\ credited'[d] <= won'[d]
  <2>1. /\ coin[d] \in Nat /\ bank[d] \in Nat /\ Total(Buried(d)) \in Nat /\ won[d] \in Nat
        /\ credited[d] \in Nat
        /\ coin[d] + bank[d] + Total(Buried(d)) <= won[d] /\ credited[d] <= won[d]
    BY Summands, LedgerIs
  <2>2. coin'[d] + bank'[d] = coin[d] + bank[d]
    BY <2>1
  <2>3. credited'[d] <= credited[d] \/ credited'[d] <= coin[d] + bank[d]
    OBVIOUS
  <2>4. Total(Buried(d)') = Total(Buried(d)) /\ won'[d] = won[d]
    BY <1>1
  <2> QED
    BY <1>2, <2>1, <2>2, <2>3, <2>4
<1> QED
  BY <1>3, <1>4, NextLedgerIs

\* Coin that goes from a pocket into a corpse, or back.
LEMMA GraveBalances ==
    ASSUME TypeOK, TypeOK', Ledger, NEW c \in Characters, NEW g \in Corpses,
           \A d \in Characters \ {c} : coin'[d] = coin[d],
           \A k \in Corpses \ {g} : corpse'[k] = corpse[k],
           coin'[c] + corpse'[g].coin = coin[c] + corpse[g].coin,
           \A d \in Characters :
              coin'[d] + Total(Buried(d)') + won[d] <= coin[d] + Total(Buried(d)) + won'[d],
           \A d \in Characters : won'[d] >= won[d],
           Total(bank') + lost' = Total(bank) + lost,
           \A d \in Characters : bank'[d] <= bank[d],
           UNCHANGED <<credited, house>>
    PROVE  Ledger'
<1>1. /\ coin' \in [Characters -> Nat] /\ Graves' \in [Corpses -> Nat]
      /\ won' \in [Characters -> Nat] /\ \A d \in Characters : Buried(d)' \in [Corpses -> Nat]
  BY DEF TypeOK, Graves, Buried
<1>2. Total(coin') = Total(coin) - coin[c] + coin'[c]
  BY PocketMoves
<1>3. Total(Graves') = Total(Graves) - corpse[g].coin + corpse'[g].coin
  <2>1. /\ \A k \in Corpses \ {g} : Graves'[k] = Graves[k]
        /\ Graves[g] = corpse[g].coin /\ Graves'[g] = corpse'[g].coin
    BY DEF Graves
  <2>2. IsFiniteSet(Corpses) /\ Graves \in [Corpses -> Nat]
    BY Summands
  <2>3. Total(Graves') = Total(Graves) - Graves[g] + Graves'[g]
    BY <1>1, <2>1, <2>2, TotalMoves
  <2> QED
    BY <2>1, <2>3
<1>4. /\ coin[c] \in Nat /\ coin'[c] \in Nat /\ corpse[g].coin \in Nat /\ corpse'[g].coin \in Nat
  BY DEF TypeOK
<1>5. Total(coin') + Total(bank') + Total(Graves') + lost' + house' = 0
  <2>1. /\ Total(coin) \in Nat /\ Total(bank) \in Nat /\ Total(Graves) \in Nat
        /\ house \in Int /\ lost \in Nat
        /\ Total(coin) + Total(bank) + Total(Graves) + lost + house = 0
    BY Summands, LedgerIs
  <2>2. Total(bank') + lost' = Total(bank) + lost /\ house' = house
    OBVIOUS
  <2>3. Total(bank') \in Nat /\ lost' \in Nat
    BY Summands, TotalIsNat DEF TypeOK
  <2> QED
    BY <1>2, <1>3, <1>4, <2>1, <2>2, <2>3
<1>6. ASSUME NEW d \in Characters
      PROVE  coin'[d] + bank'[d] + Total(Buried(d)') <= won'[d] /\ credited'[d] <= won'[d]
  <2>1. /\ coin[d] \in Nat /\ bank[d] \in Nat /\ Total(Buried(d)) \in Nat /\ won[d] \in Nat
        /\ credited[d] \in Nat /\ coin'[d] \in Nat /\ won'[d] \in Nat
        /\ coin[d] + bank[d] + Total(Buried(d)) <= won[d] /\ credited[d] <= won[d]
    BY <1>1, Summands, LedgerIs
  <2>2. Total(Buried(d)') \in Nat
    BY <1>1, Summands, TotalIsNat
  <2>3. bank'[d] \in Nat /\ bank'[d] <= bank[d]
    BY DEF TypeOK
  <2> QED
    BY <2>1, <2>2, <2>3
<1> QED
  BY <1>5, <1>6, NextLedgerIs

\* What a character has buried changes by what changes in one grave.
LEMMA BuriedMoves ==
    ASSUME TypeOK, TypeOK', NEW d \in Characters, NEW g \in Corpses,
           \A k \in Corpses \ {g} : corpse'[k] = corpse[k]
    PROVE  /\ Total(Buried(d)') \in Nat /\ Buried(d)[g] \in Nat /\ Buried(d)'[g] \in Nat
           /\ Total(Buried(d)') = Total(Buried(d)) - Buried(d)[g] + Buried(d)'[g]
<1>1. Buried(d) \in [Corpses -> Nat] /\ Buried(d)' \in [Corpses -> Nat]
  BY DEF TypeOK, Buried
<1>2. \A k \in Corpses \ {g} : Buried(d)'[k] = Buried(d)[k]
  BY DEF Buried
<1>3. IsFiniteSet(Corpses) /\ Buried(d)[g] \in Nat /\ Buried(d)'[g] \in Nat
  BY <1>1, PurseAssumption
<1>4. Total(Buried(d)') \in Nat
  BY <1>1, <1>3, TotalIsNat
<1>5. Total(Buried(d)') = Total(Buried(d)) - Buried(d)[g] + Buried(d)'[g]
  BY <1>1, <1>2, <1>3, TotalMoves
<1> QED
  BY <1>3, <1>4, <1>5

LEMMA BuryBalances ==
    ASSUME TypeOK, TypeOK', Ledger, NEW c \in Characters, NEW g \in Corpses, Bury(c, g),
           Total(bank') + lost' = Total(bank) + lost,
           \A d \in Characters : bank'[d] <= bank[d],
           UNCHANGED <<credited, won, house>>
    PROVE  Ledger'
<1>1. /\ corpse[g].coin = 0 /\ corpse'[g].owner = c /\ corpse'[g].coin = coin[c]
      /\ corpse[g].owner = Nobody /\ c # Nobody
      /\ coin'[c] = 0 /\ \A d \in Characters \ {c} : coin'[d] = coin[d]
      /\ \A k \in Corpses \ {g} : corpse'[k] = corpse[k]
  BY ConstantsAre DEF Bury, TypeOK, NoCorpse
<1>2. ASSUME NEW d \in Characters
      PROVE  coin'[d] + Total(Buried(d)') = coin[d] + Total(Buried(d))
  <2>1. Buried(d)[g] = 0 /\ Buried(d)'[g] = IF d = c THEN coin[c] ELSE 0
    BY <1>1, ConstantsAre DEF Buried
  <2>2. coin[d] \in Nat /\ Total(Buried(d)) \in Nat
    BY Summands
  <2>3. Total(Buried(d)') = Total(Buried(d)) - Buried(d)[g] + Buried(d)'[g]
    BY <1>1, BuriedMoves
  <2> QED
    BY <1>1, <2>1, <2>2, <2>3
<1>3. \A d \in Characters : coin[d] \in Nat /\ Total(Buried(d)) \in Nat /\ won[d] \in Nat
  BY Summands
<1>4. ASSUME NEW d \in Characters
      PROVE  coin'[d] + Total(Buried(d)') + won[d] <= coin[d] + Total(Buried(d)) + won'[d]
  <2>1. coin[d] + Total(Buried(d)) + won[d] \in Nat /\ won'[d] = won[d]
    BY <1>3
  <2> QED
    BY <1>2, <2>1
<1>5. coin'[c] + corpse'[g].coin = coin[c] + corpse[g].coin /\ \A d \in Characters : won'[d] >= won[d]
  BY <1>1, <1>3
<1> QED
  BY <1>1, <1>4, <1>5, GraveBalances

LEMMA LootBalances ==
    ASSUME TypeOK, TypeOK', Ledger, NEW c \in Characters, NEW g \in Corpses, Loot(c, g)
    PROVE  Ledger'
<1> DEFINE n == corpse[g].coin
<1>1. /\ corpse'[g].coin = 0 /\ corpse'[g].owner = Nobody
      /\ n \in Nat /\ coin'[c] = coin[c] + n /\ \A d \in Characters \ {c} : coin'[d] = coin[d]
      /\ \A k \in Corpses \ {g} : corpse'[k] = corpse[k]
      /\ \A d \in Characters : won'[d] = IF d = c /\ corpse[g].owner # c THEN won[d] + n ELSE won[d]
      /\ UNCHANGED <<bank, credited, house, lost>> /\ bank \in [Characters -> Nat]
  BY ConstantsAre DEF Loot, TypeOK, NoCorpse, lore
<1> HIDE DEF n
<1>2. ASSUME NEW d \in Characters
      PROVE  /\ coin'[d] + Total(Buried(d)') + won[d] <= coin[d] + Total(Buried(d)) + won'[d]
             /\ won'[d] >= won[d]
  <2>1. Buried(d)'[g] = 0 /\ Buried(d)[g] = IF corpse[g].owner = d THEN n ELSE 0
    BY <1>1, ConstantsAre DEF Buried, n
  <2>2. coin[d] \in Nat /\ Total(Buried(d)) \in Nat /\ won[d] \in Nat
    BY Summands
  <2>3. Total(Buried(d)') = Total(Buried(d)) - Buried(d)[g] + Buried(d)'[g]
    BY <1>1, BuriedMoves
  <2> QED
    BY <1>1, <2>1, <2>2, <2>3
<1>3. coin'[c] + corpse'[g].coin = coin[c] + corpse[g].coin
  <2>1. coin[c] \in Nat
    BY Summands
  <2> QED
    BY <1>1, <2>1 DEF n
<1> QED
  BY <1>1, <1>2, <1>3, GraveBalances

\* What is credited on a walk or a recall is what the walker has.
LEMMA WalkBalances ==
    ASSUME TypeOK, TypeOK', Ledger, NEW c \in Characters, NEW room \in Rooms, Walk(c, room)
    PROVE  Ledger'
<1>1. UNCHANGED <<coin, bank, corpse, won, house, lost>>
  BY DEF Walk, purse, history
<1>2. ASSUME NEW d \in Characters
      PROVE  credited'[d] <= credited[d] \/ credited'[d] <= coin[d] + bank[d]
  <2>1. /\ credited \in [Characters -> Nat] /\ credited[d] \in Nat
        /\ coin[c] \in Nat /\ bank[c] \in Nat
    BY Summands
  <2>2. CASE room \in Keep
    <3>1. Secured(c, room, coin[c], bank[c]) = coin[c] + bank[c]
      BY <2>1, <2>2 DEF Secured
    <3>2. Secure(c, coin[c] + bank[c])
      BY <2>2, <3>1 DEF Walk, Arrive
    <3>3. credited' = [credited EXCEPT ![c] =
                         IF coin[c] + bank[c] > @ THEN coin[c] + bank[c] ELSE @]
      BY <3>2 DEF Secure
    <3> QED
      BY <2>1, <3>3
  <2>3. CASE room \notin Keep
    <3>1. credited' = credited
      BY <2>3 DEF Walk, Arrive, lore
    <3> QED
      BY <2>1, <3>1
  <2> QED
    BY <2>2, <2>3
<1> QED
  BY <1>1, <1>2, BankingBalances

LEMMA DepositBalances ==
    ASSUME TypeOK, TypeOK', Ledger, NEW c \in Characters, NEW n \in 1 .. MaxWon, Deposit(c, n)
    PROVE  Ledger'
<1> DEFINE total == Secured(c, place[c], coin[c] - n, bank[c] + n)
<1>1. n \in Int /\ coin \in [Characters -> Nat] /\ bank \in [Characters -> Nat]
  BY PurseAssumption, Summands
<1>2. /\ UNCHANGED <<corpse, won, house, lost>>
      /\ coin' = [coin EXCEPT ![c] = coin[c] - n] /\ bank' = [bank EXCEPT ![c] = bank[c] + n]
      /\ credited' = [credited EXCEPT ![c] = IF total > @ THEN total ELSE @] /\ n <= coin[c]
  BY DEF Deposit, Secure, history
<1>3. /\ coin'[c] + bank'[c] = coin[c] + bank[c]
      /\ \A d \in Characters \ {c} : coin'[d] = coin[d] /\ bank'[d] = bank[d]
  BY <1>1, <1>2
<1>4. total <= coin[c] + bank[c]
  BY <1>1, <1>2 DEF Secured
<1> HIDE DEF total
<1>5. ASSUME NEW d \in Characters
      PROVE  credited'[d] <= credited[d] \/ credited'[d] <= coin[d] + bank[d]
  BY <1>2, <1>4, Summands
<1> QED
  BY <1>2, <1>3, <1>5, BankingBalances

\* The ledger balances after every step.
LEMMA LedgerStep == IInv /\ IInv' /\ Ledger /\ [Next]_vars => Ledger'
<1> SUFFICES ASSUME IInv, IInv', Ledger, [Next]_vars PROVE Ledger'
  OBVIOUS
<1>0. TypeOK /\ TypeOK' /\ Books
  BY DEF IInv, Books
<1>1. ASSUME NEW c \in Characters, NEW n \in Rewards, Reward(c, n) PROVE Ledger'
  <2>1. n \in Nat
    BY ConstantsAre
  <2>2. Receive(c, n) /\ UNCHANGED <<bank, corpse, credited>>
    BY <1>1 DEF Reward, lore
  <2> QED
    BY <1>0, <2>1, <2>2, Received
<1>2. ASSUME NEW c \in Characters, NEW i \in Items, Buy(c, i) PROVE Ledger'
  <2>1. Value[i] \in Nat
    BY ConstantsAre
  <2>2. Spend(c, Value[i]) /\ UNCHANGED <<bank, corpse, credited>>
    BY <1>2 DEF Buy, lore
  <2> QED
    BY <1>0, <2>1, <2>2, Spent
<1>3. ASSUME NEW c \in Characters, NEW i \in Items, Sell(c, i) PROVE Ledger'
  <2>1. Payout(i) \in Nat
    BY ConstantsAre
  <2>2. Receive(c, Payout(i)) /\ UNCHANGED <<bank, corpse, credited>>
    BY <1>3 DEF Sell, lore
  <2> QED
    BY <1>0, <2>1, <2>2, Received
<1>4. ASSUME NEW c \in Characters, NEW h \in Retainers, Hire(c, h) PROVE Ledger'
  <2>1. HireFee[h] \in Nat
    BY ConstantsAre
  <2>2. Spend(c, HireFee[h]) /\ UNCHANGED <<bank, corpse, credited>>
    BY <1>4 DEF Hire, lore
  <2> QED
    BY <1>0, <2>1, <2>2, Spent
<1>5. ASSUME NEW c \in Characters, NEW n \in 1 .. MaxWon, Deposit(c, n) PROVE Ledger'
  BY <1>0, <1>5, DepositBalances
<1>6. ASSUME NEW c \in Characters, NEW n \in 1 .. MaxWon, Withdraw(c, n) PROVE Ledger'
  <2>1. n \in Int /\ coin \in [Characters -> Nat] /\ bank \in [Characters -> Nat]
    BY <1>0, PurseAssumption, Summands
  <2>2. /\ coin' = [coin EXCEPT ![c] = coin[c] + n] /\ bank' = [bank EXCEPT ![c] = bank[c] - n]
        /\ UNCHANGED <<corpse, won, house, lost, credited>>
    BY <1>6 DEF Withdraw, lore, history
  <2>3. /\ coin'[c] + bank'[c] = coin[c] + bank[c]
        /\ \A d \in Characters \ {c} : coin'[d] = coin[d] /\ bank'[d] = bank[d]
    BY <2>1, <2>2
  <2>4. \A d \in Characters : credited'[d] <= credited[d]
    BY <1>0, <2>2, Summands
  <2> QED
    BY <1>0, <2>2, <2>3, <2>4, BankingBalances
<1>7. ASSUME NEW c \in Characters, NEW room \in Rooms, Walk(c, room) PROVE Ledger'
  BY <1>0, <1>7, WalkBalances
<1>8. ASSUME NEW c \in Characters, NEW g \in Corpses, Die(c, g) PROVE Ledger'
  <2>1. \A d \in Characters : bank'[d] <= bank[d]
    BY <1>0, <1>8 DEF Die, TypeOK
  <2> QED
    BY <1>0, <1>8, <2>1, BuryBalances, RecallKeepsBooks DEF Die, history
<1>9. ASSUME NEW c \in Characters, NEW g \in Corpses, DieForGood(c, g) PROVE Ledger'
  <2>1. /\ bank' = [bank EXCEPT ![c] = 0] /\ lost' = lost + bank[c] /\ Bury(c, g)
        /\ UNCHANGED <<credited, won, house>>
    BY <1>9 DEF DieForGood, lore
  <2>2. bank \in [Characters -> Nat] /\ Total(bank) \in Nat /\ lost \in Nat
    BY <1>0, Summands
  <2>3. bank'[c] = 0 /\ \A d \in Characters : bank'[d] <= bank[d] /\ (d # c => bank'[d] = bank[d])
    BY <2>1, <2>2
  <2>4. Total(bank') = Total(bank) - bank[c] + bank'[c]
    BY <1>0, <2>3, VaultMoves
  <2>5. Total(bank') + lost' = Total(bank) + lost
    BY <2>1, <2>2, <2>3, <2>4
  <2> QED
    BY <1>0, <2>1, <2>3, <2>5, BuryBalances
<1>10. ASSUME NEW c \in Characters, NEW g \in Corpses, Loot(c, g) PROVE Ledger'
  BY <1>0, <1>10, LootBalances
<1>11. ASSUME UNCHANGED <<purse, lore, corpse, history>> PROVE Ledger'
  <2>1. UNCHANGED <<coin, bank, credited, corpse, won, house, lost>>
    BY <1>11 DEF purse, lore, history
  <2> QED
    BY <2>1 DEF Ledger, NoCoinFromNothing, HeldWasWon, CreditWasWon, Buried
<1>12. ASSUME NEW c \in Characters, NEW i \in Items, Find(c, i) PROVE Ledger'
  BY <1>11, <1>12 DEF Find
<1>13. ASSUME NEW h \in Retainers,
              \/ \E c \in Characters : Dismiss(c, h) \/ \E o \in Orders : Order(c, h, o)
              \/ HenchmanDies(h)
       PROVE  Ledger'
  BY <1>11, <1>13 DEF Dismiss, Order, HenchmanDies
<1>14. CASE UNCHANGED vars
  BY <1>11, <1>14 DEF vars
<1> QED
  BY <1>1, <1>2, <1>3, <1>4, <1>5, <1>6, <1>7, <1>8, <1>9, <1>10, <1>12, <1>13, <1>14 DEF Next

LEMMA LedgerInit == Init => Ledger
<1> SUFFICES ASSUME Init PROVE Ledger
  OBVIOUS
<1>1. /\ coin = [c \in Characters |-> 0] /\ bank = [c \in Characters |-> 0] /\ house = 0 /\ lost = 0
      /\ Graves = [g \in Corpses |-> 0] /\ \A c \in Characters : Buried(c) = [g \in Corpses |-> 0]
      /\ \A c \in Characters : credited[c] = 0 /\ won[c] = 0
  BY DEF Init, Graves, Buried, NoCorpse
<1>2. /\ Total(coin) = 0 /\ Total(bank) = 0 /\ Total(Graves) = 0
      /\ \A c \in Characters : Total(Buried(c)) = 0
  BY <1>1, PurseAssumption, TotalOfNothing
<1> QED
  BY <1>1, <1>2, LedgerIs

LEMMA LedgerHolds == Spec => []Ledger
BY LedgerInit, LedgerStep, Inductive, PTL DEF Spec

\* Coin is not made, and lost only with a vault whose owner dies for good: what lies in
\* pockets, vaults and corpses is what the game has paid out less what it has taken and
\* what was so deleted (commands/economy.py, _create_corpse, _hardcore_death, loot).
THEOREM CoinIsConserved == Spec => []NoCoinFromNothing
<1>1. Ledger => NoCoinFromNothing
  BY DEF Ledger
<1> QED
  BY <1>1, LedgerHolds, PTL

\* No coin teaches a character twice, by whatever way it is carried home again
\* (secure_xp).
THEOREM NothingTeachesTwice == Spec => []TreasureTeachesOnce
<1>1. IInv /\ Ledger => TreasureTeachesOnce
  BY DEF IInv, TypeOK, ExperienceIsEarned, Ledger, CreditWasWon, TreasureTeachesOnce
<1> QED
  BY <1>1, Inductive, LedgerHolds, PTL
=============================================================================

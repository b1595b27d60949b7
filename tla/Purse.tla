-------------------------------- MODULE Purse --------------------------------
(***************************************************************************)
(* What a character owns and whom he leads: coin in the pocket, coin in    *)
(* the vault, coin and goods in corpses, the experience that secured coin  *)
(* is worth, and the henchmen who walk behind.  Death, recall and every    *)
(* walk touch all of them, so they are one module.  Each command is one    *)
(* handler; what a quest pays is module Quests', spells and hit points are *)
(* module Fight's.                                                         *)
(***************************************************************************)
EXTENDS Integers, FiniteSets, Functions

CONSTANTS
    Characters,
    Hardcore,       \* those on the path of one life
    Classed,        \* those whose db.char_class names a class
    LevelStart,     \* xp_for_level of a character's class and level
    Corpses,        \* bound: ids for the corpses lying about at one time
    Rooms, Keep,    \* all rooms; those of zone "keep"
    Bank, Trader, Tavern, Bailey,
    Items,          \* bound: the things there are at one time
    Gems,           \* those with a gem value
    Vendors,        \* ware -> the rooms whose shops stock it
    Value,          \* list price, of a gem its appraised value
    Retainers,      \* bound: ids for henchmen
    HireFee, Cap,   \* fee of each; retainer_cap of each character's charisma
    Orders,         \* standing orders
    Rewards,        \* coin that turn-ins pay
    MaxWon          \* bound on what a character wins

Nowhere == "nowhere"  \* of things and people that do not exist (yet, or any more)
Nobody == "nobody"
Follow == "follow"
NoCorpse == [room |-> Nowhere, owner |-> Nobody, coin |-> 0]

ASSUME PurseAssumption ==
    /\ Hardcore \cup Classed \subseteq Characters /\ Nobody \notin Characters
    /\ IsFiniteSet(Retainers) /\ IsFiniteSet(Characters) /\ IsFiniteSet(Corpses)
    /\ LevelStart \in [Characters -> Nat] /\ Cap \in [Characters -> Nat]
    /\ Keep \subseteq Rooms /\ {Bank, Trader, Tavern, Bailey} \subseteq Keep /\ Nowhere \notin Rooms
    /\ Gems \subseteq Items /\ Vendors \in [Items \ Gems -> SUBSET Rooms]
    /\ Value \in [Items -> Nat \ {0}] /\ HireFee \in [Retainers -> Nat]
    /\ Follow \in Orders
    /\ Rewards \subseteq Nat
    /\ MaxWon \in Nat
    /\ Items \cap (Characters \cup Corpses) = {} /\ Characters \cap Corpses = {}
    /\ Nowhere \notin Characters \cup Corpses

VARIABLES
    place,     \* character -> room
    coin,      \* character -> db.coin
    bank,      \* character -> db.bank_balance
    xp,        \* character -> traits.xp
    credited,  \* character -> db.secured_xp_credited
    holder,    \* item -> who or what it is in
    corpse,    \* id -> the corpse
    employer,  \* retainer -> db.employer
    order,     \* retainer -> db.order
    post,      \* retainer -> room
    won,       \* history: character -> coin that has come to him, his own from his corpses aside
    house,     \* history: coin paid to shops and recruits, less what the game paid out
    lost       \* history: coin in the vaults of those who died for good

purse == <<coin, bank>>
lore == <<xp, credited>>
company == <<employer, order, post>>
history == <<won, house, lost>>
vars == <<place, purse, lore, holder, corpse, company, history>>

Alive(c) == place[c] \in Rooms

-----------------------------------------------------------------------------
(* Securing treasure *)

\* What secure_treasure counts for a character in the room.
Secured(c, room, inPocket, inVault) == inVault + (IF room \in Keep THEN inPocket ELSE 0)

\* Mutant: what was credited before is granted again.
GrantAll(c, total) == total

\* secure_xp: what exceeds the credited total.
Grant(c, total) == IF total > credited[c] THEN total - credited[c] ELSE 0

\* secure_treasure.
Secure(c, total) ==
    /\ xp' = [xp EXCEPT ![c] = @ + Grant(c, total)]
    /\ credited' = [credited EXCEPT ![c] = IF total > @ THEN total ELSE @]

-----------------------------------------------------------------------------
Init ==
    /\ place = [c \in Characters |-> Bailey]
    /\ coin = [c \in Characters |-> 0] /\ bank = [c \in Characters |-> 0]
    /\ xp = [c \in Characters |-> 0] /\ credited = [c \in Characters |-> 0]
    /\ holder = [i \in Items |-> Nowhere]
    /\ corpse = [g \in Corpses |-> NoCorpse]
    /\ employer = [h \in Retainers |-> Nobody]
    /\ order = [h \in Retainers |-> Follow]
    /\ post = [h \in Retainers |-> Nowhere]
    /\ won = [c \in Characters |-> 0] /\ house = 0 /\ lost = 0

\* n coins come to c from outside.
Receive(c, n) ==
    /\ won[c] + n <= MaxWon
    /\ coin' = [coin EXCEPT ![c] = @ + n]
    /\ won' = [won EXCEPT ![c] = @ + n]
    /\ house' = house - n
    /\ UNCHANGED lost

Spend(c, n) ==
    /\ coin[c] >= n
    /\ coin' = [coin EXCEPT ![c] = @ - n]
    /\ house' = house + n
    /\ UNCHANGED <<won, lost>>

\* _apply_reward, as far as coin goes; no quest of the catalog pays experience.
Reward(c, n) ==
    /\ Alive(c)
    /\ Receive(c, n)
    /\ UNCHANGED <<place, bank, lore, holder, corpse, company>>

\* c picks up a gem somewhere in the wild.
Find(c, i) ==
    /\ Alive(c) /\ place[c] \notin Keep /\ i \in Gems /\ holder[i] = Nowhere
    /\ holder' = [holder EXCEPT ![i] = c]
    /\ UNCHANGED <<place, purse, lore, corpse, company, history>>

\* CmdBuy: a new thing for its full price.
Buy(c, i) ==
    /\ Alive(c) /\ i \notin Gems /\ holder[i] = Nowhere
    /\ place[c] \in Vendors[i]
    /\ Spend(c, Value[i])
    /\ holder' = [holder EXCEPT ![i] = c]
    /\ UNCHANGED <<place, bank, lore, corpse, company>>

\* trader_payout: half for wares, all for gems.
Payout(i) == IF i \in Gems THEN Value[i] ELSE Value[i] \div 2

\* CmdSell.
Sell(c, i) ==
    /\ Alive(c) /\ place[c] = Trader /\ holder[i] = c
    /\ holder' = [holder EXCEPT ![i] = Nowhere]
    /\ Receive(c, Payout(i))
    /\ UNCHANGED <<place, bank, lore, corpse, company>>

\* CmdDeposit, with the fee of 0 the game has, and secure_treasure after it.
Deposit(c, n) ==
    /\ place[c] = Bank /\ n <= coin[c]
    /\ coin' = [coin EXCEPT ![c] = @ - n]
    /\ bank' = [bank EXCEPT ![c] = @ + n]
    /\ Secure(c, Secured(c, place[c], coin[c] - n, bank[c] + n))
    /\ UNCHANGED <<place, holder, corpse, company, history>>

\* Mutant: the balance may be overdrawn.
WithdrawOnCredit(c, n) ==
    /\ place[c] = Bank
    /\ coin' = [coin EXCEPT ![c] = @ + n]
    /\ bank' = [bank EXCEPT ![c] = @ - n]
    /\ UNCHANGED <<place, lore, holder, corpse, company, history>>

\* CmdWithdraw.
Withdraw(c, n) ==
    /\ place[c] = Bank /\ n <= bank[c]
    /\ coin' = [coin EXCEPT ![c] = @ + n]
    /\ bank' = [bank EXCEPT ![c] = @ - n]
    /\ UNCHANGED <<place, lore, holder, corpse, company, history>>

-----------------------------------------------------------------------------
(* Walking, dying, looting *)

\* The henchmen who go where c goes from the room he is in.
Followers(c) == {h \in Retainers : employer[h] = c /\ post[h] = place[c] /\ order[h] = Follow}

\* at_post_move, with what is in the pocket on arrival.
Arrive(c, room, inPocket) ==
    /\ place' = [place EXCEPT ![c] = room]
    /\ IF room \in Keep THEN Secure(c, Secured(c, room, inPocket, bank[c])) ELSE UNCHANGED lore
    /\ post' = [h \in Retainers |-> IF h \in Followers(c) THEN room ELSE post[h]]

Walk(c, room) ==
    /\ Alive(c) /\ room # place[c]
    /\ Arrive(c, room, coin[c])
    /\ UNCHANGED <<purse, holder, corpse, employer, order, history>>

\* Mutant: the corpse's coin stays in the pocket too.
BuryCopy(c, g) ==
    /\ corpse[g] = NoCorpse
    /\ corpse' = [corpse EXCEPT ![g] = [room |-> place[c], owner |-> c, coin |-> coin[c]]]
    /\ holder' = [i \in Items |-> IF holder[i] = c THEN g ELSE holder[i]]
    /\ coin' = coin

\* _create_corpse: all goods and all coin carried.
Bury(c, g) ==
    /\ corpse[g] = NoCorpse
    /\ corpse' = [corpse EXCEPT ![g] = [room |-> place[c], owner |-> c, coin |-> coin[c]]]
    /\ holder' = [i \in Items |-> IF holder[i] = c THEN g ELSE holder[i]]
    /\ coin' = [coin EXCEPT ![c] = 0]

\* Experience after a death: back to the start of the level, for those with a class.
Humbled(c) == IF c \in Classed /\ xp[c] > LevelStart[c] THEN LevelStart[c] ELSE xp[c]

\* Mutant: recall comes first, and with it the Keep's reward for treasure brought home.
RecallRich(c) ==
    /\ place' = [place EXCEPT ![c] = Bailey]
    /\ xp' = [xp EXCEPT ![c] = Humbled(c) + Grant(c, Secured(c, Bailey, coin[c], bank[c]))]
    /\ credited' = credited
    /\ post' = [h \in Retainers |-> IF h \in Followers(c) THEN Bailey ELSE post[h]]

\* _default_death: the experience first, then the recall with all that a move does.
Recall(c) ==
    LET total == Secured(c, Bailey, 0, bank[c])
    IN  /\ place' = [place EXCEPT ![c] = Bailey]
        /\ xp' = [xp EXCEPT ![c] = Humbled(c) + Grant(c, total)]
        /\ credited' = [credited EXCEPT ![c] = IF total > @ THEN total ELSE @]
        /\ post' = [h \in Retainers |-> IF h \in Followers(c) THEN Bailey ELSE post[h]]

\* at_death of a character who comes back.
Die(c, g) ==
    /\ Alive(c) /\ c \notin Hardcore
    /\ Bury(c, g)
    /\ Recall(c)
    /\ UNCHANGED <<bank, employer, order, history>>

\* at_death of one who does not: the object is deleted, its vault and the references
\* to it with it.
DieForGood(c, g) ==
    /\ Alive(c) /\ c \in Hardcore
    /\ Bury(c, g)
    /\ place' = [place EXCEPT ![c] = Nowhere]
    /\ bank' = [bank EXCEPT ![c] = 0] /\ lost' = lost + bank[c]
    /\ employer' = [h \in Retainers |-> IF employer[h] = c THEN Nobody ELSE employer[h]]
    /\ UNCHANGED <<lore, order, post, won, house>>

\* Corpse.loot, by anyone who stands before it.
Loot(c, g) ==
    /\ Alive(c) /\ corpse[g].room = place[c]
    /\ corpse[g].owner # c => won[c] + corpse[g].coin <= MaxWon
    /\ holder' = [i \in Items |-> IF holder[i] = g THEN c ELSE holder[i]]
    /\ coin' = [coin EXCEPT ![c] = @ + corpse[g].coin]
    /\ won' = [won EXCEPT ![c] = IF corpse[g].owner = c THEN @ ELSE @ + corpse[g].coin]
    /\ corpse' = [corpse EXCEPT ![g] = NoCorpse]
    /\ UNCHANGED <<place, bank, lore, company, house, lost>>

-----------------------------------------------------------------------------
(* Henchmen *)

\* _party_size counts every henchman of the employer, wherever he is.
Party(c) == {h \in Retainers : employer[h] = c}

\* attempt_hire: the retainer cap is not reached.
HasRoom(c) == Cardinality(Party(c)) < Cap[c]

\* CmdHire, when the recruit accepts.
Hire(c, h) ==
    /\ Alive(c) /\ place[c] = Tavern /\ post[h] = Nowhere
    /\ HasRoom(c)
    /\ Spend(c, HireFee[h])
    /\ employer' = [employer EXCEPT ![h] = c]
    /\ order' = [order EXCEPT ![h] = Follow]
    /\ post' = [post EXCEPT ![h] = Tavern]
    /\ UNCHANGED <<place, bank, lore, holder, corpse>>

\* Mutant: an order reaches a henchman anywhere.
OrderAfar(c, h, o) ==
    /\ Alive(c) /\ employer[h] = c
    /\ order' = [order EXCEPT ![h] = o]
    /\ UNCHANGED <<place, purse, lore, holder, corpse, employer, post, history>>

\* CmdOrder: a standing order to a henchman in the room.
Order(c, h, o) ==
    /\ Alive(c) /\ employer[h] = c /\ post[h] = place[c]
    /\ order' = [order EXCEPT ![h] = o]
    /\ UNCHANGED <<place, purse, lore, holder, corpse, employer, post, history>>

\* CmdOrder, dismiss.
Dismiss(c, h) ==
    /\ Alive(c) /\ employer[h] = c /\ post[h] = place[c]
    /\ employer' = [employer EXCEPT ![h] = Nobody]
    /\ order' = [order EXCEPT ![h] = Follow]
    /\ UNCHANGED <<place, purse, lore, holder, corpse, post, history>>

\* Henchman.at_death.
HenchmanDies(h) ==
    /\ post[h] # Nowhere
    /\ post' = [post EXCEPT ![h] = Nowhere]
    /\ employer' = [employer EXCEPT ![h] = Nobody]
    /\ order' = [order EXCEPT ![h] = Follow]
    /\ UNCHANGED <<place, purse, lore, holder, corpse, history>>

Next ==
    \/ \E c \in Characters :
          \/ \E n \in Rewards : Reward(c, n)
          \/ \E i \in Items : Find(c, i) \/ Buy(c, i) \/ Sell(c, i)
          \/ \E n \in 1 .. MaxWon : Deposit(c, n) \/ Withdraw(c, n)
          \/ \E room \in Rooms : Walk(c, room)
          \/ \E g \in Corpses : Die(c, g) \/ DieForGood(c, g) \/ Loot(c, g)
          \/ \E h \in Retainers : Hire(c, h) \/ Dismiss(c, h) \/ \E o \in Orders : Order(c, h, o)
    \/ \E h \in Retainers : HenchmanDies(h)

Spec == Init /\ [][Next]_vars

-----------------------------------------------------------------------------
(* Properties *)

TypeOK ==
    /\ place \in [Characters -> Rooms \cup {Nowhere}]
    /\ coin \in [Characters -> Nat] /\ bank \in [Characters -> Nat]
    /\ xp \in [Characters -> Nat] /\ credited \in [Characters -> Nat]
    /\ holder \in [Items -> Characters \cup Corpses \cup {Nowhere}]
    /\ corpse \in [Corpses -> [room : Rooms \cup {Nowhere}, owner : Characters \cup {Nobody}, coin : Nat]]
    /\ employer \in [Retainers -> Characters \cup {Nobody}]
    /\ order \in [Retainers -> Orders]
    /\ post \in [Retainers -> Rooms \cup {Nowhere}]
    /\ won \in [Characters -> Nat] /\ house \in Int /\ lost \in Nat

Total(f) == FoldFunction(+, 0, f)

\* Coin is not made, and nothing but a vault whose owner dies for good is lost: what
\* lies in pockets, vaults and corpses is what the game has paid out, less what it has
\* taken and what was deleted with its owner (commands/economy.py: no money is created
\* or destroyed outside a fee or a shop's spread; _hardcore_death, the delete).
NoCoinFromNothing ==
    Total(coin) + Total(bank) + Total([g \in Corpses |-> corpse[g].coin]) + lost + house = 0

\* A coin teaches a character once, however often he banks it, carries it home, or
\* dies with it and fetches it back (secure_xp).
TreasureTeachesOnce ==
    \A c \in Characters : xp[c] <= won[c]

\* A death is no way to bring treasure home: the corpse has all that was carried, the
\* vault of one who comes back is not touched, and his recall into the Keep secures
\* nothing (at_death).
DeathSecuresNothing ==
    [][\A c \in Characters, g \in Corpses :
          corpse[g] = NoCorpse /\ corpse'[g].owner = c =>
              /\ xp'[c] <= xp[c] /\ (c \notin Hardcore => bank'[c] = bank[c])
              /\ coin'[c] = 0 /\ corpse'[g].coin = coin[c]
              /\ \A i \in Items : holder'[i] # c]_vars

\* A henchman told to follow is where his employer is, through walks, deaths, recalls,
\* hirings and orders (at_post_move).
FollowersKeepUp ==
    \A h \in Retainers :
        employer[h] # Nobody /\ order[h] = Follow => post[h] = place[employer[h]]

(* What makes these inductive *)

\* What is in the vault has been credited.
VaultIsCredited == \A c \in Characters : bank[c] <= credited[c]

\* Experience is what treasure was credited, less what deaths cost.
ExperienceIsEarned == \A c \in Characters : xp[c] <= credited[c]

\* Employers live, and so do the employed.
EmployedLive ==
    \A h \in Retainers : employer[h] # Nobody => Alive(employer[h]) /\ post[h] # Nowhere

\* Nobody leads more than his charisma allows.
RetainersWithinCap == \A c \in Characters : Cardinality(Party(c)) <= Cap[c]

\* The coin a character has lying in corpses.
Buried(c) == [g \in Corpses |-> IF corpse[g].owner = c THEN corpse[g].coin ELSE 0]

\* What a character has, his corpses included, has come to him; and so had all that was
\* ever credited to him.
HeldWasWon == \A c \in Characters : coin[c] + bank[c] + Total(Buried(c)) <= won[c]
CreditWasWon == \A c \in Characters : credited[c] <= won[c]

Ledger == NoCoinFromNothing /\ HeldWasWon /\ CreditWasWon

IInv ==
    /\ TypeOK /\ VaultIsCredited /\ ExperienceIsEarned
    /\ EmployedLive /\ FollowersKeepUp /\ RetainersWithinCap
=============================================================================

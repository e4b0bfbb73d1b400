--------------------------- MODULE Auction_proofs ---------------------------
(***************************************************************************)
(* For any number of players, sessions and listings, whatever prices are   *)
(* asked and whatever happens between a call and its turn at the lock: the *)
(* market keeps its types, its terms stand, its books balance, sellers are *)
(* throttled, and nobody gets into debt but by the sale of a listing of    *)
(* their own at a negative price.                                          *)
(***************************************************************************)
EXTENDS Auction, Sums, TLAPS

\* The tax of a price that is no debt lies between nothing and the price.
LEMMA TaxIsPart ==
    ASSUME NEW price \in Nat
    PROVE  Tax(price) \in 0 .. price
<1>1. (price * 300) \div 10000 \in 0 .. price
    OBVIOUS
<1> QED BY <1>1 DEF Tax

LEMMA TaxIsInt ==
    ASSUME NEW price \in Int
    PROVE  Tax(price) \in Int
BY DEF Tax

\* The seller's window, restarted or not, is one, with a listing to spare if
\* the call is let through.
LEMMA WindowFits ==
    ASSUME TypeOK, NEW p \in Players, NEW at \in Nat, MayList(p, at)
    PROVE  /\ WindowAt(p, at) \in [since: Nat, count: 0 .. MaxPerWindow]
           /\ [WindowAt(p, at) EXCEPT !.count = @ + 1]
                 \in [since: Nat, count: 0 .. MaxPerWindow]
<1>1. window[p] # None => window[p] \in [since: Nat, count: 0 .. MaxPerWindow]
    BY DEF TypeOK
<1>2. WindowAt(p, at) \in [since: Nat, count: 0 .. MaxPerWindow]
    BY <1>1, MarketAssumption DEF WindowAt
<1>3. WindowAt(p, at).count < MaxPerWindow
    BY DEF MayList
<1> QED BY <1>2, <1>3, MarketAssumption

\* What a session waits with.
LEMMA RequestFields ==
    ASSUME TypeOK, NEW s \in Sessions, asked[s] # None
    PROVE  /\ asked[s].seller \in Players /\ asked[s].start \in Prices
           /\ asked[s].buyout \in Buyouts \cup {None} /\ asked[s].at \in Nat
BY DEF TypeOK, Request

LEMMA ListTyped ==
    ASSUME TypeOK, NEW s \in Sessions, List(s)
    PROVE  TypeOK'
<1> DEFINE p == asked[s].seller
           fresh == [seller |-> p, start |-> asked[s].start, buyout |-> asked[s].buyout,
                     expires |-> asked[s].at + Lifetime, bid |-> None, bidder |-> None]
<1>1. /\ p \in Players /\ asked[s].start \in Prices
      /\ asked[s].buyout \in Buyouts \cup {None} /\ asked[s].at \in Nat
    BY RequestFields DEF List
<1>2. fresh \in Listing
    BY <1>1, MarketAssumption DEF Listing
<1>3. [WindowAt(p, asked[s].at) EXCEPT !.count = @ + 1]
          \in [since: Nat, count: 0 .. MaxPerWindow]
    BY <1>1, WindowFits DEF List
<1>4. window' \in [Players -> [since: Nat, count: 0 .. MaxPerWindow] \cup {None}]
    BY <1>3 DEF List, TypeOK
<1>5. wallet' \in [Players -> Int] /\ asked' \in [Sessions -> Request \cup {None}]
    BY <1>1, MarketAssumption DEF List, TypeOK
<1>6. /\ issued' = issued + 1 /\ now' = now
      /\ listings' = [id \in DOMAIN listings \cup {issued + 1} |->
                         IF id = issued + 1 THEN fresh ELSE listings[id]]
    BY DEF List
<1> HIDE DEF fresh, p
<1>7. /\ DOMAIN listings' \subseteq 1 .. issued'
      /\ \A id \in DOMAIN listings' : listings'[id] \in Listing
    BY <1>2, <1>6 DEF TypeOK
<1>8. issued' \in Nat /\ now' \in Nat
    BY <1>6 DEF TypeOK
<1> QED BY <1>4, <1>5, <1>7, <1>8 DEF TypeOK

LEMMA BidTyped ==
    ASSUME TypeOK, NEW p \in Players, NEW id \in DOMAIN listings, NEW amount \in Bids,
           PlaceBid(p, id, amount)
    PROVE  TypeOK'
<1>1. listings[id] \in Listing
    BY DEF TypeOK
<1>2. [listings[id] EXCEPT !.bid = amount, !.bidder = p] \in Listing
    BY <1>1 DEF Listing
<1>3. listings' = [listings EXCEPT ![id] = [@ EXCEPT !.bid = amount, !.bidder = p]]
    BY DEF PlaceBid
<1>4. /\ DOMAIN listings' = DOMAIN listings
      /\ \A i \in DOMAIN listings' : listings'[i] \in Listing
    BY <1>2, <1>3 DEF TypeOK
<1> QED BY <1>4 DEF PlaceBid, TypeOK

LEMMA BuyoutTyped ==
    ASSUME TypeOK, NEW p \in Players, NEW id \in DOMAIN listings, Buyout(p, id)
    PROVE  TypeOK'
<1> DEFINE price == listings[id].buyout
<1>1. listings[id].seller \in Players /\ price \in Int
    BY MarketAssumption DEF Buyout, TypeOK, Listing
<1>2. Tax(price) \in Int
    BY <1>1, TaxIsInt
<1>3. Pay(p, listings[id].seller, price)
    BY DEF Buyout
<1> HIDE DEF price
<1>4. wallet' \in [Players -> Int]
    BY <1>1, <1>2, <1>3 DEF Pay, TypeOK
<1>5. /\ DOMAIN listings' \subseteq DOMAIN listings
      /\ \A i \in DOMAIN listings' : listings'[i] \in Listing
    BY DEF Buyout, TypeOK
<1> QED BY <1>4, <1>5 DEF Buyout, TypeOK

LEMMA TypeStep == TypeOK /\ [Next]_vars => TypeOK'
<1> SUFFICES ASSUME TypeOK, [Next]_vars PROVE TypeOK'
    OBVIOUS
<1>1. CASE Tick
    BY <1>1 DEF Tick, TypeOK
<1>2. ASSUME NEW s \in Sessions, NEW p \in Players, NEW start \in Prices,
             NEW buyout \in Buyouts \cup {None}, AskToList(s, p, start, buyout)
      PROVE  TypeOK'
    BY <1>2 DEF AskToList, TypeOK, Request
<1>3. ASSUME NEW start \in Prices, PriceTooLow(start)
      PROVE  TypeOK'
    BY <1>3 DEF PriceTooLow, vars, TypeOK
<1>4. ASSUME NEW s \in Sessions, List(s) PROVE TypeOK'
    BY <1>4, ListTyped
<1>5. ASSUME NEW s \in Sessions, RefuseListing(s) PROVE TypeOK'
    BY <1>5 DEF RefuseListing, TypeOK
<1>6. ASSUME NEW p \in Players, NEW id \in DOMAIN listings, NEW amount \in Bids,
             PlaceBid(p, id, amount)
      PROVE  TypeOK'
    BY <1>6, BidTyped
<1>7. ASSUME NEW p \in Players, NEW id \in DOMAIN listings, Buyout(p, id)
      PROVE  TypeOK'
    BY <1>7, BuyoutTyped
<1>8. CASE UNCHANGED vars
    BY <1>8 DEF vars, TypeOK
<1> QED BY <1>1, <1>2, <1>3, <1>4, <1>5, <1>6, <1>7, <1>8 DEF Next

\* The market keeps its types: in particular no window ever counts more
\* listings than the limit, however late a call is served.
THEOREM TypeCorrect == Spec => []TypeOK
<1>1. Init => TypeOK
    BY MarketAssumption DEF Init, TypeOK
<1> QED BY <1>1, TypeStep, PTL DEF Spec

\* What a step may do to a player's wallet.
Borne(p) ==
    wallet'[p] < wallet[p] /\ wallet'[p] < 0 =>
        \E id \in DOMAIN listings \ DOMAIN listings' :
            listings[id].seller = p /\ listings[id].buyout < 0

\* A sale charges the buyer no more than it has, and the seller only if the
\* price is negative.
LEMMA BuyoutBorne ==
    ASSUME TypeOK, NEW p \in Players, NEW id \in DOMAIN listings, Buyout(p, id), NEW r \in Players
    PROVE  Borne(r)
<1> DEFINE price == listings[id].buyout
           q == listings[id].seller
<1>1. q \in Players /\ price \in Int /\ id \in DOMAIN listings \ DOMAIN listings'
    BY MarketAssumption DEF Buyout, TypeOK, Listing
<1>2. wallet[p] >= price /\ Pay(p, q, price) /\ wallet \in [Players -> Int]
    BY DEF Buyout, Covers, TypeOK
<1>3. CASE r = q /\ price < 0
    BY <1>1, <1>3 DEF Borne
<1>4. CASE ~ (r = q /\ price < 0)
    <2> HIDE DEF price, q
    <2>1. Tax(price) \in Int /\ (price >= 0 => Tax(price) \in 0 .. price)
        BY <1>1, TaxIsPart, TaxIsInt
    <2>2. ~ (wallet'[r] < wallet[r] /\ wallet'[r] < 0)
        <3>1. CASE r = q /\ r = p
            BY <1>1, <1>2, <1>4, <2>1, <3>1 DEF Pay
        <3>2. CASE r = q /\ r # p
            BY <1>1, <1>2, <1>4, <2>1, <3>2 DEF Pay
        <3>3. CASE r # q /\ r = p
            BY <1>1, <1>2, <2>1, <3>3 DEF Pay
        <3>4. CASE r # q /\ r # p
            BY <1>1, <1>2, <2>1, <3>4 DEF Pay
        <3> QED BY <3>1, <3>2, <3>3, <3>4
    <2> QED BY <2>2 DEF Borne
<1> QED BY <1>3, <1>4

LEMMA DebtStep ==
    ASSUME TypeOK, [Next]_vars, NEW r \in Players
    PROVE  Borne(r)
<1>1. ASSUME wallet' = wallet PROVE Borne(r)
    BY <1>1 DEF Borne, TypeOK
<1>2. ASSUME NEW s \in Sessions, List(s) PROVE Borne(r)
    <2> DEFINE p == asked[s].seller
    <2>1. p \in Players
        BY <1>2, RequestFields DEF List
    <2>2. wallet[p] >= Fee /\ wallet' = [wallet EXCEPT ![p] = @ - Fee]
        BY <1>2 DEF List, MayList
    <2> HIDE DEF p
    <2> QED BY <2>1, <2>2, MarketAssumption DEF Borne, TypeOK
<1>3. ASSUME NEW p \in Players, NEW id \in DOMAIN listings, Buyout(p, id)
      PROVE  Borne(r)
    BY <1>3, BuyoutBorne
<1>4. ASSUME NEW s \in Sessions, RefuseListing(s) PROVE Borne(r)
    BY <1>1, <1>4 DEF RefuseListing
<1>5. ASSUME NEW s \in Sessions, NEW p \in Players, NEW start \in Prices,
             NEW buyout \in Buyouts \cup {None}, AskToList(s, p, start, buyout)
      PROVE  Borne(r)
    BY <1>1, <1>5 DEF AskToList
<1>6. ASSUME NEW p \in Players, NEW id \in DOMAIN listings, NEW amount \in Bids,
             PlaceBid(p, id, amount)
      PROVE  Borne(r)
    BY <1>1, <1>6 DEF PlaceBid
<1>7. CASE Tick \/ UNCHANGED vars \/ \E start \in Prices : PriceTooLow(start)
    BY <1>1, <1>7 DEF Tick, PriceTooLow, vars
<1> QED BY <1>2, <1>3, <1>4, <1>5, <1>6, <1>7 DEF Next

\* create_listing and buyout look at a wallet under the guard under which they
\* charge it: whatever prices are asked for, nobody gets into debt, or deeper
\* into it, but by the sale of a listing of their own at a negative price.
THEOREM OnlyNegativePricesIndebt == Spec => DebtsAreOwn
<1>1. TypeOK /\ [Next]_vars
          => [\A p \in Players : wallet'[p] < wallet[p] /\ wallet'[p] < 0 =>
                 \E id \in DOMAIN listings \ DOMAIN listings' :
                     listings[id].seller = p /\ listings[id].buyout < 0]_vars
    BY DebtStep DEF Borne
<1> QED BY <1>1, TypeCorrect, PTL DEF Spec, DebtsAreOwn

\* The highest bid of a listing is above its start price.
BidsAboveStart ==
    \A id \in DOMAIN listings : listings[id].bid # None => listings[id].bid > listings[id].start

Inv == TypeOK /\ BidsAboveStart

\* Only place_bid changes a listing, and it changes its bid alone.
LEMMA BidStands ==
    ASSUME Inv, NEW p \in Players, NEW id \in DOMAIN listings, NEW amount \in Bids,
           PlaceBid(p, id, amount)
    PROVE  /\ \A i \in DOMAIN listings' : Stands(i)
           /\ BidsAboveStart'
<1> DEFINE new == [listings[id] EXCEPT !.bid = amount, !.bidder = p]
<1>1. listings[id] \in Listing
    BY DEF Inv, TypeOK
<1>2. /\ new.bid = amount /\ new.bidder = p
      /\ <<new.seller, new.start, new.buyout, new.expires>>
            = <<listings[id].seller, listings[id].start, listings[id].buyout, listings[id].expires>>
    BY <1>1 DEF Listing
<1>3. listings' = [listings EXCEPT ![id] = new]
    BY DEF PlaceBid
<1>4. /\ now <= listings[id].expires
      /\ amount > listings[id].start
      /\ listings[id].bid # None => amount > listings[id].bid
      /\ amount <= wallet[p]
    <2>1. /\ now \in Nat /\ listings[id].expires \in Nat /\ wallet[p] \in Int
          /\ amount \in Int /\ listings[id].start \in Int
          /\ listings[id].bid # None => listings[id].bid \in Int
        BY <1>1, MarketAssumption DEF Inv, TypeOK, Listing
    <2>2. listings[id].bid # None => listings[id].bid > listings[id].start
        BY DEF Inv, BidsAboveStart
    <2> QED BY <2>1, <2>2 DEF PlaceBid, Expired, Outbids
<1> HIDE DEF new
<1>5. /\ DOMAIN listings' = DOMAIN listings /\ listings'[id] = new
      /\ \A i \in DOMAIN listings \ {id} : listings'[i] = listings[i]
    BY <1>3
<1>6. Stands(id)
    BY <1>2, <1>4, <1>5 DEF Stands
<1>7. \A i \in DOMAIN listings \ {id} : Stands(i)
    BY <1>5 DEF Stands
<1>8. listings'[id].bid > listings'[id].start
    BY <1>2, <1>4, <1>5
<1> QED BY <1>5, <1>6, <1>7, <1>8 DEF Inv, BidsAboveStart

LEMMA StandStep ==
    ASSUME Inv, [Next]_vars
    PROVE  /\ BidsAboveStart'
           /\ \A id \in DOMAIN listings \cap DOMAIN listings' : Stands(id)
<1> DEFINE Goal == /\ BidsAboveStart'
                   /\ \A id \in DOMAIN listings \cap DOMAIN listings' : Stands(id)
<1>1. ASSUME listings' = listings PROVE Goal
    BY <1>1 DEF Stands, Inv, BidsAboveStart
<1>2. ASSUME NEW s \in Sessions, List(s) PROVE Goal
    <2>1. /\ issued + 1 \notin DOMAIN listings
          /\ DOMAIN listings' = DOMAIN listings \cup {issued + 1}
          /\ \A id \in DOMAIN listings : listings'[id] = listings[id]
          /\ listings'[issued + 1].bid = None
        BY <1>2 DEF List, Inv, TypeOK
    <2> QED BY <2>1 DEF Stands, Inv, BidsAboveStart
<1>3. ASSUME NEW p \in Players, NEW id \in DOMAIN listings, NEW amount \in Bids,
             PlaceBid(p, id, amount)
      PROVE  Goal
    BY <1>3, BidStands
<1>4. ASSUME NEW p \in Players, NEW id \in DOMAIN listings, Buyout(p, id)
      PROVE  Goal
    <2>1. /\ DOMAIN listings' = DOMAIN listings \ {id}
          /\ \A i \in DOMAIN listings' : listings'[i] = listings[i]
        BY <1>4 DEF Buyout
    <2> QED BY <2>1 DEF Stands, Inv, BidsAboveStart
<1>5. ASSUME NEW s \in Sessions, RefuseListing(s) PROVE Goal
    BY <1>1, <1>5 DEF RefuseListing
<1>6. ASSUME NEW s \in Sessions, NEW p \in Players, NEW start \in Prices,
             NEW buyout \in Buyouts \cup {None}, AskToList(s, p, start, buyout)
      PROVE  Goal
    BY <1>1, <1>6 DEF AskToList
<1>7. CASE Tick \/ UNCHANGED vars \/ \E start \in Prices : PriceTooLow(start)
    BY <1>1, <1>7 DEF Tick, PriceTooLow, vars
<1> QED BY <1>2, <1>3, <1>4, <1>5, <1>6, <1>7 DEF Next

\* A listing that stays on the market keeps its terms, and its highest bid only
\* ever gives way to a higher one, in time and covered.
THEOREM ListingsStand == Spec => TermsStand
<1>1. Init => Inv
    BY MarketAssumption DEF Init, Inv, TypeOK, BidsAboveStart
<1>2. Inv /\ [Next]_vars => Inv'
    BY TypeStep, StandStep DEF Inv
<1>3. Inv /\ [Next]_vars
          => [\A id \in DOMAIN listings \cap DOMAIN listings' : Stands(id)]_vars
    BY StandStep
<1> QED BY <1>1, <1>2, <1>3, PTL DEF Spec, TermsStand

------------------------------------------------------------------------------
(* The books *)

\* sales and taxed are numbers.
Tallied == sales \in Nat /\ taxed \in Int

LEMMA TotalIsSum ==
    ASSUME NEW f \in [Players -> Int]
    PROVE  Total(f) = SumOver(f, Players) /\ Total(f) \in Int
<1>1. Total(f) = SumOver(f, Players)
    BY DEF Total, SumOver
<1>2. SumOver(f, Players) \in Int
    BY MarketAssumption, SumIsInt
<1> QED BY <1>1, <1>2

\* One wallet changes by d, and so do the chips of all.
LEMMA TotalChanges ==
    ASSUME NEW f \in [Players -> Int], NEW p \in Players, NEW d \in Int
    PROVE  /\ [f EXCEPT ![p] = @ + d] \in [Players -> Int]
           /\ Total([f EXCEPT ![p] = @ + d]) = Total(f) + d
<1> DEFINE h == [f EXCEPT ![p] = @ + d]
<1>1. h \in [Players -> Int] /\ h[p] = f[p] + d /\ \A y \in Players \ {p} : h[y] = f[y]
    OBVIOUS
<1> HIDE DEF h
<1>2. SumOver(h, Players) = SumOver(f, Players) + d
    BY <1>1, MarketAssumption, SumChanges
<1>3. Total(h) = Total(f) + d
    BY <1>1, <1>2, TotalIsSum
<1> QED BY <1>1, <1>3 DEF h

\* The ids on the market are finitely many.
LEMMA MarketFinite ==
    ASSUME TypeOK
    PROVE  IsFiniteSet(DOMAIN listings) /\ Cardinality(DOMAIN listings) \in Nat
<1>1. 1 \in Int /\ issued \in Int /\ DOMAIN listings \subseteq 1 .. issued
    BY DEF TypeOK
<1>2. IsFiniteSet(1 .. issued)
    BY <1>1, FS_Interval
<1> QED BY <1>1, <1>2, FS_Subset, FS_CardinalityType

LEMMA BooksInit == Init => BooksBalance /\ Tallied
<1> SUFFICES ASSUME Init PROVE BooksBalance /\ Tallied
    OBVIOUS
<1>1. /\ wallet \in [Players -> Int] /\ \A p \in Players : wallet[p] = StartWallet
      /\ DOMAIN listings = {} /\ sales = 0 /\ issued = 0 /\ taxed = 0
    BY MarketAssumption DEF Init
<1>2. Total(wallet) = StartWallet * Cardinality(Players)
    BY <1>1, MarketAssumption, SumOfEquals, TotalIsSum
<1>3. Total(wallet) \in Int /\ Fee * 0 = 0
    BY <1>1, TotalIsSum, MarketAssumption
<1>4. Cardinality(DOMAIN listings) = 0
    BY <1>1, FS_EmptySet
<1> QED BY <1>1, <1>2, <1>3, <1>4 DEF BooksBalance, Tallied

LEMMA ListBooks ==
    ASSUME TypeOK, Tallied, BooksBalance, NEW s \in Sessions, List(s)
    PROVE  BooksBalance' /\ Tallied'
<1> DEFINE p == asked[s].seller
<1>1. p \in Players
    BY RequestFields DEF List
<1>2. /\ wallet' = [wallet EXCEPT ![p] = @ - Fee]
      /\ DOMAIN listings' = DOMAIN listings \cup {issued + 1}
      /\ issued' = issued + 1 /\ sales' = sales /\ taxed' = taxed
    BY DEF List
<1> HIDE DEF p
<1>3. wallet \in [Players -> Int] /\ - Fee \in Int /\ issued \in Nat
    BY MarketAssumption DEF TypeOK
<1>4. wallet' = [wallet EXCEPT ![p] = @ + (- Fee)]
    BY <1>1, <1>2, <1>3, MarketAssumption
<1>5. Total(wallet') = Total(wallet) + (- Fee)
    BY <1>1, <1>3, <1>4, TotalChanges
<1>6. issued + 1 \notin DOMAIN listings
    BY DEF TypeOK
<1>7. Cardinality(DOMAIN listings') = Cardinality(DOMAIN listings) + 1
    BY <1>2, <1>6, MarketFinite, FS_AddElement
<1>8. Fee * (issued + 1) = Fee * issued + Fee
    BY <1>3, MarketAssumption
<1>9. Fee * issued \in Int /\ Fee \in Int /\ Total(wallet) \in Int
    BY <1>3, MarketAssumption, TotalIsSum
<1>10. Total(wallet') + Fee * issued' + taxed' = Total(wallet) + Fee * issued + taxed
    BY <1>2, <1>5, <1>8, <1>9 DEF Tallied
<1>11. Cardinality(DOMAIN listings') + sales' = issued'
    BY <1>2, <1>3, <1>7, MarketFinite DEF BooksBalance, Tallied
<1> QED BY <1>2, <1>10, <1>11 DEF BooksBalance, Tallied

LEMMA BuyoutBooks ==
    ASSUME TypeOK, Tallied, BooksBalance,
           NEW p \in Players, NEW id \in DOMAIN listings, Buyout(p, id)
    PROVE  BooksBalance' /\ Tallied'
<1> DEFINE price == listings[id].buyout
           q == listings[id].seller
<1>1. q \in Players /\ price \in Int
    BY MarketAssumption DEF Buyout, TypeOK, Listing
<1>2. /\ Pay(p, q, price)
      /\ taxed' = taxed + Tax(price) /\ sales' = sales + 1 /\ issued' = issued
      /\ DOMAIN listings' = DOMAIN listings \ {id}
    BY DEF Buyout
<1> HIDE DEF price, q
<1> DEFINE charged == [wallet EXCEPT ![p] = @ + (- price)]
           paid == price - Tax(price)
<1>3. /\ wallet \in [Players -> Int] /\ Tax(price) \in Int
      /\ - price \in Int /\ paid \in Int
    BY <1>1, TaxIsInt DEF TypeOK
<1>4. charged \in [Players -> Int] /\ Total(charged) = Total(wallet) + (- price)
    BY <1>3, TotalChanges
<1>5. wallet' = [charged EXCEPT ![q] = @ + paid]
    <2>1. charged = [wallet EXCEPT ![p] = @ - price]
        BY <1>1, <1>3
    <2> QED BY <1>2, <2>1 DEF Pay
<1> HIDE DEF charged, paid
<1>6. Total(wallet') = Total(charged) + paid
    <2>1. Total([charged EXCEPT ![q] = @ + paid]) = Total(charged) + paid
        <3>1. q \in Players /\ paid \in Int /\ charged \in [Players -> Int]
            BY <1>1, <1>3, <1>4
        <3> QED BY <3>1, TotalChanges, Zenon
    <2> QED BY <1>5, <2>1
<1>7. Cardinality(DOMAIN listings') = Cardinality(DOMAIN listings) - 1
    BY <1>2, MarketFinite, FS_RemoveElement
<1>8. Total(wallet) \in Int /\ issued \in Nat /\ Fee * issued \in Int
    BY <1>3, TotalIsSum, MarketAssumption DEF TypeOK
<1>9. Total(wallet') + Fee * issued' + taxed' = Total(wallet) + Fee * issued + taxed
    BY <1>1, <1>2, <1>3, <1>4, <1>6, <1>8 DEF Tallied, paid
<1>10. Cardinality(DOMAIN listings') + sales' = issued'
    BY <1>2, <1>7, MarketFinite DEF BooksBalance, Tallied
<1> QED BY <1>2, <1>3, <1>9, <1>10 DEF BooksBalance, Tallied

LEMMA BooksStep == TypeOK /\ Tallied /\ BooksBalance /\ [Next]_vars => BooksBalance' /\ Tallied'
<1> SUFFICES ASSUME TypeOK, Tallied, BooksBalance, [Next]_vars PROVE BooksBalance' /\ Tallied'
    OBVIOUS
<1>1. ASSUME UNCHANGED <<wallet, issued, sales, taxed>>, DOMAIN listings' = DOMAIN listings
      PROVE  BooksBalance' /\ Tallied'
    BY <1>1 DEF BooksBalance, Tallied
<1>2. ASSUME NEW s \in Sessions, List(s) PROVE BooksBalance' /\ Tallied'
    BY <1>2, ListBooks
<1>3. ASSUME NEW p \in Players, NEW id \in DOMAIN listings, NEW amount \in Bids,
             PlaceBid(p, id, amount)
      PROVE  BooksBalance' /\ Tallied'
    BY <1>1, <1>3 DEF PlaceBid, history
<1>4. ASSUME NEW p \in Players, NEW id \in DOMAIN listings, Buyout(p, id)
      PROVE  BooksBalance' /\ Tallied'
    BY <1>4, BuyoutBooks
<1>5. ASSUME NEW s \in Sessions, RefuseListing(s) PROVE BooksBalance' /\ Tallied'
    BY <1>1, <1>5 DEF RefuseListing, history
<1>6. ASSUME NEW s \in Sessions, NEW p \in Players, NEW start \in Prices,
             NEW buyout \in Buyouts \cup {None}, AskToList(s, p, start, buyout)
      PROVE  BooksBalance' /\ Tallied'
    BY <1>1, <1>6 DEF AskToList, history
<1>7. CASE Tick \/ UNCHANGED vars \/ \E start \in Prices : PriceTooLow(start)
    BY <1>1, <1>7 DEF Tick, PriceTooLow, vars, history
<1> QED BY <1>2, <1>3, <1>4, <1>5, <1>6, <1>7 DEF Next

\* The books balance: every listing is on the market or was sold exactly once,
\* and only fees and taxes ever leave the wallets, whatever the prices are and
\* also when a player buys from themself (create_listing, buyout).
THEOREM MarketBooksBalance == Spec => []BooksBalance
<1>1. TypeOK /\ Tallied /\ BooksBalance /\ [Next]_vars => (Tallied /\ BooksBalance)'
    BY BooksStep
<1> QED BY <1>1, BooksInit, TypeCorrect, PTL DEF Spec

------------------------------------------------------------------------------
(* The throttle *)

\* The listings of p entered with a time in the 30 seconds from t on, and the
\* sessions that wait with one of p's, taken before those are over.
In(p, t) == {i \in DOMAIN made : made[i].seller = p /\ made[i].at \in t .. t + Window}

Late(p, t) ==
    {s \in Sessions : asked[s] # None /\ asked[s].seller = p /\ asked[s].at <= t + Window}

Limit == 2 * MaxPerWindow - 1 + (Cardinality(Sessions) - 1)

\* How many listings c there are in the 30 seconds from t on, by where the
\* window w of the seller began: long before them there is none, shortly
\* before them the window still counts the one that opened it, within them one
\* more window fits in front, and once it began after them only the l
\* listings that still wait can be added.
Throttled(w, c, l, t) ==
    /\ w = None => c = 0
    /\ w # None =>
          /\ w.since + Window < t => c = 0
          /\ w.since + Window >= t /\ w.since < t => c <= w.count - 1
          /\ w.since >= t /\ w.since <= t + Window => c <= w.count + MaxPerWindow - 1
          /\ w.since > t + Window => c + l <= Limit

\* No clock of a window or of a call is ahead.
Clocked ==
    /\ \A p \in Players : window[p] # None => window[p].since <= now
    /\ \A s \in Sessions : asked[s] # None => asked[s].at <= now

MadeTyped ==
    /\ made \in Seq([seller: Players, at: Nat])
    /\ made # <<>> => Sessions # {}

WindowsThrottle ==
    \A p \in Players, t \in Nat :
        Throttled(window[p], Cardinality(In(p, t)), Cardinality(Late(p, t)), t)

ThrottleInv == Clocked /\ MadeTyped /\ WindowsThrottle

LEMMA CountsTyped ==
    ASSUME MadeTyped, NEW p, NEW t
    PROVE  /\ IsFiniteSet(In(p, t)) /\ Cardinality(In(p, t)) \in Nat
           /\ IsFiniteSet(Late(p, t)) /\ Cardinality(Late(p, t)) \in Nat
           /\ Cardinality(Sessions) \in Nat
<1>1. DOMAIN made = 1 .. Len(made) /\ Len(made) \in Int /\ 1 \in Int
    BY DEF MadeTyped
<1>2. IsFiniteSet(DOMAIN made)
    BY <1>1, FS_Interval
<1>3. In(p, t) \subseteq DOMAIN made /\ Late(p, t) \subseteq Sessions
    BY DEF In, Late
<1> QED BY <1>2, <1>3, MarketAssumption, FS_Subset, FS_CardinalityType

\* A call is served in the window it finds: the count of the window and that
\* of the 30 seconds go up together.
LEMMA ServedInWindow ==
    ASSUME NEW w \in [since: Nat, count: 0 .. MaxPerWindow], w # None, w.count < MaxPerWindow,
           NEW at \in Nat, at <= w.since + Window,
           NEW t \in Nat, NEW c \in Nat, NEW l \in Nat, NEW d \in Nat, NEW k \in Nat,
           Throttled(w, c, l, t),
           at >= t /\ at <= t + Window => d = c + 1 /\ k <= l - 1,
           ~ (at >= t /\ at <= t + Window) => d = c /\ k <= l,
           Cardinality(Sessions) \in Nat
    PROVE  Throttled([w EXCEPT !.count = @ + 1], d, k, t)
<1> DEFINE v == [w EXCEPT !.count = @ + 1]
<1>1. /\ v.since = w.since /\ v.count = w.count + 1 /\ v # None
      /\ w.since \in Nat /\ w.count \in Nat /\ Window \in Nat /\ MaxPerWindow \in Nat
    <2>1. /\ v.since = w.since /\ v.count = w.count + 1 /\ v \in [since: Nat, count: Nat]
          /\ w.since \in Nat /\ w.count \in Nat
        BY MarketAssumption
    <2> QED BY <2>1, NoneAssumption, MarketAssumption
<1> HIDE DEF v
<1>2. Throttled(v, d, k, t)
    BY <1>1 DEF Throttled, Limit
<1> QED BY <1>2 DEF v

\* A call opens a new window: the old one, if any, began so long ago that what
\* it counted and the new listing fit into one limit, and the session served
\* no longer waits.
LEMMA ServedInNewWindow ==
    ASSUME NEW w \in [since: Nat, count: 0 .. MaxPerWindow] \cup {None},
           NEW at \in Nat, w # None => at > w.since + Window,
           NEW t \in Nat, NEW c \in Nat, NEW l \in Nat, NEW d \in Nat, NEW k \in Nat,
           Throttled(w, c, l, t),
           at >= t /\ at <= t + Window => d = c + 1,
           ~ (at >= t /\ at <= t + Window) => d = c,
           k <= l, k <= Cardinality(Sessions) - 1,
           Cardinality(Sessions) \in Nat
    PROVE  Throttled([since |-> at, count |-> 1], d, k, t)
<1> DEFINE v == [since |-> at, count |-> 1]
<1>1. v.since = at /\ v.count = 1 /\ v # None
    <2>1. v \in [since: Nat, count: Nat]
        OBVIOUS
    <2> QED BY <2>1, NoneAssumption
<1>2. Window \in Nat /\ MaxPerWindow \in Nat \ {0}
    BY MarketAssumption
<1> HIDE DEF v
<1>3. ASSUME w = None PROVE Throttled(v, d, k, t)
    BY <1>1, <1>2, <1>3 DEF Throttled, Limit
<1>4. ASSUME w # None PROVE Throttled(v, d, k, t)
    <2>1. w.since \in Nat /\ w.count \in Nat /\ w.count <= MaxPerWindow
        BY <1>2, <1>4
    <2> QED BY <1>1, <1>2, <1>4, <2>1 DEF Throttled, Limit
<1> QED BY <1>3, <1>4 DEF v

\* Nothing is entered, and no session waits that did not wait before.
LEMMA NothingEntered ==
    ASSUME TypeOK, MadeTyped, WindowsThrottle, UNCHANGED <<window, made>>,
           NEW p \in Players, NEW t \in Nat, Late(p, t)' \subseteq Late(p, t)
    PROVE  Throttled(window'[p], Cardinality(In(p, t)'), Cardinality(Late(p, t)'), t)
<1> DEFINE c == Cardinality(In(p, t))
           l == Cardinality(Late(p, t))
           k == Cardinality(Late(p, t)')
<1>1. In(p, t)' = In(p, t) /\ window' = window
    BY DEF In
<1>2. c \in Nat /\ l \in Nat /\ k \in Nat /\ k <= l /\ Cardinality(Sessions) \in Nat
    BY CountsTyped, FS_Subset, FS_CardinalityType
<1>3. Throttled(window[p], c, l, t)
    BY DEF WindowsThrottle
<1> HIDE DEF c, l, k
<1>4. window[p] = None \/ window[p].since \in Nat
    BY DEF TypeOK
<1>5. Throttled(window[p], c, k, t)
    BY <1>2, <1>3, <1>4, MarketAssumption DEF Throttled, Limit
<1> QED BY <1>1, <1>5 DEF c, k

LEMMA ListThrottle ==
    ASSUME TypeOK, ThrottleInv, NEW s \in Sessions, List(s)
    PROVE  ThrottleInv'
<1> DEFINE p == asked[s].seller
           at == asked[s].at
           e == [seller |-> p, at |-> at]
<1>1. p \in Players /\ at \in Nat /\ at <= now /\ asked[s] # None
    BY RequestFields DEF List, ThrottleInv, Clocked
<1>2. /\ window' = [window EXCEPT ![p] = [WindowAt(p, at) EXCEPT !.count = @ + 1]]
      /\ made' = Append(made, e)
      /\ asked' = [asked EXCEPT ![s] = None]
      /\ now' = now /\ MayList(p, at)
    BY DEF List
<1>3. e \in [seller: Players, at: Nat] /\ e.seller = p /\ e.at = at
    BY <1>1
<1>4. made \in Seq([seller: Players, at: Nat])
    BY DEF ThrottleInv, MadeTyped
<1> HIDE DEF p, at, e
<1>5. MadeTyped'
    BY <1>2, <1>3, <1>4 DEF MadeTyped
<1>6. /\ WindowAt(p, at) \in [since: Nat, count: 0 .. MaxPerWindow]
      /\ WindowAt(p, at).count < MaxPerWindow
    BY <1>1, <1>2, WindowFits DEF MayList
<1>7. /\ window'[p] = [WindowAt(p, at) EXCEPT !.count = @ + 1]
      /\ \A q \in Players \ {p} : window'[q] = window[q]
    BY <1>1, <1>2 DEF TypeOK
<1>8. /\ asked'[s] = None /\ \A r \in Sessions \ {s} : asked'[r] = asked[r]
    BY <1>2 DEF TypeOK
<1>9. Clocked'
    <2>1. WindowAt(p, at).since <= now
        BY <1>1 DEF WindowAt, ThrottleInv, Clocked
    <2>2. window'[p].since = WindowAt(p, at).since
        BY <1>6, <1>7
    <2>3. \A q \in Players : window'[q] # None => window'[q].since <= now
        BY <1>1, <1>7, <2>1, <2>2 DEF ThrottleInv, Clocked
    <2>4. \A r \in Sessions : asked'[r] # None => asked'[r].at <= now
        BY <1>8 DEF ThrottleInv, Clocked
    <2> QED BY <1>2, <2>3, <2>4 DEF Clocked
<1>10. ASSUME NEW q \in Players, NEW t \in Nat
       PROVE  /\ Late(q, t)' = Late(q, t) \ {s}
              /\ Cardinality(Late(q, t)') \in Nat
              /\ Cardinality(Late(q, t)') <= Cardinality(Late(q, t))
              /\ Cardinality(Late(q, t)') <= Cardinality(Sessions) - 1
              /\ s \in Late(q, t) => Cardinality(Late(q, t)') = Cardinality(Late(q, t)) - 1
    <2>1. Late(q, t)' = Late(q, t) \ {s}
        BY <1>8 DEF Late
    <2>2. /\ IsFiniteSet(Late(q, t)) /\ IsFiniteSet(Sessions \ {s})
          /\ Cardinality(Sessions \ {s}) = Cardinality(Sessions) - 1
        BY CountsTyped, MarketAssumption, FS_RemoveElement DEF ThrottleInv
    <2>3. Late(q, t) \ {s} \subseteq Late(q, t) /\ Late(q, t) \ {s} \subseteq Sessions \ {s}
        BY DEF Late
    <2> QED BY <2>1, <2>2, <2>3, FS_Subset, FS_CardinalityType, FS_RemoveElement
<1>11. ASSUME NEW q \in Players, NEW t \in Nat
       PROVE  /\ q = p /\ at >= t /\ at <= t + Window
                    => Cardinality(In(q, t)') = Cardinality(In(q, t)) + 1
              /\ ~ (q = p /\ at >= t /\ at <= t + Window) => In(q, t)' = In(q, t)
    <2>1. /\ Len(made) + 1 \notin DOMAIN made /\ DOMAIN made' = DOMAIN made \cup {Len(made) + 1}
          /\ made'[Len(made) + 1] = e /\ \A i \in DOMAIN made : made'[i] = made[i]
        BY <1>2, <1>3, <1>4
    <2>2. t + Window \in Nat
        BY MarketAssumption
    <2>3. CASE q = p /\ at >= t /\ at <= t + Window
        <3>1. In(q, t)' = In(q, t) \cup {Len(made) + 1} /\ Len(made) + 1 \notin In(q, t)
            BY <1>1, <1>3, <2>1, <2>2, <2>3 DEF In
        <3> QED BY <2>3, <3>1, CountsTyped, FS_AddElement DEF ThrottleInv
    <2>4. CASE ~ (q = p /\ at >= t /\ at <= t + Window)
        BY <1>1, <1>3, <2>1, <2>2, <2>4 DEF In
    <2> QED BY <2>3, <2>4
<1>12. ASSUME NEW q \in Players, NEW t \in Nat
       PROVE  Throttled(window'[q], Cardinality(In(q, t)'), Cardinality(Late(q, t)'), t)
    <2> DEFINE c == Cardinality(In(q, t))
               d == Cardinality(In(q, t)')
               l == Cardinality(Late(q, t))
               k == Cardinality(Late(q, t)')
    <2>1. /\ c \in Nat /\ l \in Nat /\ k \in Nat /\ k <= l /\ k <= Cardinality(Sessions) - 1
          /\ Cardinality(Sessions) \in Nat /\ (s \in Late(q, t) => k = l - 1)
        BY <1>10, CountsTyped DEF ThrottleInv
    <2>2. /\ q = p /\ at >= t /\ at <= t + Window => d = c + 1 /\ k = l - 1
          /\ ~ (q = p /\ at >= t /\ at <= t + Window) => d = c
        BY <1>1, <1>11, <2>1 DEF Late, p, at
    <2>3. Throttled(window[q], c, l, t)
        BY DEF ThrottleInv, WindowsThrottle
    <2> HIDE DEF c, d, l, k
    <2>4. d \in Nat
        BY <2>1, <2>2
    <2>5. CASE q # p
        <3>1. window'[q] = window[q] /\ d = c
            BY <1>7, <2>2, <2>5
        <3>2. window[q] = None \/ window[q].since \in Nat
            BY DEF TypeOK
        <3>3. Throttled(window[q], c, k, t)
            BY <2>1, <2>3, <3>2, MarketAssumption DEF Throttled, Limit
        <3> QED BY <3>1, <3>3 DEF c, d, k
    <2>6. CASE q = p /\ window[p] # None /\ at <= window[p].since + Window
        <3>1. window[p] \in [since: Nat, count: 0 .. MaxPerWindow]
            BY <1>1, <2>6 DEF TypeOK
        <3>2. WindowAt(p, at) = window[p]
            BY <1>1, <2>6, <3>1, MarketAssumption DEF WindowAt
        <3>3. Throttled([window[p] EXCEPT !.count = @ + 1], d, k, t)
            <4>1. /\ window[p] # None /\ window[p].count < MaxPerWindow
                  /\ at <= window[p].since + Window /\ Throttled(window[p], c, l, t)
                  /\ at >= t /\ at <= t + Window => d = c + 1 /\ k <= l - 1
                  /\ ~ (at >= t /\ at <= t + Window) => d = c /\ k <= l
                BY <1>6, <2>1, <2>2, <2>3, <2>6, <3>2
            <4> QED BY <1>1, <2>1, <2>4, <3>1, <4>1, ServedInWindow, Zenon
        <3> QED BY <1>7, <2>6, <3>2, <3>3 DEF d, k
    <2>7. CASE q = p /\ (window[p] # None => at > window[p].since + Window)
        <3>1. window[p] \in [since: Nat, count: 0 .. MaxPerWindow] \cup {None}
            BY <1>1 DEF TypeOK
        <3>2. WindowAt(p, at) = [since |-> at, count |-> 0]
            BY <1>1, <2>7, <3>1, MarketAssumption DEF WindowAt
        <3>3. [[since |-> at, count |-> 0] EXCEPT !.count = @ + 1] = [since |-> at, count |-> 1]
            OBVIOUS
        <3>4. Throttled([since |-> at, count |-> 1], d, k, t)
            BY <1>1, <2>1, <2>2, <2>3, <2>4, <2>7, <3>1, ServedInNewWindow
        <3> QED BY <1>7, <2>7, <3>2, <3>3, <3>4 DEF d, k
    <2>8. window[p] # None => window[p].since \in Nat
        BY <1>1 DEF TypeOK
    <2> QED BY <1>1, <2>5, <2>6, <2>7, <2>8, MarketAssumption
<1>13. WindowsThrottle'
    BY <1>12 DEF WindowsThrottle
<1> QED BY <1>5, <1>9, <1>13 DEF ThrottleInv

LEMMA AskThrottle ==
    ASSUME TypeOK, ThrottleInv, NEW s \in Sessions, NEW p \in Players, NEW start \in Prices,
           NEW buyout \in Buyouts \cup {None}, AskToList(s, p, start, buyout)
    PROVE  ThrottleInv'
<1>1. /\ asked[s] = None /\ asked'[s].seller = p /\ asked'[s].at = now
      /\ \A r \in Sessions \ {s} : asked'[r] = asked[r]
      /\ now' = now /\ UNCHANGED <<window, made>>
    BY DEF AskToList, TypeOK, history
<1>2. Clocked' /\ MadeTyped'
    <2>1. MadeTyped'
        BY <1>1 DEF ThrottleInv, MadeTyped
    <2>2. now <= now
        BY DEF TypeOK
    <2>3. \A r \in Sessions : asked'[r] # None => asked'[r].at <= now
        BY <1>1, <2>2 DEF ThrottleInv, Clocked
    <2>4. \A q \in Players : window'[q] # None => window'[q].since <= now
        BY <1>1 DEF ThrottleInv, Clocked
    <2> QED BY <1>1, <2>1, <2>3, <2>4 DEF Clocked
<1>3. ASSUME NEW q \in Players, NEW t \in Nat
      PROVE  Throttled(window'[q], Cardinality(In(q, t)'), Cardinality(Late(q, t)'), t)
    <2>1. CASE Late(q, t)' \subseteq Late(q, t)
        BY <1>1, <2>1, NothingEntered DEF ThrottleInv
    <2>2. CASE ~ (Late(q, t)' \subseteq Late(q, t))
        \* The call is taken now, so the window cannot have begun later.
        <3>1. now <= t + Window
            BY <1>1, <2>2 DEF Late
        <3>2. window[q] = None \/ (window[q].since \in Nat /\ window[q].since <= now)
            BY DEF ThrottleInv, Clocked, TypeOK
        <3>3. Throttled(window[q], Cardinality(In(q, t)), Cardinality(Late(q, t)), t)
            BY DEF ThrottleInv, WindowsThrottle
        <3>4. window'[q] = window[q] /\ In(q, t)' = In(q, t)
            BY <1>1 DEF In
        <3>5. now \in Nat /\ Window \in Nat
            BY MarketAssumption DEF TypeOK
        <3> QED BY <3>1, <3>2, <3>3, <3>4, <3>5 DEF Throttled
    <2> QED BY <2>1, <2>2
<1>4. WindowsThrottle'
    BY <1>3 DEF WindowsThrottle
<1> QED BY <1>2, <1>4 DEF ThrottleInv

LEMMA ThrottleStep == TypeOK /\ ThrottleInv /\ [Next]_vars => ThrottleInv'
<1> SUFFICES ASSUME TypeOK, ThrottleInv, [Next]_vars PROVE ThrottleInv'
    OBVIOUS
<1>1. ASSUME UNCHANGED <<window, made>>, Clocked',
             \A q \in Players, t \in Nat : Late(q, t)' \subseteq Late(q, t)
      PROVE  ThrottleInv'
    <2>1. \A q \in Players, t \in Nat :
             Throttled(window'[q], Cardinality(In(q, t)'), Cardinality(Late(q, t)'), t)
        BY <1>1, NothingEntered DEF ThrottleInv
    <2> QED BY <1>1, <2>1 DEF ThrottleInv, MadeTyped, WindowsThrottle
<1>2. ASSUME UNCHANGED <<window, made, asked>>, now' \in Nat, now' >= now
      PROVE  ThrottleInv'
    <2>1. /\ \A q \in Players : window[q] # None => window[q].since \in Nat
          /\ \A s \in Sessions : asked[s] # None => asked[s].at \in Nat
          /\ now \in Nat
        BY RequestFields DEF TypeOK
    <2>2. Clocked'
        BY <1>2, <2>1 DEF ThrottleInv, Clocked
    <2> QED BY <1>1, <1>2, <2>2 DEF Late
<1>3. ASSUME NEW s \in Sessions, List(s) PROVE ThrottleInv'
    BY <1>3, ListThrottle
<1>4. ASSUME NEW s \in Sessions, RefuseListing(s) PROVE ThrottleInv'
    <2>1. /\ asked'[s] = None /\ \A r \in Sessions \ {s} : asked'[r] = asked[r]
          /\ now' = now /\ UNCHANGED <<window, made>>
        BY <1>4 DEF RefuseListing, TypeOK, history
    <2>2. Clocked'
        BY <2>1 DEF ThrottleInv, Clocked
    <2>3. \A q \in Players, t \in Nat : Late(q, t)' \subseteq Late(q, t)
        BY <2>1 DEF Late
    <2> QED BY <1>1, <2>1, <2>2, <2>3
<1>5. ASSUME NEW s \in Sessions, NEW p \in Players, NEW start \in Prices,
             NEW buyout \in Buyouts \cup {None}, AskToList(s, p, start, buyout)
      PROVE  ThrottleInv'
    BY <1>5, AskThrottle
<1>6. ASSUME NEW p \in Players, NEW id \in DOMAIN listings, NEW amount \in Bids,
             PlaceBid(p, id, amount)
      PROVE  ThrottleInv'
    BY <1>2, <1>6 DEF PlaceBid, history, TypeOK
<1>7. ASSUME NEW p \in Players, NEW id \in DOMAIN listings, Buyout(p, id)
      PROVE  ThrottleInv'
    BY <1>2, <1>7 DEF Buyout, TypeOK
<1>8. CASE Tick \/ UNCHANGED vars \/ \E start \in Prices : PriceTooLow(start)
    BY <1>2, <1>8 DEF Tick, PriceTooLow, vars, history, TypeOK
<1> QED BY <1>3, <1>4, <1>5, <1>6, <1>7, <1>8 DEF Next

\* The invariant bounds every 30 seconds, whatever has become of the window.
LEMMA ThrottleBounds == TypeOK /\ ThrottleInv => ListingsAreThrottled
<1> SUFFICES ASSUME TypeOK, ThrottleInv, NEW p \in Players, NEW t \in 0 .. now
             PROVE  Cardinality(In(p, t)) <= Limit
    BY DEF ListingsAreThrottled, In, Limit
<1>1. /\ t \in Nat /\ MaxPerWindow \in Nat \ {0} /\ Window \in Nat
      /\ Cardinality(In(p, t)) \in Nat /\ Cardinality(Late(p, t)) \in Nat
      /\ Cardinality(Sessions) \in Nat
    BY CountsTyped, MarketAssumption DEF ThrottleInv, TypeOK
<1>2. CASE made = <<>>
    <2>1. In(p, t) = {}
        BY <1>2 DEF In
    <2> QED BY <1>1, <2>1, FS_EmptySet DEF Limit
<1>3. CASE made # <<>>
    <2>1. Cardinality(Sessions) >= 1
        BY <1>1, <1>3, MarketAssumption, FS_EmptySet DEF ThrottleInv, MadeTyped
    <2>2. window[p] = None \/ window[p] \in [since: Nat, count: 0 .. MaxPerWindow]
        BY DEF TypeOK
    <2>3. Throttled(window[p], Cardinality(In(p, t)), Cardinality(Late(p, t)), t)
        BY <1>1 DEF ThrottleInv, WindowsThrottle
    <2>4. CASE window[p] = None
        BY <1>1, <2>1, <2>3, <2>4 DEF Throttled, Limit
    <2>5. CASE window[p] # None
        <3>1. window[p].since \in Nat /\ window[p].count \in 0 .. MaxPerWindow
            BY <2>2, <2>5
        <3> QED BY <1>1, <2>1, <2>3, <2>5, <3>1 DEF Throttled, Limit
    <2> QED BY <2>4, <2>5
<1> QED BY <1>2, <1>3

\* For any number of sessions, however long each call waits for the lock and in
\* whatever order they get it: any 30 seconds see less than two windows' worth
\* of a seller's listings and one late listing from each other session.
THEOREM SellersAreThrottled == Spec => []ListingsAreThrottled
<1>1. Init => ThrottleInv
    <2> SUFFICES ASSUME Init PROVE ThrottleInv
        OBVIOUS
    <2>1. \A p \in Players, t \in Nat : In(p, t) = {}
        BY DEF Init, In
    <2>2. \A p \in Players : window[p] = None
        BY DEF Init
    <2>3. WindowsThrottle
        BY <2>1, <2>2, FS_EmptySet, Zenon DEF WindowsThrottle, Throttled
    <2>4. Clocked /\ MadeTyped
        BY <2>2 DEF Init, Clocked, MadeTyped
    <2> QED BY <2>3, <2>4 DEF ThrottleInv
<1> QED BY <1>1, ThrottleStep, ThrottleBounds, TypeCorrect, PTL DEF Spec

=============================================================================

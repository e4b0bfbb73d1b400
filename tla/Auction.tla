------------------------------ MODULE Auction ------------------------------
(***************************************************************************)
(* The auction house: create_listing, place_bid and buyout of              *)
(* crates/world/src/lib.rs, as the "auction" commands reach them.          *)
(* place_bid and buyout do all their work, the look at the clock included, *)
(* under the world's write lock.  create_listing reads the clock BEFORE it *)
(* queues for the lock, so it is two steps: a listing may be entered in    *)
(* the market, and counted in its seller's window, with a time that        *)
(* another session of the seller has already overtaken.                    *)
(* Goods are left out: the code moves chips only, and a listing names an   *)
(* item nobody has to own.                                                 *)
(***************************************************************************)
EXTENDS Integers, Sequences, FiniteSets, FiniteSetsExt

CONSTANTS
    Players, Sessions, None,
    StartWallet,   \* chips of every player at first (the code: 500)
    Prices,        \* start prices players ask for
    Buyouts,       \* buyout prices players ask for: any i64 the command parses
    Bids,          \* amounts players bid
    Floor,         \* MIN_PRICE_FLOOR, 25
    Fee,           \* LISTING_FEE, 10
    MaxPerWindow,  \* MAX_LISTINGS_PER_30S, 3
    Window,        \* the 30 seconds, in units of the model's clock
    Lifetime,      \* the 12 hours of a listing, likewise
    MaxTime, MaxListings  \* bounds on the clock and on the listings ever made

ASSUME NoneAssumption ==
    None \notin Players /\ None \notin Int /\ None \notin [since: Nat, count: Nat]
ASSUME MarketAssumption ==
    /\ IsFiniteSet(Players) /\ IsFiniteSet(Sessions)
    /\ StartWallet \in Nat /\ Floor \in Nat /\ Fee \in Nat
    /\ Prices \subseteq Int /\ Buyouts \subseteq Int /\ Bids \subseteq Int
    /\ MaxPerWindow \in Nat \ {0} /\ Window \in Nat /\ Lifetime \in Nat

VARIABLES
    now,       \* the clock
    wallet,    \* PlayerProfile::wallet
    listings,  \* WorldState::auctions, by id
    window,    \* WorldState::listing_count_window: [since, count] by seller
    asked,     \* the create_listing each session waits with
    issued,    \* ids drawn so far
    sales, taxed, made  \* history: listings sold, tax kept, listings entered

history == <<sales, taxed, made>>
vars == <<now, wallet, listings, window, asked, issued, history>>

Request == [seller: Players, start: Prices, buyout: Buyouts \cup {None}, at: Nat]

\* What was asked for, the expiry it gave, and the highest bid with its bidder.
Listing == [seller: Players, start: Prices, buyout: Buyouts \cup {None},
            expires: Nat, bid: Bids \cup {None}, bidder: Players \cup {None}]

\* price * 300 / 10_000 on i64: the quotient is cut off towards zero.
Tax(price) == IF price >= 0 THEN (price * 300) \div 10000
                            ELSE - ((- price * 300) \div 10000)

Init ==
    /\ now = 0
    /\ wallet = [p \in Players |-> StartWallet]
    /\ listings = <<>>
    /\ window = [p \in Players |-> None]
    /\ asked = [s \in Sessions |-> None]
    /\ issued = 0
    /\ sales = 0 /\ taxed = 0 /\ made = <<>>

Tick ==
    /\ now < MaxTime
    /\ now' = now + 1
    /\ UNCHANGED <<wallet, listings, window, asked, issued, history>>

(***************************************************************************)
(* create_listing.                                                         *)
(***************************************************************************)
\* The price is held against the floor and the time is taken, without a lock.
AskToList(s, p, start, buyout) ==
    /\ asked[s] = None
    /\ start >= Floor
    /\ issued + Cardinality({t \in Sessions : asked[t] # None}) < MaxListings
    /\ asked' = [asked EXCEPT ![s] =
                    [seller |-> p, start |-> start, buyout |-> buyout, at |-> now]]
    /\ UNCHANGED <<now, wallet, listings, window, issued, history>>

PriceTooLow(start) == start < Floor /\ UNCHANGED vars

\* Mutant of WindowAt: the window ends after exactly 30 seconds.
WindowAtOneEarly(p, at) ==
    IF window[p] = None THEN [since |-> at, count |-> 0]
    ELSE IF at - window[p].since >= Window THEN [since |-> at, count |-> 0]
    ELSE window[p]

\* The seller's window as it stands at time "at": a new one if there is none
\* yet or the last one began more than 30 seconds before.
WindowAt(p, at) ==
    IF window[p] = None THEN [since |-> at, count |-> 0]
    ELSE IF at - window[p].since > Window THEN [since |-> at, count |-> 0]
    ELSE window[p]

\* Mutant of MayList: one listing too many in a window.
MayListOneMore(p, at) == wallet[p] >= Fee /\ WindowAt(p, at).count <= MaxPerWindow

MayList(p, at) == wallet[p] >= Fee /\ WindowAt(p, at).count < MaxPerWindow

\* The lock is granted and the listing entered.
List(s) ==
    /\ asked[s] # None
    /\ LET r == asked[s]
           w == WindowAt(r.seller, r.at)
       IN  /\ MayList(r.seller, r.at)
           /\ window' = [window EXCEPT ![r.seller] = [w EXCEPT !.count = @ + 1]]
           /\ wallet' = [wallet EXCEPT ![r.seller] = @ - Fee]
           /\ listings' = [id \in DOMAIN listings \cup {issued + 1} |->
                 IF id = issued + 1
                 THEN [seller |-> r.seller, start |-> r.start, buyout |-> r.buyout,
                       expires |-> r.at + Lifetime, bid |-> None, bidder |-> None]
                 ELSE listings[id]]
           /\ made' = Append(made, [seller |-> r.seller, at |-> r.at])
    /\ issued' = issued + 1
    /\ asked' = [asked EXCEPT ![s] = None]
    /\ UNCHANGED <<now, sales, taxed>>

\* No chips for the fee, or too many listings: nothing is changed.  A window
\* is only ever restarted by a listing that is then accepted.
RefuseListing(s) ==
    /\ asked[s] # None
    /\ ~ MayList(asked[s].seller, asked[s].at)
    /\ asked' = [asked EXCEPT ![s] = None]
    /\ UNCHANGED <<now, wallet, listings, window, issued, history>>

(***************************************************************************)
(* place_bid and buyout.                                                   *)
(***************************************************************************)
Expired(id) == now > listings[id].expires

\* Mutant of Outbids: a bid may equal the one it replaces.
OutbidsOrEquals(id, amount) ==
    amount >= IF listings[id].bid = None THEN listings[id].start ELSE listings[id].bid

Outbids(id, amount) ==
    amount > IF listings[id].bid = None THEN listings[id].start ELSE listings[id].bid

\* The chips are looked at and not set aside; sellers may bid on their own.
PlaceBid(p, id, amount) ==
    /\ ~ Expired(id)
    /\ Outbids(id, amount)
    /\ wallet[p] >= amount
    /\ listings' = [listings EXCEPT ![id].bid = amount, ![id].bidder = p]
    /\ UNCHANGED <<now, wallet, window, asked, issued, history>>

\* Mutant of Covers: nobody looks into the buyer's wallet.
CoversAnything(p, price) == TRUE

Covers(p, price) == wallet[p] >= price

\* Mutant of Pay: the seller gets the price in full.
PayInFull(buyer, seller, price) ==
    LET charged == [wallet EXCEPT ![buyer] = @ - price]
    IN  wallet' = [charged EXCEPT ![seller] = @ + price]

\* The buyer is charged first and the seller paid then: they may be the same.
Pay(buyer, seller, price) ==
    LET charged == [wallet EXCEPT ![buyer] = @ - price]
    IN  wallet' = [charged EXCEPT ![seller] = @ + (price - Tax(price))]

\* Neither the expiry nor the highest bid is looked at.
Buyout(p, id) ==
    /\ listings[id].buyout # None
    /\ LET price == listings[id].buyout
       IN  /\ Covers(p, price)
           /\ Pay(p, listings[id].seller, price)
           /\ taxed' = taxed + Tax(price)
    /\ listings' = [i \in DOMAIN listings \ {id} |-> listings[i]]
    /\ sales' = sales + 1
    /\ UNCHANGED <<now, window, asked, issued, made>>

Next ==
    \/ Tick
    \/ \E s \in Sessions, p \in Players, start \in Prices, buyout \in Buyouts \cup {None} :
          AskToList(s, p, start, buyout)
    \/ \E start \in Prices : PriceTooLow(start)
    \/ \E s \in Sessions : List(s)
    \/ \E s \in Sessions : RefuseListing(s)
    \/ \E p \in Players, id \in DOMAIN listings, amount \in Bids : PlaceBid(p, id, amount)
    \/ \E p \in Players, id \in DOMAIN listings : Buyout(p, id)

Spec == Init /\ [][Next]_vars

(***************************************************************************)
(* Properties.                                                             *)
(***************************************************************************)
\* Every variable has its type, and no window counts more than it may.
TypeOK ==
    /\ now \in Nat /\ issued \in Nat
    /\ wallet \in [Players -> Int]
    /\ DOMAIN listings \subseteq 1 .. issued
    /\ \A id \in DOMAIN listings : listings[id] \in Listing
    /\ window \in [Players -> [since: Nat, count: 0 .. MaxPerWindow] \cup {None}]
    /\ asked \in [Sessions -> Request \cup {None}]

Total(f) == MapThenSumSet(LAMBDA p : f[p], Players)

\* The books balance: a listing ever made is on the market or was sold exactly
\* once, and the chips that have left the wallets are the listing fees and the
\* tax on the sales, which at a negative price is negative too - also when
\* players buy from themselves (create_listing, buyout).
BooksBalance ==
    /\ Cardinality(DOMAIN listings) + sales = issued
    /\ Total(wallet) + Fee * issued + taxed = StartWallet * Cardinality(Players)

\* Whatever was spent since a call was made, neither the fee nor a purchase is
\* charged to a wallet that cannot bear it: only by the sale of a listing of
\* one's own, at the negative price asked for it, does one get into debt, or
\* deeper into it (create_listing, buyout).
DebtsAreOwn ==
    [][\A p \in Players : wallet'[p] < wallet[p] /\ wallet'[p] < 0 =>
          \E id \in DOMAIN listings \ DOMAIN listings' :
              listings[id].seller = p /\ listings[id].buyout < 0]_vars

\* In this step the listing keeps its terms, and a new highest bid comes before
\* the expiry, beats the price it replaces, and is within its bidder's means.
Stands(id) ==
    LET old == listings[id]
        new == listings'[id]
    IN  /\ <<new.seller, new.start, new.buyout, new.expires>>
              = <<old.seller, old.start, old.buyout, old.expires>>
        /\ <<new.bid, new.bidder>> # <<old.bid, old.bidder>> =>
              /\ now <= old.expires
              /\ new.bid > old.start
              /\ old.bid # None => new.bid > old.bid
              /\ new.bid <= wallet[new.bidder]

\* What a listing says stands until it is sold: its terms never change, and its
\* highest bid only gives way to a higher one, in time and covered (place_bid).
TermsStand == [][\A id \in DOMAIN listings \cap DOMAIN listings' : Stands(id)]_vars

\* The throttle counts from the first listing of a window, so any 30 seconds
\* see less than two windows' worth of a seller's listings - and, because a
\* call takes its time before it waits for the lock, one late listing from each
\* of the other sessions (create_listing).
ListingsAreThrottled ==
    \A p \in Players : \A t \in 0 .. now :
        Cardinality({i \in DOMAIN made :
            made[i].seller = p /\ made[i].at \in t .. t + Window})
                <= 2 * MaxPerWindow - 1 + (Cardinality(Sessions) - 1)
=============================================================================

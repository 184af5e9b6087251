------------------------------- MODULE PriceFeed -------------------------------
(***************************************************************************)
(* The reference price of one market on its way from Binance into Redis:   *)
(* binanceFeed.ts and its callback in market_maker/src/index.ts.  A price  *)
(* is named by the time of the trade it comes from.                        *)
(***************************************************************************)
EXTENDS Integers

CONSTANTS
    MaxClock,   \* bound
    MaxAge,     \* a price is stale when it is older than this
    Expiry      \* the life of the key in Redis

ASSUME FeedAssumption == MaxClock \in Nat \ {0} /\ MaxAge \in Nat /\ Expiry \in Nat

VARIABLES
    now,
    socket,     \* "off", "open" or "closed", waiting to reconnect
    key         \* the price in Redis and when it expires

feed == <<now, socket, key>>

NoKey    == [price |-> 0, until |-> 0]
Fresh(p) == p > 0 /\ now - p <= MaxAge

FeedTypeOK ==
    /\ now \in 0..MaxClock
    /\ socket \in {"off", "open", "closed"}
    /\ key \in [price: 0..now, until: 0..MaxClock + Expiry]

FeedInit == now = 1 /\ socket = "off" /\ key = NoKey

\* start(), or the timer of scheduleReconnect(), whose delay is left open: the
\* connection opens or it fails.
Connect ==
    /\ socket \in {"off", "closed"}
    /\ socket' \in {"open", "closed"}
    /\ UNCHANGED <<now, key>>

\* The connection is lost.
Close ==
    /\ socket = "open"
    /\ socket' = "closed"
    /\ UNCHANGED <<now, key>>

\* stop(), or the end of the process: the timer is cleared as well.
Stop ==
    /\ socket # "off"
    /\ socket' = "off"
    /\ UNCHANGED <<now, key>>

\* handleMessage(): a trade, in the order of the stream, at the time Binance
\* gives it.  The callback sets the key; a failed SET is logged.
Message(time) ==
    /\ socket = "open"
    /\ key.price <= time /\ time <= now
    /\ key' \in {key, [price |-> time, until |-> now + Expiry]}
    /\ UNCHANGED <<now, socket>>

\* A second passes; Redis lets go of a key that has expired.
Pass ==
    /\ now < MaxClock
    /\ now' = now + 1
    /\ key' = IF key.until < now + 1 THEN NoKey ELSE key
    /\ UNCHANGED socket

FeedNext == Connect \/ Close \/ Stop \/ Pass \/ \E time \in 1..MaxClock : Message(time)
=============================================================================

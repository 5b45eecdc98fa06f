----------------------------- MODULE PriceFeed -----------------------------
(***************************************************************************)
(* Live prices: the hub's poll of Pyth (hub/market/price_feed.py), its     *)
(* broadcast to sockets (hub/ws), the listener of an agent                 *)
(* (app/market/price_listener.py) and the engine's hold on that listener.  *)
(* What a price is does not matter here, only who has one and whether it   *)
(* counts as fresh.                                                        *)
(***************************************************************************)
EXTENDS Naturals, FiniteSets

CONSTANTS
  Symbols, AgentSymbol,  \* names prices are asked by; the one of the agent
  FeedOf,                \* the feed of a name: "BTC" and "BTCUSDT" have one feed
  Tracked,               \* names given to track_symbol (nothing in the hub calls it)
  Listeners, NoListener, \* listener objects of the engine
  MaxRestarts

ASSUME FeedAssumption ==
  /\ AgentSymbol \in Symbols /\ Tracked \subseteq Symbols /\ DOMAIN FeedOf = Symbols
  /\ MaxRestarts \in Nat /\ NoListener \notin Listeners

VARIABLES
  watch,      \* _extra_symbols
  cached,     \* names with an entry in price_cache
  poll,       \* the feed loop: what it is doing and for whom
  subs,       \* _price_subscribers, by the listener at the other end of the socket
  wire,       \* listeners with a message on the way that has the agent's symbol
  listener,   \* the listener objects
  engine,     \* the engine: running, starts under way, its _price_listener, stop()
  restarts,   \* restarts of the hub so far
  overlapped  \* history: a start ran beside another start or a stop

feedVars == <<watch, cached, poll, subs, wire, listener, engine, restarts, overlapped>>
hubVars == <<watch, cached, poll, restarts>>

Sleeping == [at |-> "sleep", names |-> {}]
NewListener ==
  [running |-> FALSE, task |-> "none", connected |-> FALSE, price |-> FALSE, fresh |-> FALSE]
Gone == [NewListener EXCEPT !.task = "done"]  \* a stopped listener nobody holds

FeedTypeOK ==
  /\ watch \subseteq Symbols
  /\ cached \subseteq Symbols
  /\ poll \in [at : {"sleep", "fetch"}, names : SUBSET Symbols]
  /\ subs \subseteq Listeners
  /\ wire \subseteq subs
  /\ listener \in [Listeners -> [running : BOOLEAN, connected : BOOLEAN, price : BOOLEAN,
                     fresh : BOOLEAN, task : {"none", "connect", "read", "backoff", "done"}]]
  /\ engine \in [running : BOOLEAN, starts : 0..2, held : Listeners \cup {NoListener},
                 stop : {"no", "loop", "listener"}]
  /\ restarts \in 0..MaxRestarts
  /\ overlapped \in BOOLEAN

FeedInit ==
  /\ watch = {}
  /\ cached = {}
  /\ poll = Sleeping
  /\ subs = {}
  /\ wire = {}
  /\ listener = [l \in Listeners |-> NewListener]
  /\ engine = [running |-> FALSE, starts |-> 0, held |-> NoListener, stop |-> "no"]
  /\ restarts = 0
  /\ overlapped = FALSE


(***************************************************************************)
(* The hub.                                                                *)
(***************************************************************************)
TrackSymbol(s) ==
  /\ s \in Tracked /\ watch' = watch \cup {s}
  /\ UNCHANGED <<cached, poll, restarts, subs, wire, listener, engine, overlapped>>

PollStarts ==
  LET names == watch \cup cached IN
  /\ poll.at = "sleep" /\ names # {}
  /\ poll' = [at |-> "fetch", names |-> names]
  /\ UNCHANGED <<watch, cached, restarts, subs, wire, listener, engine, overlapped>>

\* The names of a poll that get a price: feed_map keeps one name for a feed.
OnePerFeed(names) ==
  {some \in SUBSET names :
     \A f \in {FeedOf[s] : s \in names} : Cardinality({s \in some : FeedOf[s] = f}) = 1}

\* The answer is put in the cache, and all of the cache, the prices this poll did
\* not get included, is sent to those subscribed now; a socket found closed is
\* unsubscribed.  The loop awaits all of the sends before it sleeps again.
PollAnswered(some) ==
  LET reached == {l \in subs : listener[l].task = "read"} IN
  /\ poll.at = "fetch"
  /\ cached' = cached \cup some /\ poll' = Sleeping
  /\ wire' = IF AgentSymbol \in cached' THEN reached ELSE wire
  /\ subs' = reached
  /\ UNCHANGED <<watch, restarts, listener, engine, overlapped>>

PollFails ==
  /\ poll.at = "fetch" /\ poll' = Sleeping
  /\ UNCHANGED <<watch, cached, restarts, subs, wire, listener, engine, overlapped>>

\* The endpoint's receive raises on a closed socket, and it unsubscribes.
EndpointEnds(l) ==
  /\ l \in subs /\ listener[l].task # "read" /\ subs' = subs \ {l}
  /\ UNCHANGED <<hubVars, wire, listener, engine, overlapped>>

HubRestarts ==
  /\ restarts < MaxRestarts /\ restarts' = restarts + 1
  /\ watch' = {} /\ cached' = {}
  /\ poll' = Sleeping /\ subs' = {}
  /\ wire' = {}
  /\ UNCHANGED <<listener, engine, overlapped>>

(***************************************************************************)
(* A listener.                                                             *)
(***************************************************************************)
MutStaysDown(l) ==
  /\ listener[l].task = "connect" /\ listener[l].running
  /\ listener' = [listener EXCEPT ![l].task = "read"]
  /\ wire' = wire \ {l}
  /\ subs' = subs \cup {l}
  /\ UNCHANGED <<hubVars, engine, overlapped>>
\* A socket that opens is accepted and subscribed.
Connects(l) ==
  /\ listener[l].task = "connect" /\ listener[l].running
  /\ listener' = [listener EXCEPT ![l].task = "read", ![l].connected = TRUE]
  /\ wire' = wire \ {l}
  /\ subs' = subs \cup {l}
  /\ UNCHANGED <<hubVars, engine, overlapped>>

\* The connection cannot be made, or breaks.
ConnectionFails(l) ==
  /\ listener[l].task = "connect" \/ (listener[l].task = "read" /\ l \notin wire)
  /\ listener[l].running
  /\ listener' = [listener EXCEPT ![l].task = "backoff", ![l].connected = FALSE]
  /\ UNCHANGED <<hubVars, subs, wire, engine, overlapped>>

\* The hub closes the connection in order: the read loop ends without an error
\* and the listener stays "connected" while it dials again.
ClosedInOrder(l) ==
  /\ listener[l].task = "read" /\ l \notin wire
  /\ listener' = [listener EXCEPT ![l].task = IF listener[l].running THEN "connect" ELSE "done"]
  /\ UNCHANGED <<hubVars, subs, wire, engine, overlapped>>

\* A message: the time it arrived is the time of the price.
Receives(l) ==
  /\ listener[l].task = "read" /\ l \in wire
  /\ listener' = [listener EXCEPT ![l].price = TRUE, ![l].fresh = TRUE]
  /\ wire' = wire \ {l}
  /\ UNCHANGED <<hubVars, subs, engine, overlapped>>

\* Five seconds without a message.
PriceAges(l) ==
  /\ listener[l].fresh /\ listener' = [listener EXCEPT ![l].fresh = FALSE]
  /\ UNCHANGED <<hubVars, subs, wire, engine, overlapped>>

BackoffEnds(l) ==
  /\ listener[l].task = "backoff"
  /\ listener' = [listener EXCEPT ![l].task = IF listener[l].running THEN "connect" ELSE "done"]
  /\ UNCHANGED <<hubVars, subs, wire, engine, overlapped>>

\* PriceListener.get_price has an answer.
HasPrice(l) == listener[l].connected /\ listener[l].fresh /\ listener[l].price
ListenerAlive(l) == listener[l].task \in {"connect", "read", "backoff"}

(***************************************************************************)
(* The engine: start() checks running, plans, then creates a listener;     *)
(* stop() awaits the loop, then the listener, then forgets it.             *)
(***************************************************************************)
StartAsked ==
  /\ ~engine.running /\ engine.starts < 2
  /\ engine' = [engine EXCEPT !.starts = @ + 1]
  /\ overlapped' = (overlapped \/ engine.starts > 0 \/ engine.stop # "no")
  /\ UNCHANGED <<hubVars, subs, wire, listener>>

StartCreates(l) ==
  /\ engine.starts > 0 /\ listener[l].task = "none"
  /\ listener' = [listener EXCEPT ![l] = [NewListener EXCEPT !.running = TRUE, !.task = "connect"]]
  /\ engine' = [engine EXCEPT !.starts = @ - 1, !.running = TRUE, !.held = l]
  /\ UNCHANGED <<hubVars, subs, wire, overlapped>>

StopAsked ==
  /\ engine.running /\ engine.stop = "no"
  /\ engine' = [engine EXCEPT !.running = FALSE, !.stop = "loop"]
  /\ overlapped' = (overlapped \/ engine.starts > 0)
  /\ UNCHANGED <<hubVars, subs, wire, listener>>

MutStopForgetsFirst ==
  /\ engine.stop = "loop"
  /\ engine' = [engine EXCEPT !.stop = "no", !.held = NoListener]
  /\ UNCHANGED <<hubVars, subs, wire, listener, overlapped>>
\* The loop has ended: the listener's task is cancelled and awaited.
StopCancels ==
  LET l == engine.held IN
  /\ engine.stop = "loop"
  /\ engine' = [engine EXCEPT !.stop = IF l = NoListener THEN "no" ELSE "listener"]
  /\ IF l = NoListener THEN UNCHANGED <<listener>>
     ELSE listener' = [listener EXCEPT ![l].running = FALSE, ![l].task = "done"]
  /\ wire' = wire \ {l}
  /\ UNCHANGED <<hubVars, subs, overlapped>>

StopForgets ==
  /\ engine.stop = "listener"
  /\ engine' = [engine EXCEPT !.stop = "no", !.held = NoListener]
  /\ listener' = [l \in Listeners |-> IF listener[l].task = "done" THEN Gone ELSE listener[l]]
  /\ UNCHANGED <<hubVars, subs, wire, overlapped>>

FeedNext ==
  \/ \E s \in Symbols : TrackSymbol(s)
  \/ PollStarts \/ PollFails \/ HubRestarts
  \/ \E some \in OnePerFeed(poll.names) : PollAnswered(some)
  \/ \E l \in Listeners : EndpointEnds(l) \/ Connects(l) \/ ConnectionFails(l)
       \/ ClosedInOrder(l) \/ Receives(l) \/ PriceAges(l) \/ BackoffEnds(l) \/ StartCreates(l)
  \/ StartAsked \/ StopAsked \/ StopCancels \/ StopForgets

\* The hub's loop, its endpoints and a listener's task are run by their event
\* loops; a ping finds a dead socket; Pyth and the network answer again and again when asked again and again.
FeedFairness ==
  /\ WF_feedVars(PollStarts)
  /\ SF_feedVars(\E some \in OnePerFeed(poll.names) : PollAnswered(some))
  /\ \A l \in Listeners :
       /\ WF_feedVars(EndpointEnds(l)) /\ WF_feedVars(BackoffEnds(l))
       /\ WF_feedVars(l \notin subs /\ ConnectionFails(l))
       /\ SF_feedVars(Connects(l)) /\ SF_feedVars(Receives(l))

FeedSpec == FeedInit /\ [][FeedNext]_feedVars /\ FeedFairness

(***************************************************************************)
(* Properties.                                                             *)
(***************************************************************************)
\* A listener that loses its connections and its hub has a price again, as long
\* as it is not stopped, and in the end its connection holds and the hub watches
\* its symbol, under no other name of the same feed.
Breaks(l) == l \in subs /\ (ConnectionFails(l) \/ ClosedInOrder(l))
AloneOnItsFeed ==
  /\ AgentSymbol \in watch
  /\ \A s \in watch \cup cached : FeedOf[s] = FeedOf[AgentSymbol] => s = AgentSymbol
PriceComesBack ==
  \A l \in Listeners :
    <>[](AloneOnItsFeed /\ ListenerAlive(l)) /\ <>[][~Breaks(l)]_feedVars => []<>HasPrice(l)

\* Every listener whose task runs is the one its engine holds, unless a start
\* overlapped another start or a stop: then nothing can stop it any more.
ListenerLostOnlyByOverlap ==
  \A l \in Listeners : ListenerAlive(l) /\ engine.held # l => overlapped

\* What TradingEngine.start and stop (app/engine.py:241, 289) may do to each other's
\* listeners while the feed goes on.
FeedSafe == FeedTypeOK /\ ListenerLostOnlyByOverlap
=============================================================================

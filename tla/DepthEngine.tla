----------------------------- MODULE DepthEngine -----------------------------
(***************************************************************************)
(* OrderBook::Engine of TradingSystem_Experimental behind its gateway and  *)
(* BlockingQueue.  A connector sends the exchange's depth updates and, once *)
(* the exchange has answered, snapshots of the whole book; datagrams keep  *)
(* their order and may be lost.  Until the first snapshot the engine puts  *)
(* updates aside; then it applies the snapshot, the updates put aside that *)
(* are newer, and from there on every update, whatever its id.             *)
(*                                                                         *)
(* A level stands for a side with a price.  The id of an update is the     *)
(* number of the exchange's book it leads to; an update may cover several. *)
(***************************************************************************)
EXTENDS Naturals, Sequences, FiniteSets

CONSTANTS
    Levels,
    Quantities,   \* of a level that is there: above 0
    FirstBooks,   \* what the exchange's book may be at first
    MaxVersions,  \* bounds the exchange's books
    MaxSnapshots, \* bounds the snapshots
    MaxLost       \* bounds the datagrams that get lost

ASSUME DepthEngineAssumption ==
    /\ Quantities \subseteq Nat \ {0}
    /\ FirstBooks \subseteq UNION {[there -> Quantities] : there \in SUBSET Levels}
    /\ MaxVersions \in Nat \ {0}
    /\ {MaxSnapshots, MaxLost} \subseteq Nat

VARIABLES
    versions,    \* the exchange's books so far
    reported,    \* the version the last update sent led to
    answered,    \* the snapshot that is still to be sent: its version, or 0
    snapshots,   \* how many snapshots were asked for
    wire,        \* the datagrams on their way to the gateway
    data_queue, pushing, popping,
    event,       \* handleEvents' local, what pop filled in
    status,
    depthBook,
    depthEvents,
    lost,        \* history: ids of the updates that were lost
    applied      \* history: the snapshot's version, the oldest and the
                 \* latest version applied, 0 before the snapshot

Q == INSTANCE BlockingQueue

exchangeVars == <<versions, reported, answered, snapshots>>
queueVars    == <<data_queue, pushing, popping>>
engineVars   == <<status, depthBook, depthEvents, applied>>
allVars == <<exchangeVars, wire, queueVars, event, engineVars, lost>>

Versions == 1..MaxVersions
Book == UNION {[there -> Quantities] : there \in SUBSET Levels}
EmptyBook == [level \in {} |-> 0]

DepthSnapshot ==
    [type : {"DepthSnapshot"}, lastUpdateId : Versions, levels : Book]
DepthUpdate ==
    [type : {"DepthUpdate"}, lastUpdateId : Versions,
     levels : UNION {[named -> Quantities \cup {0}] : named \in SUBSET Levels}]
DepthEvent == DepthSnapshot \cup DepthUpdate
NoEvent == [type |-> "none", lastUpdateId |-> 0, levels |-> EmptyBook]

-----------------------------------------------------------------------------
(* The exchange and the connector.                                         *)

Latest == Len(versions)

QuantityIn(book, level) == IF level \in DOMAIN book THEN book[level] ELSE 0

\* The levels that changed on the way from one version to another.
Touched(first, last) ==
    {level \in Levels :
        \E n \in first + 1..last :
            QuantityIn(versions[n - 1], level) # QuantityIn(versions[n], level)}

ExchangeMoves ==
    /\ Latest < MaxVersions
    /\ \E level \in Levels, quantity \in Quantities \cup {0} :
          /\ quantity # QuantityIn(versions[Latest], level)
          /\ LET there == IF quantity = 0 THEN DOMAIN versions[Latest] \ {level}
                          ELSE DOMAIN versions[Latest] \cup {level}
             IN versions' = Append(versions,
                    [l \in there |->
                        IF l = level THEN quantity ELSE versions[Latest][l]])
    /\ UNCHANGED <<reported, answered, snapshots, wire, queueVars, event,
                   engineVars, lost>>

\* The stream of updates may be behind what the exchange answers a request with.
SendUpdate ==
    /\ \E version \in reported + 1..Latest :
          /\ wire' = Append(wire,
                 [type |-> "DepthUpdate", lastUpdateId |-> version,
                  levels |-> [level \in Touched(reported, version) |->
                                 QuantityIn(versions[version], level)]])
          /\ reported' = version
    /\ UNCHANGED <<versions, answered, snapshots, queueVars, event, engineVars,
                   lost>>

\* The answer is sent some time after it was given, through the same socket.
AnswerSnapshot ==
    /\ answered = 0
    /\ snapshots < MaxSnapshots
    /\ answered' = Latest
    /\ snapshots' = snapshots + 1
    /\ UNCHANGED <<versions, reported, wire, queueVars, event, engineVars, lost>>

SendSnapshot ==
    /\ answered # 0
    /\ wire' = Append(wire, [type |-> "DepthSnapshot", lastUpdateId |-> answered,
                             levels |-> versions[answered]])
    /\ answered' = 0
    /\ UNCHANGED <<versions, reported, snapshots, queueVars, event, engineVars,
                   lost>>

LoseUpdate ==
    /\ wire # <<>>
    /\ Head(wire).type = "DepthUpdate"
    /\ Cardinality(lost) < MaxLost
    /\ lost' = lost \cup {Head(wire).lastUpdateId}
    /\ wire' = Tail(wire)
    /\ UNCHANGED <<exchangeVars, queueVars, event, engineVars>>

-----------------------------------------------------------------------------
(* The gateway: consumeEvents and processMessage.                          *)

ProcessMessage ==
    /\ wire # <<>>
    /\ Q!PushBack(Head(wire))
    /\ wire' = Tail(wire)
    /\ UNCHANGED <<exchangeVars, event, engineVars, lost>>

NotifyOne ==
    /\ Q!NotifyOne
    /\ UNCHANGED <<exchangeVars, wire, event, engineVars, lost>>

-----------------------------------------------------------------------------
(* MarketDepthBook.                                                        *)

\* A snapshot's levels are set over what the book has.
ApplySnapshot(book, levels) ==
    [level \in DOMAIN book \cup DOMAIN levels |->
        IF level \in DOMAIN levels THEN levels[level] ELSE book[level]]

\* A slip: a level of quantity 0 is set like any other.
RemovesNone(levels) == {}

Removes(levels) == {level \in DOMAIN levels : levels[level] = 0}

HandleDepthUpdate(book, levels) ==
    [level \in (DOMAIN book \cup DOMAIN levels) \ Removes(levels) |->
        IF level \in DOMAIN levels THEN levels[level] ELSE book[level]]

-----------------------------------------------------------------------------
(* Engine::handleEvents.                                                   *)

\* pop: the call waits, or comes back with an event.
Pop ==
    /\ \/ Q!Wait /\ UNCHANGED event
       \/ Q!PopFront /\ event' = Head(data_queue)
    /\ UNCHANGED <<exchangeVars, wire, engineVars, lost>>

\* pop ends without an event and is called again.
PopTimesOut ==
    /\ Q!TimedOut
    /\ UNCHANGED <<exchangeVars, wire, event, engineVars, lost>>

\* A slip: the updates the snapshot covers are applied over it.
NewerOrNot(buffered, snapshot) == TRUE

\* Only updates beyond the snapshot are applied from the buffer.
Newer(buffered, snapshot) == buffered.lastUpdateId > snapshot.lastUpdateId

PutAside(update) == Append(depthEvents, update)

\* The buffer is worked through in the order it was filled: the book after the
\* first i of its updates.
AfterSnapshot(snapshot) ==
    LET book[i \in 0..Len(depthEvents)] ==
            IF i = 0 THEN ApplySnapshot(depthBook, snapshot.levels)
            ELSE IF Newer(depthEvents[i], snapshot)
            THEN HandleDepthUpdate(book[i - 1], depthEvents[i].levels)
            ELSE book[i - 1]
    IN  book[Len(depthEvents)]

HandleUpdate ==
    /\ event.type = "DepthUpdate"
    /\ IF status = "Ready"
       THEN /\ depthBook' = HandleDepthUpdate(depthBook, event.levels)
            /\ applied' = [applied EXCEPT !.to = event.lastUpdateId,
                               !.from = IF @ < event.lastUpdateId THEN @
                                        ELSE event.lastUpdateId]
            /\ UNCHANGED depthEvents
       ELSE /\ depthEvents' = PutAside(event)
            /\ UNCHANGED <<depthBook, applied>>
    /\ UNCHANGED status

HandleSnapshot ==
    /\ event.type = "DepthSnapshot"
    /\ status = "NoReady"
    /\ depthBook' = AfterSnapshot(event)
    /\ depthEvents' = <<>>
    /\ status' = "Ready"
    /\ LET ids == {depthEvents[i].lastUpdateId : i \in DOMAIN depthEvents}
                     \cup {event.lastUpdateId}
       IN applied' = [snapshot |-> event.lastUpdateId, from |-> event.lastUpdateId,
                      to |-> CHOOSE n \in ids : \A m \in ids : m <= n]

\* A later snapshot is read and dropped.
IgnoreSnapshot ==
    /\ event.type = "DepthSnapshot"
    /\ status = "Ready"
    /\ UNCHANGED engineVars

HandleEvent ==
    /\ Q!PopAgain
    /\ HandleUpdate \/ HandleSnapshot \/ IgnoreSnapshot
    /\ event' = NoEvent
    /\ UNCHANGED <<exchangeVars, wire, lost>>

-----------------------------------------------------------------------------
EngineInit ==
    /\ versions \in {<<book>> : book \in FirstBooks}
    /\ reported = 1
    /\ answered = 0
    /\ snapshots = 0
    /\ wire = <<>>
    /\ Q!Init
    /\ event = NoEvent
    /\ status = "NoReady"
    /\ depthBook = EmptyBook
    /\ depthEvents = <<>>
    /\ lost = {}
    /\ applied = [snapshot |-> 0, from |-> 0, to |-> 0]

EngineHandleEvents == Pop \/ PopTimesOut \/ HandleEvent

EngineNext ==
    \/ ExchangeMoves \/ SendUpdate \/ AnswerSnapshot \/ SendSnapshot \/ LoseUpdate
    \/ ProcessMessage \/ NotifyOne
    \/ EngineHandleEvents

\* Both threads run on.  Nothing is asked of the wire, and nothing of the
\* condition variable's timeout: a notification has to be enough.
EngineFairness == WF_allVars(NotifyOne) /\ WF_allVars(Pop) /\ WF_allVars(HandleEvent)

EngineSpec == EngineInit /\ [][EngineNext]_allVars /\ EngineFairness

-----------------------------------------------------------------------------
\* Types of all state; before the snapshot the book is empty, and after it
\* nothing is set aside.  (Engine::status, depthEvents)
EngineTypeOK ==
    /\ versions \in Seq(Book) /\ Latest \in Versions
    /\ reported \in 1..Latest
    /\ answered \in 0..Latest
    /\ snapshots \in 0..MaxSnapshots
    /\ wire \in Seq(DepthEvent)
    /\ data_queue \in Seq(DepthEvent)
    /\ pushing \in BOOLEAN
    /\ popping \in {"checking", "waiting", "out"}
    /\ event \in DepthEvent \cup {NoEvent}
    /\ (popping = "out") <=> (event # NoEvent)
    /\ status \in {"NoReady", "Ready"}
    /\ depthBook \in Book
    /\ depthEvents \in Seq(DepthUpdate)
    /\ status = "NoReady" => depthBook = EmptyBook
    /\ status = "Ready" => depthEvents = <<>>
    /\ lost \subseteq Versions
    /\ applied \in [{"snapshot", "from", "to"} -> 0..MaxVersions]

\* The book the handler shows is the exchange's, level by level, as soon as it
\* has applied an update as new as the snapshot: whether the snapshot came
\* before or after the updates it covers, in the middle of what one of them
\* covers, or twice, and whatever was lost outside the range that was applied.
\* (An update older than the snapshot may be applied after it and takes levels
\* back for a while; the updates that follow set them right again.)
BookOnceCaughtUp ==
    /\ status = "Ready"
    /\ applied.to >= applied.snapshot
    /\ \A n \in lost : n <= applied.from \/ n > applied.to
    => depthBook = versions[applied.to]

Queued(type, id) ==
    \E i \in DOMAIN data_queue :
        data_queue[i].type = type /\ data_queue[i].lastUpdateId = id

\* Every event pushed is taken out, even if no wait ever times out: no
\* notification is lost between the test for an empty queue and the wait.
EventsAreHandled ==
    \A type \in {"DepthUpdate", "DepthSnapshot"}, id \in Versions :
        Queued(type, id) ~> ~Queued(type, id)

=============================================================================

----------------------------- MODULE MessageRing -----------------------------
(***************************************************************************)
(* The queue of TradingSystem_MVP_Ps3 between the thread that receives     *)
(* exchange messages and the thread of an ExchangeDataProcessor: the       *)
(* two_phase_push::RingBuffer with the code on either side of it, push and *)
(* handleEvents.  The rings it grew out of, in CommonModules,              *)
(* MarketDataFeeders and TradingSystem_MVP_Ps2, run as other kinds of      *)
(* ring: most copy an item in and out of the slot, and their callers do    *)
(* otherwise when the ring is full.                                        *)
(*                                                                         *)
(* Each access to one of the two atomics is a step.  They are stored with  *)
(* release and loaded with acquire by the other thread, so what a thread   *)
(* did to a slot before a store is seen after the load, and steps may      *)
(* interleave as if memory were sequentially consistent.  Bringing a       *)
(* message is up to the outside; handleEvents polls for ever.              *)
(***************************************************************************)
EXTENDS Integers, Sequences

\* A ring and the code that uses it: whether pop copies the item and then moves
\* the tail, or hands out the slot itself, and what becomes of an item for which
\* there is no room.
RingKind == [copies : BOOLEAN, onFull : {"crashes", "stops", "refuses", "drops"}]

\* Ps3 hands out the slot, and push uses the pointer it got without a look.
TwoPhasePush == [copies |-> FALSE, onFull |-> "crashes"]

\* The producers of CommonModules' ring of Buffers and of the data feeder end at
\* nullptr.
CommitBuffer == [copies |-> FALSE, onFull |-> "stops"]
DataFeeder   == [copies |-> FALSE, onFull |-> "stops"]

\* The producers of these three try again with the same item.
SpscTwo     == [copies |-> TRUE, onFull |-> "refuses"]
SpscCommit  == [copies |-> TRUE, onFull |-> "refuses"]
PollingDemo == [copies |-> TRUE, onFull |-> "refuses"]

\* The producers of these two ignore what put returns.
SpscPricer == [copies |-> TRUE, onFull |-> "drops"]
Basic      == [copies |-> TRUE, onFull |-> "drops"]

CONSTANTS Rings,       \* the kinds of ring
          Capacity,    \* slots of the ring, a power of two
          MaxMessages  \* bound: messages brought

ASSUME MessageRingAssumption ==
    /\ Rings \subseteq RingKind
    /\ Capacity \in Nat \ {0, 1}
    /\ MaxMessages \in Nat

Slots == 0..Capacity - 1

\* Messages are told apart by the order they come in.
Messages == 1..MaxMessages

VARIABLES ring,                  \* the kind of the ring, which does not change
          head, tail,            \* the two atomics of the ring
          headCached, headNext,  \* members of the ring only the producer uses
          slots,                 \* the Buffers: the messages appended to each
          producer,              \* where push is
          consumer,              \* where handleEvents is
          item,                  \* the slot handleEvents got from pop
          nextMessage,           \* the message push is called with next
          parsed,                \* what parser.parse was given, in order
          dropped                \* history: how many messages there was no room for

ringVars == <<ring, head, tail, headCached, headNext, slots>>
vars == <<ringVars, producer, consumer, item, nextMessage, parsed, dropped>>

\* A slip: the index runs past the last slot before it wraps.
FastModuloLate(n) == n % (Capacity + 1)

\* n & (Capacity - 1), Capacity being a power of two.
FastModulo(n) == n % Capacity

\* A slip: the test full() makes, which uint32_t indices never satisfy.
FullBySize(next, last) == head - last = Capacity

\* getItem keeps one slot free.
Full(next, last) == next = last

\* A slip: the last message stays in the ring.
EmptyButOne(last, first) == last = first \/ FastModulo(last + 1) = first

Empty(last, first) == last = first

\* A segmentation fault takes both threads down.
Alive == producer # "crashed"

-----------------------------------------------------------------------------
(* push.                                                                   *)

\* getItem, or the test put begins with.
GetItem ==
    /\ producer = "idle"
    /\ nextMessage \in Messages
    /\ headCached' = head
    /\ headNext' = FastModulo(head + 1)
    /\ ~Full(headNext', tail)
    /\ producer' = "filling"
    /\ UNCHANGED <<ring, head, tail, slots, consumer, item, nextMessage, parsed, dropped>>

\* getItem on a full ring returns nullptr, which push writes through; put
\* returns false.
RingFull ==
    /\ producer = "idle"
    /\ nextMessage \in Messages
    /\ headCached' = head
    /\ headNext' = FastModulo(head + 1)
    /\ Full(headNext', tail)
    /\ producer' = IF ring.onFull = "crashes" THEN "crashed"
                   ELSE IF ring.onFull = "stops" THEN "stopped" ELSE "idle"
    /\ IF ring.onFull = "drops"
       THEN nextMessage' = nextMessage + 1 /\ dropped' = dropped + 1
       ELSE UNCHANGED <<nextMessage, dropped>>
    /\ UNCHANGED <<ring, head, tail, slots, consumer, item, parsed>>

\* memcpy behind what the Buffer holds, and incrementLength; or the assignment
\* to the slot.
FillItem ==
    /\ producer = "filling"
    /\ slots' = [slots EXCEPT ![headCached] =
                    IF ring.copies THEN <<nextMessage>> ELSE Append(@, nextMessage)]
    /\ producer' = "committing"
    /\ UNCHANGED <<ring, head, tail, headCached, headNext, consumer, item, nextMessage,
                   parsed, dropped>>

Commit ==
    /\ producer = "committing"
    /\ head' = headNext
    /\ producer' = "idle"
    /\ nextMessage' = nextMessage + 1
    /\ UNCHANGED <<ring, tail, headCached, headNext, slots, consumer, item, parsed, dropped>>

-----------------------------------------------------------------------------
(* handleEvents.                                                           *)

\* pop finds a slot, or nullptr, on which the loop goes round again.
FindItem ==
    /\ Alive
    /\ consumer = "idle"
    /\ ~Empty(tail, head)
    /\ item' = tail
    /\ consumer' = "popping"
    /\ UNCHANGED <<ringVars, producer, nextMessage, parsed, dropped>>

\* pop takes the item out of the slot, if it is one that copies.
CopyItem ==
    /\ Alive
    /\ ring.copies
    /\ consumer = "popping"
    /\ parsed' = Append(parsed, slots[item])
    /\ consumer' = "copied"
    /\ UNCHANGED <<ringVars, producer, item, nextMessage, dropped>>

\* A pop that hands out the slot gives it back to the producer's account before
\* it is used.
AdvanceTail ==
    /\ Alive
    /\ consumer = IF ring.copies THEN "copied" ELSE "popping"
    /\ tail' = FastModulo(item + 1)
    /\ consumer' = IF ring.copies THEN "idle" ELSE "holding"
    /\ UNCHANGED <<ring, head, headCached, headNext, slots, producer, item, nextMessage,
                   parsed, dropped>>

ParseItem ==
    /\ Alive
    /\ consumer = "holding"
    /\ parsed' = Append(parsed, slots[item])
    /\ consumer' = "clearing"
    /\ UNCHANGED <<ringVars, producer, item, nextMessage, dropped>>

\* A slip: the Buffer keeps what it held.
ClearItemNot ==
    /\ Alive
    /\ consumer = "clearing"
    /\ consumer' = "idle"
    /\ UNCHANGED <<ringVars, producer, item, nextMessage, parsed, dropped>>

ClearItem ==
    /\ Alive
    /\ consumer = "clearing"
    /\ slots' = [slots EXCEPT ![item] = <<>>]
    /\ consumer' = "idle"
    /\ UNCHANGED <<ring, head, tail, headCached, headNext, producer, item, nextMessage,
                   parsed, dropped>>

-----------------------------------------------------------------------------
Init ==
    /\ ring \in Rings
    /\ head = 0
    /\ tail = 0
    /\ headCached = 0
    /\ headNext = 0
    /\ slots = [slot \in Slots |-> <<>>]
    /\ producer = "idle"
    /\ consumer = "idle"
    /\ item = 0
    /\ nextMessage = 1
    /\ parsed = <<>>
    /\ dropped = 0

Push == GetItem \/ RingFull \/ FillItem \/ Commit

HandleEvents == FindItem \/ CopyItem \/ AdvanceTail \/ ParseItem \/ ClearItem

Next == Push \/ HandleEvents

Spec == Init /\ [][Next]_vars

\* handleEvents never stops polling, and a push that began goes on; nothing
\* makes a message come.
FairSpec == Spec /\ WF_vars(HandleEvents) /\ WF_vars(FillItem \/ Commit)

-----------------------------------------------------------------------------
(* Properties.                                                             *)

TypeOK ==
    /\ ring \in Rings
    /\ head \in Slots /\ tail \in Slots
    /\ headCached \in Slots /\ headNext \in Slots
    /\ slots \in [Slots -> Seq(Messages)]
    /\ producer \in {"idle", "filling", "committing", "stopped", "crashed"}
    /\ consumer \in {"idle", "popping", "copied", "holding", "clearing"}
    /\ item \in Slots
    /\ nextMessage \in 1..MaxMessages + 1
    /\ parsed \in Seq(Seq(Messages))
    /\ dropped \in Nat

ProducerUses == IF producer \in {"filling", "committing"} THEN {headCached} ELSE {}

ConsumerUses == IF consumer \in {"popping", "holding", "clearing"} THEN {item} ELSE {}

\* The two threads never work on the same Buffer, although pop moves tail past
\* a slot before handleEvents has parsed and cleared it: the one slot getItem
\* keeps free is that slot.
SlotsNotShared == ProducerUses \cap ConsumerUses = {}

InRing == [i \in 1..(head - tail) % Capacity |-> slots[(tail + i - 1) % Capacity]]

Fifo == INSTANCE MessageFifo
    WITH Payloads <- {<<m>> : m \in Messages},
         Bound    <- Capacity,
         queue    <- CASE consumer = "holding" -> <<slots[item]>> \o InRing
                       [] consumer = "copied"  -> Tail(InRing)
                       [] OTHER                -> InRing,
         received <- parsed

\* The ring with its two ends is a first-in first-out queue: the parser is
\* given every committed message once, whole, alone and in order.
ImplementsFifo == Fifo!Spec

\* A message committed is parsed in the end, unless a full ring has crashed the
\* process first: of the messages brought, only those without room are missing.
CommittedIsParsed ==
    \A m \in Messages :
        (nextMessage > m) ~> (producer = "crashed" \/ Len(parsed) + dropped >= m)

=============================================================================

---------------------------- MODULE MessageProofs ----------------------------
(***************************************************************************)
(* Proofs about messages on their way: MessageRing for every capacity, any *)
(* number of messages and every kind of ring, and DepthEngine for every    *)
(* exchange, any number of levels, versions, snapshots and lost datagrams. *)
(***************************************************************************)
EXTENDS MessageRing, DepthEngine, ArithmeticProofs, SequenceTheorems, TLAPS

-----------------------------------------------------------------------------
(* DepthEngine: books.                                                    *)
Update == UNION {[named -> Quantities \cup {0}] : named \in SUBSET Levels}

LEMMA BookShape ==
    ASSUME NEW b
    PROVE  b \in Book <=> /\ b = [l \in DOMAIN b |-> b[l]] /\ DOMAIN b \subseteq Levels
                          /\ \A l \in DOMAIN b : b[l] \in Quantities
<1>1. ASSUME b \in Book
      PROVE  /\ b = [l \in DOMAIN b |-> b[l]] /\ DOMAIN b \subseteq Levels
             /\ \A l \in DOMAIN b : b[l] \in Quantities
  <2>1. PICK there \in SUBSET Levels : b \in [there -> Quantities]
    BY <1>1 DEF Book
  <2> QED BY <2>1
<1>2. ASSUME b = [l \in DOMAIN b |-> b[l]], DOMAIN b \subseteq Levels,
             \A l \in DOMAIN b : b[l] \in Quantities
      PROVE  b \in Book
  <2>1. b \in [DOMAIN b -> Quantities] /\ DOMAIN b \in SUBSET Levels
    BY <1>2
  <2> QED BY <2>1 DEF Book
<1> QED BY <1>1, <1>2

LEMMA UpdateShape ==
    ASSUME NEW u
    PROVE  u \in Update <=> /\ u = [l \in DOMAIN u |-> u[l]] /\ DOMAIN u \subseteq Levels
                            /\ \A l \in DOMAIN u : u[l] \in Quantities \cup {0}
<1>1. ASSUME u \in Update
      PROVE  /\ u = [l \in DOMAIN u |-> u[l]] /\ DOMAIN u \subseteq Levels
             /\ \A l \in DOMAIN u : u[l] \in Quantities \cup {0}
  <2>1. PICK there \in SUBSET Levels : u \in [there -> Quantities \cup {0}]
    BY <1>1 DEF Update
  <2> QED BY <2>1
<1>2. ASSUME u = [l \in DOMAIN u |-> u[l]], DOMAIN u \subseteq Levels,
             \A l \in DOMAIN u : u[l] \in Quantities \cup {0}
      PROVE  u \in Update
  <2>1. u \in [DOMAIN u -> Quantities \cup {0}] /\ DOMAIN u \in SUBSET Levels
    BY <1>2
  <2> QED BY <2>1 DEF Update
<1> QED BY <1>1, <1>2

LEMMA EmptyBookType == EmptyBook \in Book
BY BookShape DEF EmptyBook

LEMMA BookEqual ==
    ASSUME NEW b \in Book, NEW c \in Book,
           \A level \in Levels : QuantityIn(b, level) = QuantityIn(c, level)
    PROVE  b = c
<1>1. /\ b = [l \in DOMAIN b |-> b[l]] /\ DOMAIN b \subseteq Levels
      /\ c = [l \in DOMAIN c |-> c[l]] /\ DOMAIN c \subseteq Levels
      /\ \A l \in DOMAIN b : b[l] # 0
      /\ \A l \in DOMAIN c : c[l] # 0
  BY BookShape, DepthEngineAssumption
<1>2. \A l \in Levels : (l \in DOMAIN b <=> l \in DOMAIN c) /\ (l \in DOMAIN b => b[l] = c[l])
  BY <1>1 DEF QuantityIn
<1>3. DOMAIN b = DOMAIN c /\ \A l \in DOMAIN b : b[l] = c[l]
  BY <1>1, <1>2
<1> QED BY <1>1, <1>3

LEMMA QuantityType ==
    ASSUME NEW b \in Book, NEW level
    PROVE  QuantityIn(b, level) \in Quantities \cup {0}
BY BookShape DEF QuantityIn

LEMMA HandleDepthUpdateType ==
    ASSUME NEW b \in Book, NEW u \in Update
    PROVE  HandleDepthUpdate(b, u) \in Book
<1> DEFINE c == HandleDepthUpdate(b, u)
<1>1. /\ DOMAIN c \subseteq Levels /\ c = [l \in DOMAIN c |-> c[l]]
      /\ \A l \in DOMAIN c : c[l] \in Quantities
  BY BookShape, UpdateShape DEF HandleDepthUpdate, Removes
<1> HIDE DEF c
<1>2. c \in Book
  BY <1>1, BookShape
<1> QED BY <1>2 DEF c

LEMMA HandleDepthUpdateQuantity ==
    ASSUME NEW b \in Book, NEW u \in Update, NEW level
    PROVE  QuantityIn(HandleDepthUpdate(b, u), level) =
               IF level \in DOMAIN u THEN u[level] ELSE QuantityIn(b, level)
BY UpdateShape DEF HandleDepthUpdate, Removes, QuantityIn

LEMMA FirstSnapshot ==
    ASSUME NEW b \in Book
    PROVE  ApplySnapshot(EmptyBook, b) = b
<1>1. b = [l \in DOMAIN b |-> b[l]]
  BY BookShape
<1>2. DOMAIN EmptyBook \cup DOMAIN b = DOMAIN b
  BY DEF EmptyBook
<1> QED BY <1>1, <1>2 DEF ApplySnapshot

-----------------------------------------------------------------------------
(* What changed between two of the exchange's books.                       *)

TouchedIn(books, first, last) ==
    {level \in Levels :
        \E n \in first + 1..last :
            QuantityIn(books[n - 1], level) # QuantityIn(books[n], level)}

LEMMA TouchedNow ==
    ASSUME NEW first, NEW last
    PROVE  Touched(first, last) = TouchedIn(versions, first, last)
BY DEF Touched, TouchedIn

Same(books, m, n, level) == QuantityIn(books[m], level) = QuantityIn(books[n], level)

LEMMA TouchedTwice ==
    ASSUME NEW books, NEW a \in Nat, NEW b \in a..Len(books), NEW c \in b..Len(books),
           Len(books) \in Nat
    PROVE  TouchedIn(books, a, c) = TouchedIn(books, a, b) \cup TouchedIn(books, b, c)
BY DEF TouchedIn

LEMMA UntouchedFrom ==
    ASSUME NEW books, NEW a \in Nat \ {0}, NEW b \in a..Len(books), Len(books) \in Nat,
           NEW level \in Levels, level \notin TouchedIn(books, a, b)
    PROVE  \A n \in a..b : Same(books, a, n, level)
<1> DEFINE Good == {k \in Nat : a + k <= b => Same(books, a, a + k, level)}
<1>1. b - a \in Nat /\ 0 \in Good
  BY DEF Same
<1>2. ASSUME NEW k \in 0..b - a, k + 1 <= b - a, k \in Good
      PROVE  k + 1 \in Good
  <2>1. k \in Nat /\ a + k <= b /\ a + (k + 1) \in a + 1..b /\ (a + (k + 1)) - 1 = a + k
    BY <1>2
  <2>2. Same(books, a + k, a + (k + 1), level)
    BY <2>1 DEF TouchedIn, Same
  <2>3. Same(books, a, a + k, level)
    BY <1>2, <2>1
  <2> QED BY <2>1, <2>2, <2>3 DEF Same
<1> HIDE DEF Good
<1>3. 0..b - a \subseteq Good
  BY <1>1, <1>2, IntervalInduction
<1> SUFFICES ASSUME NEW n \in a..b PROVE Same(books, a, n, level)
  OBVIOUS
<1>4. n - a \in Good /\ a + (n - a) = n /\ n <= b
  BY <1>3
<1> QED BY <1>4 DEF Good

\* A level no change touches has one quantity all the way.
LEMMA Untouched ==
    ASSUME NEW books, NEW a \in Nat \ {0}, NEW b \in a..Len(books), Len(books) \in Nat,
           NEW level \in Levels, level \notin TouchedIn(books, a, b),
           NEW m \in a..b, NEW n \in a..b
    PROVE  QuantityIn(books[m], level) = QuantityIn(books[n], level)
BY UntouchedFrom DEF Same

Change(books, first, last) ==
    [level \in TouchedIn(books, first, last) |-> QuantityIn(books[last], level)]

LEMMA ChangeType ==
    ASSUME NEW books, NEW first \in Nat, NEW last \in Nat, books[last] \in Book
    PROVE  Change(books, first, last) \in Update
<1> DEFINE u == Change(books, first, last)
<1>1. /\ u = [l \in DOMAIN u |-> u[l]] /\ DOMAIN u \subseteq Levels
      /\ \A l \in DOMAIN u : u[l] \in Quantities \cup {0}
  BY QuantityType DEF Change, TouchedIn
<1> HIDE DEF u
<1>2. u \in Update
  BY <1>1, UpdateShape
<1> QED BY <1>2 DEF u

\* A book takes from an update what the update covers.
LEMMA ChangeApplied ==
    ASSUME NEW books, NEW b \in Book, NEW first \in Nat, NEW last \in Nat, books[last] \in Book,
           NEW level
    PROVE  QuantityIn(HandleDepthUpdate(b, Change(books, first, last)), level) =
               IF level \in TouchedIn(books, first, last) THEN QuantityIn(books[last], level)
               ELSE QuantityIn(b, level)
<1>1. /\ DOMAIN Change(books, first, last) = TouchedIn(books, first, last)
      /\ level \in TouchedIn(books, first, last) =>
             Change(books, first, last)[level] = QuantityIn(books[last], level)
  BY DEF Change
<1> QED BY <1>1, ChangeType, HandleDepthUpdateQuantity

\* A book that is one of the exchange's becomes the one the update leads to.
LEMMA ChangeCatchesUp ==
    ASSUME NEW books \in Seq(Book), NEW first \in 1..Len(books), NEW last \in first..Len(books),
           NEW at \in first..last
    PROVE  HandleDepthUpdate(books[at], Change(books, first, last)) = books[last]
<1>1. /\ Len(books) \in Nat /\ first \in Nat \ {0} /\ last \in Nat
      /\ books[at] \in Book /\ books[last] \in Book
  BY LenProperties, ElementOfSeq
<1>2. ASSUME NEW level \in Levels
      PROVE  QuantityIn(HandleDepthUpdate(books[at], Change(books, first, last)), level)
                 = QuantityIn(books[last], level)
  <2>1. CASE level \in TouchedIn(books, first, last)
    BY <1>1, <2>1, ChangeApplied
  <2>2. CASE level \notin TouchedIn(books, first, last)
    <3>1. QuantityIn(books[at], level) = QuantityIn(books[last], level)
      BY <1>1, <2>2, Untouched
    <3> QED BY <1>1, <2>2, <3>1, ChangeApplied
  <2> QED BY <2>1, <2>2
<1>3. HandleDepthUpdate(books[at], Change(books, first, last)) \in Book
  BY <1>1, ChangeType, HandleDepthUpdateType
<1> QED BY <1>1, <1>2, <1>3, BookEqual

\* What was between two books stays when the exchange goes on.
LEMMA ChangesStay ==
    ASSUME NEW books \in Seq(Book), NEW book \in Book,
           NEW first \in Nat \ {0}, NEW last \in 1..Len(books)
    PROVE  /\ Append(books, book)[last] = books[last]
           /\ TouchedIn(Append(books, book), first, last) = TouchedIn(books, first, last)
           /\ Change(Append(books, book), first, last) = Change(books, first, last)
<1> DEFINE after == Append(books, book)
<1>1. Len(books) \in Nat /\ \A n \in 1..Len(books) : after[n] = books[n]
  BY LenProperties, AppendProperties
<1> HIDE DEF after
<1>2. \A n \in first + 1..last : after[n - 1] = books[n - 1] /\ after[n] = books[n]
  <2> SUFFICES ASSUME NEW n \in first + 1..last
               PROVE  after[n - 1] = books[n - 1] /\ after[n] = books[n]
    OBVIOUS
  <2>1. n \in 1..Len(books) /\ n - 1 \in 1..Len(books)
    BY <1>1
  <2> QED BY <1>1, <2>1
<1>3. TouchedIn(after, first, last) = TouchedIn(books, first, last)
  BY <1>2 DEF TouchedIn
<1>4. after[last] = books[last]
  BY <1>1
<1>5. Change(after, first, last) = Change(books, first, last)
  BY <1>3, <1>4 DEF Change
<1> QED BY <1>3, <1>4, <1>5 DEF after

-----------------------------------------------------------------------------
(* The events on their way, in the order the engine will have them.        *)

\* The ids of the updates among the first k events.
UpdateIds(events, k) ==
    {events[j].lastUpdateId : j \in {i \in 1..k : events[i].type = "DepthUpdate"}}

\* An update after others with these ids covers what comes after version p.
\* What p was leads to p, or p was lost, or nothing is there before it and p is
\* one of the books the engine can go on from.
Follows(p, ids, base, gone) ==
    /\ \A n \in ids : n <= p
    /\ \E b \in base : b <= p
    /\ p \in gone \/ p \in ids \/ (ids = {} /\ p \in base)

EventOK(books, e) ==
    /\ e.lastUpdateId \in 1..Len(books)
    /\ e.type = "DepthSnapshot" => e.levels = books[e.lastUpdateId]

Covers(books, e, p) == e.levels = Change(books, p, e.lastUpdateId)

UpdateOK(books, e, ids, base, gone) ==
    e.type = "DepthUpdate" =>
        \E p \in 1..e.lastUpdateId - 1 : Covers(books, e, p) /\ Follows(p, ids, base, gone)

StreamOK(books, events, from, base, gone) ==
    /\ \A i \in 1..Len(events) :
           EventOK(books, events[i])
           /\ UpdateOK(books, events[i], UpdateIds(events, i - 1), base, gone)
    /\ Follows(from, UpdateIds(events, Len(events)), base, gone)

LEMMA IdsSame ==
    ASSUME NEW E, NEW F, NEW k \in Nat, \A i \in 1..k : F[i] = E[i]
    PROVE  UpdateIds(F, k) = UpdateIds(E, k)
BY DEF UpdateIds

LEMMA IdsNone ==
    ASSUME NEW E
    PROVE  UpdateIds(E, 0) = {}
BY DEF UpdateIds

LEMMA IdsMember ==
    ASSUME NEW E, NEW k \in Nat, NEW n
    PROVE  n \in UpdateIds(E, k) <=>
               \E j \in 1..k : E[j].type = "DepthUpdate" /\ E[j].lastUpdateId = n
BY DEF UpdateIds

LEMMA IdsNext ==
    ASSUME NEW E, NEW k \in Nat
    PROVE  UpdateIds(E, k + 1) =
               IF E[k + 1].type = "DepthUpdate"
               THEN UpdateIds(E, k) \cup {E[k + 1].lastUpdateId} ELSE UpdateIds(E, k)
<1>1. \A j : j \in 1..k + 1 <=> j \in 1..k \/ j = k + 1
  OBVIOUS
<1> QED BY <1>1 DEF UpdateIds

\* One more event.
LEMMA StreamAppends ==
    ASSUME NEW books, NEW E \in Seq(DepthEvent), NEW from, NEW to, NEW base, NEW gone,
           StreamOK(books, E, from, base, gone), NEW e \in DepthEvent, EventOK(books, e),
           UpdateOK(books, e, UpdateIds(E, Len(E)), base, gone),
           Follows(to, IF e.type = "DepthUpdate"
                       THEN UpdateIds(E, Len(E)) \cup {e.lastUpdateId}
                       ELSE UpdateIds(E, Len(E)), base, gone)
    PROVE  StreamOK(books, Append(E, e), to, base, gone)
<1> DEFINE F == Append(E, e)
<1>1. /\ Len(F) = Len(E) + 1 /\ Len(E) \in Nat /\ F[Len(E) + 1] = e
      /\ \A i \in 1..Len(E) : F[i] = E[i]
  BY AppendProperties, LenProperties
<1> HIDE DEF F
<1>2. ASSUME NEW k \in 0..Len(E)
      PROVE  UpdateIds(F, k) = UpdateIds(E, k)
  BY <1>1, IdsSame
<1>3. ASSUME NEW i \in 1..Len(F)
      PROVE  EventOK(books, F[i]) /\ UpdateOK(books, F[i], UpdateIds(F, i - 1), base, gone)
  <2>1. CASE i = Len(E) + 1
    <3>1. F[i] = e /\ UpdateIds(F, i - 1) = UpdateIds(E, Len(E))
      BY <1>1, <1>2, <2>1
    <3> QED BY <3>1
  <2>2. CASE i \in 1..Len(E)
    <3>1. F[i] = E[i] /\ UpdateIds(F, i - 1) = UpdateIds(E, i - 1)
      BY <1>1, <1>2, <2>2
    <3> QED BY <2>2, <3>1 DEF StreamOK
  <2> QED BY <1>1, <2>1, <2>2
<1>4. Follows(to, UpdateIds(F, Len(F)), base, gone)
  <2>1. Len(E) \in 0..Len(E) /\ UpdateIds(F, Len(E)) = UpdateIds(E, Len(E))
    BY <1>1, <1>2
  <2>2. UpdateIds(F, Len(F)) = IF e.type = "DepthUpdate"
                               THEN UpdateIds(E, Len(E)) \cup {e.lastUpdateId}
                               ELSE UpdateIds(E, Len(E))
    BY <1>1, <2>1, IdsNext
  <2> QED BY <2>2
<1>5. StreamOK(books, F, to, base, gone)
  BY <1>3, <1>4 DEF StreamOK
<1> QED BY <1>5 DEF F

\* What the sender does when it sends the update to the version it has reached.
LEMMA FollowsNext ==
    ASSUME NEW from \in Nat, NEW ids, NEW base \in SUBSET Nat, NEW gone, Follows(from, ids,
           base, gone),
           NEW n \in Nat, from < n, ids \subseteq Nat
    PROVE  Follows(n, ids \cup {n}, base, gone)
<1>1. \A m \in ids : m <= n
  BY DEF Follows
<1>2. \E b \in base : b <= n
  BY DEF Follows
<1> QED BY <1>1, <1>2 DEF Follows

\* An update that gets lost: what follows it follows something lost.
LEMMA FollowsLost ==
    ASSUME NEW p, NEW ids, NEW base, NEW gone, NEW m,
           Follows(p, ids \cup {m}, base, gone)
    PROVE  Follows(p, ids, base, gone \cup {m})
BY DEF Follows

LEMMA FollowsMore ==
    ASSUME NEW p, NEW ids, NEW base, NEW gone, NEW m, Follows(p, ids, base, gone)
    PROVE  Follows(p, ids, base, gone \cup {m})
BY DEF Follows

LEMMA UpdateAfterLost ==
    ASSUME NEW books, NEW e, NEW ids, NEW base, NEW gone, NEW m, UpdateOK(books, e,
           ids \cup {m}, base, gone)
    PROVE  UpdateOK(books, e, ids, base, gone \cup {m})
BY FollowsLost DEF UpdateOK

LEMMA UpdateWithLost ==
    ASSUME NEW books, NEW e, NEW ids, NEW base, NEW gone, NEW m, UpdateOK(books, e, ids,
           base, gone)
    PROVE  UpdateOK(books, e, ids, base, gone \cup {m})
BY FollowsMore DEF UpdateOK

\* F is E without its k-th event, an update that was lost.
LEMMA StreamLoses ==
    ASSUME NEW books, NEW E \in Seq(DepthEvent), NEW F \in Seq(DepthEvent),
           NEW from, NEW base, NEW gone, StreamOK(books, E, from, base, gone),
           NEW k \in 1..Len(E), E[k].type = "DepthUpdate", Len(F) = Len(E) - 1,
           \A i \in 1..k - 1 : F[i] = E[i],
           \A i \in k..Len(F) : F[i] = E[i + 1]
    PROVE  StreamOK(books, F, from, base, gone \cup {E[k].lastUpdateId})
<1> DEFINE m == E[k].lastUpdateId
<1>1. Len(E) \in Nat /\ Len(F) \in Nat /\ k \in Nat /\ k <= Len(E)
  BY LenProperties
<1>2. ASSUME NEW i \in k..Len(E)
      PROVE  UpdateIds(E, i) = UpdateIds(F, i - 1) \cup {m}
  <2>1. i \in Nat /\ i - 1 \in Nat
    BY <1>1
  <2>2. ASSUME NEW n, n \in UpdateIds(E, i)
        PROVE  n \in UpdateIds(F, i - 1) \cup {m}
    <3>1. PICK j \in 1..i : E[j].type = "DepthUpdate" /\ E[j].lastUpdateId = n
      BY <2>1, <2>2, IdsMember
    <3>2. CASE j = k
      BY <3>1, <3>2
    <3>3. CASE j < k
      <4>1. j \in 1..k - 1 /\ j \in 1..i - 1
        BY <1>1, <3>3
      <4>2. F[j] = E[j]
        BY <4>1
      <4> QED BY <2>1, <3>1, <4>1, <4>2, IdsMember
    <3>4. CASE j > k
      <4>1. j - 1 \in k..Len(F) /\ (j - 1) + 1 = j /\ j - 1 \in 1..i - 1
        BY <1>1, <3>4
      <4>2. F[j - 1] = E[j]
        BY <4>1
      <4> QED BY <2>1, <3>1, <4>1, <4>2, IdsMember
    <3> QED BY <1>1, <3>2, <3>3, <3>4
  <2>3. ASSUME NEW n, n \in UpdateIds(F, i - 1)
        PROVE  n \in UpdateIds(E, i)
    <3>1. PICK j \in 1..i - 1 : F[j].type = "DepthUpdate" /\ F[j].lastUpdateId = n
      BY <2>1, <2>3, IdsMember
    <3>2. CASE j < k
      <4>1. j \in 1..k - 1 /\ j \in 1..i
        BY <1>1, <3>2
      <4>2. F[j] = E[j]
        BY <4>1
      <4> QED BY <2>1, <3>1, <4>1, <4>2, IdsMember
    <3>3. CASE j >= k
      <4>1. j \in k..Len(F) /\ j + 1 \in 1..i
        BY <1>1, <3>3
      <4>2. F[j] = E[j + 1]
        BY <4>1
      <4> QED BY <2>1, <3>1, <4>1, <4>2, IdsMember
    <3> QED BY <1>1, <3>2, <3>3
  <2>4. m \in UpdateIds(E, i)
    <3>1. k \in 1..i
      BY <1>1
    <3> QED BY <2>1, <3>1, IdsMember
  <2> QED BY <2>2, <2>3, <2>4
<1>3. ASSUME NEW i \in 1..Len(F)
      PROVE  /\ EventOK(books, F[i])
             /\ UpdateOK(books, F[i], UpdateIds(F, i - 1), base, gone \cup {m})
  <2>1. CASE i < k
    <3>1. i \in 1..k - 1 /\ i \in 1..Len(E) /\ i - 1 \in Nat
      BY <1>1, <2>1
    <3>2. F[i] = E[i] /\ UpdateIds(F, i - 1) = UpdateIds(E, i - 1)
      BY <3>1, IdsSame
    <3>3. EventOK(books, E[i]) /\ UpdateOK(books, E[i], UpdateIds(E, i - 1), base, gone)
      BY <3>1 DEF StreamOK
    <3> QED BY <3>2, <3>3, UpdateWithLost
  <2>2. CASE i >= k
    <3>1. i \in k..Len(F) /\ i \in k..Len(E) /\ i + 1 \in 1..Len(E) /\ (i + 1) - 1 = i
      BY <1>1, <2>2
    <3>2. F[i] = E[i + 1] /\ UpdateIds(E, i) = UpdateIds(F, i - 1) \cup {m}
      BY <1>2, <3>1
    <3>3. EventOK(books, E[i + 1]) /\ UpdateOK(books, E[i + 1], UpdateIds(E, i), base, gone)
      BY <3>1 DEF StreamOK
    <3> HIDE DEF m
    <3>4. UpdateOK(books, F[i], UpdateIds(F, i - 1) \cup {m}, base, gone)
      BY <3>2, <3>3
    <3> QED BY <3>2, <3>3, <3>4, UpdateAfterLost
  <2> QED BY <1>1, <2>1, <2>2
<1>4. Follows(from, UpdateIds(F, Len(F)), base, gone \cup {m})
  <2>1. Len(E) \in k..Len(E) /\ Len(E) - 1 = Len(F)
    BY <1>1
  <2>2. UpdateIds(E, Len(E)) = UpdateIds(F, Len(F)) \cup {m}
    BY <1>2, <2>1
  <2> HIDE DEF m
  <2> QED BY <2>2, FollowsLost DEF StreamOK
<1> QED BY <1>3, <1>4 DEF StreamOK

\* Of two updates the later has the greater id.
LEMMA IdsIncrease ==
    ASSUME NEW books, NEW E, NEW from, NEW base, NEW gone, StreamOK(books, E, from, base,
           gone), Len(books) \in Nat,
           NEW j \in 1..Len(E), NEW i \in 1..Len(E), j < i, Len(E) \in Nat,
           E[j].type = "DepthUpdate", E[i].type = "DepthUpdate"
    PROVE  E[j].lastUpdateId < E[i].lastUpdateId
<1>1. E[i].lastUpdateId \in Nat /\ E[j].lastUpdateId \in Nat
  BY DEF StreamOK, EventOK
<1>2. PICK p \in 1..E[i].lastUpdateId - 1 : Follows(p, UpdateIds(E, i - 1), base, gone)
  BY DEF StreamOK, UpdateOK
<1>3. i - 1 \in Nat /\ j \in 1..i - 1
  OBVIOUS
<1>4. E[j].lastUpdateId \in UpdateIds(E, i - 1)
  BY <1>3, IdsMember
<1>5. E[j].lastUpdateId <= p
  BY <1>2, <1>4 DEF Follows
<1> QED BY <1>1, <1>2, <1>5

\* F is what is left of E when the engine has dealt with the first k events, and
\* goes on from other books than before.
LEMMA StreamDrops ==
    ASSUME NEW books, NEW E \in Seq(DepthEvent), NEW F \in Seq(DepthEvent), Len(books) \in Nat,
           NEW from \in Nat, NEW base, NEW gone, StreamOK(books, E, from, base, gone),
           NEW k \in 1..Len(E), Len(F) = Len(E) - k,
           \A i \in 1..Len(F) : F[i] = E[i + k],
           NEW next,
           \A p : /\ \A n \in UpdateIds(E, k) : n <= p
                  /\ \E b \in base : b <= p
                  => /\ \E b \in next : b <= p
                     /\ \/ p \in UpdateIds(E, k)
                        \/ UpdateIds(E, k) = {} /\ p \in base
                        => p \in next
    PROVE  StreamOK(books, F, from, next, gone)
<1>1. Len(E) \in Nat /\ Len(F) \in Nat /\ k \in Nat
  BY LenProperties
<1>2. ASSUME NEW i \in 0..Len(F), NEW n
      PROVE  n \in UpdateIds(E, i + k) <=> n \in UpdateIds(F, i) \/ n \in UpdateIds(E, k)
  <2>1. i \in Nat /\ i + k \in Nat
    BY <1>1
  <2>2. ASSUME n \in UpdateIds(E, i + k)
        PROVE  n \in UpdateIds(F, i) \/ n \in UpdateIds(E, k)
    <3>1. PICK j \in 1..i + k : E[j].type = "DepthUpdate" /\ E[j].lastUpdateId = n
      BY <2>1, <2>2, IdsMember
    <3>2. CASE j <= k
      <4>1. j \in 1..k
        BY <1>1, <3>2
      <4> QED BY <1>1, <3>1, <4>1, IdsMember
    <3>3. CASE j > k
      <4>1. j - k \in 1..i /\ j - k \in 1..Len(F) /\ (j - k) + k = j
        BY <1>1, <3>3
      <4>2. F[j - k] = E[j]
        BY <4>1
      <4> QED BY <2>1, <3>1, <4>1, <4>2, IdsMember
    <3> QED BY <1>1, <3>2, <3>3
  <2>3. ASSUME n \in UpdateIds(F, i)
        PROVE  n \in UpdateIds(E, i + k)
    <3>0. \E j \in 1..i : F[j].type = "DepthUpdate" /\ F[j].lastUpdateId = n
      BY <2>1, <2>3 DEF UpdateIds
    <3>1. PICK j \in 1..i : F[j].type = "DepthUpdate" /\ F[j].lastUpdateId = n
      BY <3>0
    <3>2. j \in 1..Len(F) /\ j + k \in 1..i + k
      BY <1>1
    <3>3. F[j] = E[j + k]
      BY <3>2
    <3> QED BY <2>1, <3>1, <3>2, <3>3, IdsMember
  <2>4. ASSUME n \in UpdateIds(E, k)
        PROVE  n \in UpdateIds(E, i + k)
    <3>1. PICK j \in 1..k : E[j].type = "DepthUpdate" /\ E[j].lastUpdateId = n
      BY <1>1, <2>4, IdsMember
    <3>2. j \in 1..i + k
      BY <1>1
    <3> QED BY <2>1, <3>1, <3>2, IdsMember
  <2> QED BY <2>2, <2>3, <2>4
<1>3. ASSUME NEW i \in 0..Len(F), NEW n \in UpdateIds(F, i), NEW m \in UpdateIds(E, k)
      PROVE  m \in Nat /\ n \in Nat /\ m < n
  <2>1. PICK j \in 1..i : F[j].type = "DepthUpdate" /\ F[j].lastUpdateId = n
    BY <1>1, IdsMember
  <2>2. PICK h \in 1..k : E[h].type = "DepthUpdate" /\ E[h].lastUpdateId = m
    BY <1>1, IdsMember
  <2>3. j \in 1..Len(F) /\ j + k \in 1..Len(E) /\ h \in 1..Len(E) /\ h < j + k
    BY <1>1
  <2>4. F[j] = E[j + k]
    BY <2>3
  <2>5. m < n
    BY <1>1, <2>1, <2>2, <2>3, <2>4, IdsIncrease
  <2>6. m \in Nat /\ n \in Nat
    <3>1. Len(books) \in Nat /\ E[h].lastUpdateId \in 1..Len(books)
          /\ E[j + k].lastUpdateId \in 1..Len(books)
      BY <2>3 DEF StreamOK, EventOK
    <3> QED BY <2>1, <2>2, <2>4, <3>1
  <2> QED BY <2>5, <2>6
<1>4. ASSUME NEW i \in 0..Len(F), NEW p \in Nat, Follows(p, UpdateIds(E, i + k), base, gone)
      PROVE  Follows(p, UpdateIds(F, i), next, gone)
  <2>1. \A n \in UpdateIds(F, i) : n <= p
    BY <1>2, <1>4 DEF Follows
  <2>2. \A n \in UpdateIds(E, k) : n <= p
    BY <1>2, <1>4 DEF Follows
  <2>3. \E b \in base : b <= p
    BY <1>4 DEF Follows
  <2>4. \E b \in next : b <= p
    BY <2>2, <2>3
  <2>5. CASE p \in gone \/ p \in UpdateIds(F, i)
    BY <2>1, <2>4, <2>5 DEF Follows
  <2>6. CASE p \in UpdateIds(E, k)
    <3>1. UpdateIds(F, i) = {}
      <4> SUFFICES ASSUME NEW n \in UpdateIds(F, i) PROVE FALSE
        OBVIOUS
      <4>1. n \in Nat /\ p < n /\ n <= p
        BY <1>3, <2>1, <2>6
      <4> QED BY <4>1
    <3>2. p \in next
      BY <2>2, <2>3, <2>6
    <3> QED BY <2>4, <3>1, <3>2 DEF Follows
  <2>7. CASE UpdateIds(E, i + k) = {} /\ p \in base
    <3>1. UpdateIds(F, i) = {} /\ UpdateIds(E, k) = {}
      BY <1>2, <2>7
    <3>2. p \in next
      BY <2>2, <2>3, <2>7, <3>1
    <3> QED BY <2>4, <3>1, <3>2 DEF Follows
  <2>8. \/ p \in gone \/ p \in UpdateIds(F, i) \/ p \in UpdateIds(E, k)
        \/ UpdateIds(E, i + k) = {} /\ p \in base
    BY <1>2, <1>4 DEF Follows
  <2> QED BY <2>5, <2>6, <2>7, <2>8
<1>5. ASSUME NEW i \in 1..Len(F)
      PROVE  EventOK(books, F[i]) /\ UpdateOK(books, F[i], UpdateIds(F, i - 1), next, gone)
  <2>1. i + k \in 1..Len(E) /\ (i + k) - 1 = (i - 1) + k /\ i - 1 \in 0..Len(F)
    <3>1. i \in Nat /\ 1 <= i /\ i <= Len(E) - k
      BY <1>1
    <3>2. i + k \in 1..Len(E)
      BY <1>1, <3>1
    <3>3. i - 1 \in 0..Len(F)
      BY <1>1, <3>1
    <3> QED BY <1>1, <3>1, <3>2, <3>3
  <2>2. F[i] = E[i + k]
    OBVIOUS
  <2>3. EventOK(books, E[i + k])
        /\ UpdateOK(books, E[i + k], UpdateIds(E, (i - 1) + k), base, gone)
    BY <2>1 DEF StreamOK
  <2>4. EventOK(books, F[i]) /\ UpdateOK(books, F[i], UpdateIds(E, (i - 1) + k), base, gone)
    BY <2>2, <2>3
  <2>5. UpdateOK(books, F[i], UpdateIds(F, i - 1), next, gone)
    <3> SUFFICES ASSUME F[i].type = "DepthUpdate"
                 PROVE  \E p \in 1..F[i].lastUpdateId - 1 :
                            Covers(books, F[i], p)
                            /\ Follows(p, UpdateIds(F, i - 1), next, gone)
      BY DEF UpdateOK
    <3>1. PICK p \in 1..F[i].lastUpdateId - 1 :
              Covers(books, F[i], p) /\ Follows(p, UpdateIds(E, (i - 1) + k), base, gone)
      BY <2>4 DEF UpdateOK
    <3>2. p \in Nat
      BY <2>4 DEF EventOK
    <3>3. Follows(p, UpdateIds(F, i - 1), next, gone)
      BY <1>4, <2>1, <3>1, <3>2
    <3> QED BY <3>1, <3>3
  <2> QED BY <2>4, <2>5
<1>6. Follows(from, UpdateIds(F, Len(F)), next, gone)
  <2>1. Len(F) \in 0..Len(F) /\ Len(F) + k = Len(E)
    BY <1>1
  <2>2. Follows(from, UpdateIds(E, Len(F) + k), base, gone)
    BY <2>1 DEF StreamOK
  <2> QED BY <1>4, <2>1, <2>2
<1> QED BY <1>5, <1>6 DEF StreamOK

\* The exchange going on changes nothing of what is on its way.
LEMMA StreamStays ==
    ASSUME NEW books \in Seq(Book), NEW book \in Book,
           NEW E, NEW from, NEW base, NEW gone, StreamOK(books, E, from, base, gone)
    PROVE  StreamOK(Append(books, book), E, from, base, gone)
<1> DEFINE after == Append(books, book)
<1>1. /\ Len(books) \in Nat /\ Len(after) = Len(books) + 1
      /\ \A n \in 1..Len(books) : after[n] = books[n]
  BY LenProperties, AppendProperties
<1> HIDE DEF after
<1>2. ASSUME NEW e, EventOK(books, e)
      PROVE  EventOK(after, e)
  <2>1. e.lastUpdateId \in 1..Len(books) /\ e.lastUpdateId \in 1..Len(books) + 1
    BY <1>1, <1>2 DEF EventOK
  <2>2. after[e.lastUpdateId] = books[e.lastUpdateId]
    BY <1>1, <2>1
  <2> QED BY <1>1, <1>2, <2>1, <2>2 DEF EventOK
<1>3. ASSUME NEW e, NEW ids, EventOK(books, e), UpdateOK(books, e, ids, base, gone)
      PROVE  UpdateOK(after, e, ids, base, gone)
  <2> SUFFICES ASSUME e.type = "DepthUpdate"
               PROVE  \E p \in 1..e.lastUpdateId - 1 :
                          Covers(after, e, p) /\ Follows(p, ids, base, gone)
    BY DEF UpdateOK
  <2>1. PICK p \in 1..e.lastUpdateId - 1 : Covers(books, e, p) /\ Follows(p, ids, base, gone)
    BY <1>3 DEF UpdateOK
  <2>2. e.lastUpdateId \in 1..Len(books) /\ p \in Nat \ {0}
    BY <1>1, <1>3 DEF EventOK
  <2>3. Change(after, p, e.lastUpdateId) = Change(books, p, e.lastUpdateId)
    BY <2>2, ChangesStay DEF after
  <2> QED BY <2>1, <2>3 DEF Covers
<1>4. \A i \in 1..Len(E) : EventOK(after, E[i])
      /\ UpdateOK(after, E[i], UpdateIds(E, i - 1), base, gone)
  BY <1>2, <1>3 DEF StreamOK
<1>5. StreamOK(after, E, from, base, gone)
  BY <1>4 DEF StreamOK
<1> QED BY <1>5 DEF after

-----------------------------------------------------------------------------
(* The updates put aside, applied over a snapshot one by one.              *)

Replays(f, k, snapshot) ==
    f = [i \in 0..k |->
            IF i = 0 THEN ApplySnapshot(depthBook, snapshot.levels)
            ELSE IF Newer(depthEvents[i], snapshot)
            THEN HandleDepthUpdate(f[i - 1], depthEvents[i].levels)
            ELSE f[i - 1]]

LEMMA ReplayExists ==
    ASSUME NEW snapshot, NEW m \in Nat
    PROVE  \E f : Replays(f, m, snapshot)
<1> DEFINE Good == {k \in Nat : \E f : Replays(f, k, snapshot)}
<1>1. 0 \in Good
  <2> DEFINE f == [i \in 0..0 |-> ApplySnapshot(depthBook, snapshot.levels)]
  <2>1. \A i \in 0..0 : i = 0
    OBVIOUS
  <2>2. Replays(f, 0, snapshot)
    BY <2>1 DEF Replays
  <2> QED BY <2>2
<1>2. ASSUME NEW k \in 0..m, k \in Good
      PROVE  k + 1 \in Good
  <2>1. PICK f : Replays(f, k, snapshot)
    BY <1>2
  <2>2. k \in Nat /\ k + 1 \in Nat /\ k + 1 # 0
    OBVIOUS
  <2> DEFINE step(b, i) == IF Newer(depthEvents[i], snapshot)
                           THEN HandleDepthUpdate(b, depthEvents[i].levels) ELSE b
             g == [i \in 0..k + 1 |-> IF i = k + 1 THEN step(f[k], i) ELSE f[i]]
  <2>3. \A i \in 0..k : f[i] = IF i = 0 THEN ApplySnapshot(depthBook, snapshot.levels)
                                ELSE step(f[i - 1], i)
    BY <2>1 DEF Replays
  <2>4. \A i \in 0..k + 1 : i # 0 => i - 1 \in 0..k /\ g[i - 1] = f[i - 1]
    <3>1. \A i \in 0..k + 1 : i # 0 => i - 1 \in 0..k /\ i - 1 \in 0..k + 1 /\ i - 1 # k + 1
      BY <2>2
    <3> HIDE DEF step
    <3> QED BY <3>1
  <2> HIDE DEF step
  <2>5. \A i \in 0..k + 1 : g[i] = IF i = 0 THEN ApplySnapshot(depthBook, snapshot.levels)
                                    ELSE step(g[i - 1], i)
    <3> TAKE i \in 0..k + 1
    <3>1. CASE i = k + 1
      <4>1. g[i] = step(f[k], i) /\ g[i - 1] = f[k] /\ i # 0
        BY <2>2, <2>4, <3>1
      <4> QED BY <4>1
    <3>2. CASE i # k + 1
      <4>1. i \in 0..k /\ g[i] = f[i]
        BY <3>2
      <4> QED BY <2>3, <2>4, <4>1
    <3> QED BY <3>1, <3>2
  <2>6. g = [i \in 0..k + 1 |-> IF i = 0 THEN ApplySnapshot(depthBook, snapshot.levels)
                                ELSE step(g[i - 1], i)]
    <3>1. g = [i \in 0..k + 1 |-> g[i]]
      OBVIOUS
    <3> HIDE DEF g
    <3> QED BY <2>5, <3>1
  <2> HIDE DEF g
  <2>7. Replays(g, k + 1, snapshot)
    BY <2>6 DEF Replays, step
  <2> QED BY <2>2, <2>7
<1> HIDE DEF Good
<1>3. m \in Good
  BY <1>1, <1>2, IntervalInduction
<1> QED BY <1>3 DEF Good

LEMMA AfterSnapshotReplays ==
    ASSUME NEW snapshot, Len(depthEvents) \in Nat
    PROVE  \E f : /\ Replays(f, Len(depthEvents), snapshot)
                  /\ AfterSnapshot(snapshot) = f[Len(depthEvents)]
<1>1. PICK f : Replays(f, Len(depthEvents), snapshot)
  BY ReplayExists
<1> QED BY <1>1 DEF AfterSnapshot, Replays

\* The updates put aside are the exchange's, in order, from its first book on.
BufferOK(gone) ==
    \A i \in 1..Len(depthEvents) :
        /\ depthEvents[i].lastUpdateId \in 1..Latest
        /\ \E p \in 1..depthEvents[i].lastUpdateId - 1 :
              /\ Covers(versions, depthEvents[i], p)
              /\ Follows(p, UpdateIds(depthEvents, i - 1), {1}, gone)

\* The version n updates lead to from version s, when the later ones are applied.
ReachedBy(t, n, s) ==
    /\ t \in s..Latest
    /\ t = s \/ t \in UpdateIds(depthEvents, n)
    /\ \A id \in UpdateIds(depthEvents, n) : id <= t

\* The i-th of the updates put aside, applied unless version s has it.
OverBook(b, i, s) ==
    IF depthEvents[i].lastUpdateId > s
    THEN HandleDepthUpdate(b, depthEvents[i].levels) ELSE b

Complete(s, t, gone) == \A id \in gone : id <= s \/ id > t

Reaches(b, n, s, gone) ==
    \E t : ReachedBy(t, n, s) /\ (Complete(s, t, gone) => b = versions[t])

LEMMA SnapshotStep ==
    ASSUME versions \in Seq(Book), depthEvents \in Seq(DepthUpdate),
           NEW gone \in SUBSET Nat, BufferOK(gone),
           NEW s \in 1..Latest, NEW k \in 0..Len(depthEvents), k + 1 <= Len(depthEvents),
           NEW b, Reaches(b, k, s, gone)
    PROVE  Reaches(OverBook(b, k + 1, s), k + 1, s, gone)
<1> DEFINE m == depthEvents[k + 1].lastUpdateId
           ids == UpdateIds(depthEvents, k)
<1>0. PICK t : ReachedBy(t, k, s) /\ (Complete(s, t, gone) => b = versions[t])
  BY DEF Reaches
<1>1. /\ Latest \in Nat /\ k \in Nat /\ k + 1 \in 1..Len(depthEvents) /\ (k + 1) - 1 = k
      /\ s \in Nat /\ t \in Nat /\ m \in 1..Latest
  BY <1>0, LenProperties DEF BufferOK, Latest, ReachedBy
<1>2. PICK p \in 1..m - 1 : Covers(versions, depthEvents[k + 1], p)
      /\ Follows(p, ids, {1}, gone)
  BY <1>1 DEF BufferOK
<1>3. p \in Nat /\ p < m /\ \A id \in ids : id <= p
  BY <1>1, <1>2 DEF Follows
<1>4. depthEvents[k + 1].type = "DepthUpdate"
  <2>1. depthEvents[k + 1] \in DepthUpdate
    BY <1>1, ElementOfSeq
  <2> QED BY <2>1 DEF DepthUpdate
<1>5. UpdateIds(depthEvents, k + 1) = ids \cup {m}
  BY <1>1, <1>4, IdsNext
<1>6. depthEvents[k + 1].levels = Change(versions, p, m)
  BY <1>2 DEF Covers
<1> HIDE DEF m, ids
<1>7. CASE m <= s
  <2>1. ReachedBy(t, k + 1, s)
    BY <1>0, <1>1, <1>5, <1>7 DEF ReachedBy, ids
  <2>2. OverBook(b, k + 1, s) = b
    BY <1>1, <1>7 DEF m, OverBook
  <2> QED BY <1>0, <2>1, <2>2 DEF Reaches
<1>8. CASE m > s
  <2>1. OverBook(b, k + 1, s) = HandleDepthUpdate(b, Change(versions, p, m))
    BY <1>6, <1>8 DEF m, OverBook
  <2>2. \A id \in ids \cup {m} : id <= m
    <3>1. m <= m
      BY <1>1
    <3>2. \A id \in ids : id \in Nat
      <4> SUFFICES ASSUME NEW id \in ids PROVE id \in Nat
        OBVIOUS
      <4>1. PICK j \in 1..k : depthEvents[j].lastUpdateId = id
        BY <1>1, IdsMember DEF ids
      <4>2. j \in 1..Len(depthEvents)
        BY <1>1
      <4> QED BY <1>1, <4>1, <4>2 DEF BufferOK
    <3> QED BY <1>1, <1>3, <3>1, <3>2
  <2>3. ReachedBy(m, k + 1, s)
    BY <1>1, <1>5, <1>8, <2>2 DEF ReachedBy
  <2>4. t < m
    BY <1>0, <1>1, <1>3, <1>8 DEF ReachedBy, ids
  <2>5. ASSUME Complete(s, m, gone)
        PROVE  OverBook(b, k + 1, s) = versions[m]
    <3>1. Complete(s, t, gone)
      <4> SUFFICES ASSUME NEW id \in gone, ~(id <= s)
                   PROVE  id > t
        BY DEF Complete
      <4>1. id > m
        BY <2>5 DEF Complete
      <4>2. id \in Nat /\ m \in Nat
        BY <1>1
      <4> QED BY <1>1, <2>4, <4>1, <4>2
    <3>2. b = versions[t]
      BY <1>0, <3>1
    <3>3. p <= t
      <4>1. CASE p \in gone
        <5>1. p <= s
          BY <1>1, <1>3, <2>5, <4>1 DEF Complete
        <5> QED BY <1>0, <1>1, <1>3, <5>1 DEF ReachedBy
      <4>2. CASE p \in ids
        BY <1>0, <4>2 DEF ReachedBy, ids
      <4>3. CASE p = 1
        BY <1>0, <1>1, <4>3 DEF ReachedBy
      <4> QED BY <1>2, <4>1, <4>2, <4>3 DEF Follows
    <3>4. t \in p..m /\ p \in 1..Latest /\ m \in p..Latest
      BY <1>1, <1>2, <1>3, <2>4, <3>3
    <3> QED BY <2>1, <3>2, <3>4, ChangeCatchesUp DEF Latest
  <2> QED BY <2>3, <2>5 DEF Reaches
<1> QED BY <1>1, <1>7, <1>8

\* The book after a snapshot and the updates put aside is the exchange's, the one
\* the latest of them leads to, if nothing beyond the snapshot was lost.
LEMMA SnapshotApplied ==
    ASSUME versions \in Seq(Book), depthEvents \in Seq(DepthUpdate), depthBook = EmptyBook,
           NEW gone \in SUBSET Nat, BufferOK(gone), NEW snapshot,
           snapshot.lastUpdateId \in 1..Latest,
           snapshot.levels = versions[snapshot.lastUpdateId]
    PROVE  Reaches(AfterSnapshot(snapshot), Len(depthEvents), snapshot.lastUpdateId, gone)
<1> DEFINE s == snapshot.lastUpdateId
           n == Len(depthEvents)
<1>1. n \in Nat /\ s \in 1..Latest /\ Latest \in Nat
  BY LenProperties DEF Latest
<1>2. PICK f : Replays(f, n, snapshot) /\ AfterSnapshot(snapshot) = f[n]
  BY <1>1, AfterSnapshotReplays
<1> DEFINE Good == {k \in Nat : k <= n => Reaches(f[k], k, s, gone)}
<1>3. 0 \in Good
  <2>1. f[0] = ApplySnapshot(depthBook, snapshot.levels)
    <3>1. 0 \in 0..n
      BY <1>1
    <3> QED BY <1>2, <3>1 DEF Replays
  <2>2. f[0] = versions[s]
    BY <1>1, <2>1, FirstSnapshot, ElementOfSeq DEF Latest
  <2>3. ReachedBy(s, 0, s)
    BY <1>1, IdsNone DEF ReachedBy
  <2> QED BY <2>2, <2>3 DEF Reaches
<1>4. ASSUME NEW k \in 0..n, k + 1 <= n, k \in Good
      PROVE  k + 1 \in Good
  <2>1. k \in Nat /\ k + 1 \in Nat /\ k + 1 \in 0..n /\ k + 1 # 0 /\ (k + 1) - 1 = k
    BY <1>1, <1>4
  <2>2. Reaches(f[k], k, s, gone)
    BY <1>1, <1>4, <2>1
  <2>3. f[k + 1] = OverBook(f[k], k + 1, s)
    BY <1>2, <2>1 DEF Replays, Newer, OverBook
  <2>4. Reaches(f[k + 1], k + 1, s, gone)
    <3> HIDE DEF s, Good
    <3> QED BY <1>1, <1>4, <2>2, <2>3, SnapshotStep
  <2> QED BY <2>1, <2>4
<1> HIDE DEF Good
<1>5. n \in Good
  <2>1. 0..n \subseteq Good
    BY <1>1, <1>3, <1>4, IntervalInduction
  <2> QED BY <1>1, <2>1
<1> QED BY <1>1, <1>2, <1>5 DEF Good

\* Whatever was lost, the result is a book.
LEMMA AfterSnapshotType ==
    ASSUME depthEvents \in Seq(DepthUpdate), depthBook = EmptyBook,
           NEW snapshot, snapshot.levels \in Book
    PROVE  AfterSnapshot(snapshot) \in Book
<1> DEFINE n == Len(depthEvents)
<1>1. n \in Nat
  BY LenProperties
<1>2. PICK f : Replays(f, n, snapshot) /\ AfterSnapshot(snapshot) = f[n]
  BY <1>1, AfterSnapshotReplays
<1> DEFINE Good == {k \in Nat : k <= n => f[k] \in Book}
<1>3. 0 \in Good
  <2>1. 0 \in 0..n
    BY <1>1
  <2>2. f[0] = snapshot.levels
    BY <1>2, <2>1, FirstSnapshot DEF Replays
  <2> QED BY <2>2
<1>4. ASSUME NEW k \in 0..n, k + 1 <= n, k \in Good
      PROVE  k + 1 \in Good
  <2>1. k + 1 \in Nat /\ k + 1 \in 0..n /\ k + 1 # 0 /\ (k + 1) - 1 = k /\ f[k] \in Book
        /\ k + 1 \in 1..n
    BY <1>1, <1>4
  <2>2. depthEvents[k + 1].levels \in Update
    <3>1. depthEvents[k + 1] \in DepthUpdate
      BY <2>1, ElementOfSeq
    <3> QED BY <3>1 DEF DepthUpdate, Update
  <2>3. \/ f[k + 1] = f[k] \/ f[k + 1] = HandleDepthUpdate(f[k], depthEvents[k + 1].levels)
    BY <1>2, <2>1 DEF Replays
  <2>4. f[k + 1] \in Book
    BY <2>1, <2>2, <2>3, HandleDepthUpdateType
  <2> QED BY <2>1, <2>4
<1> HIDE DEF Good
<1>5. n \in Good
  <2>1. 0..n \subseteq Good
    BY <1>1, <1>3, <1>4, IntervalInduction
  <2> QED BY <1>1, <2>1
<1> QED BY <1>1, <1>2, <1>5 DEF Good

\* The latest id among them and the snapshot's.
LEMMA LatestApplied ==
    ASSUME depthEvents \in Seq(DepthUpdate), NEW gone, BufferOK(gone), Latest \in Nat,
           NEW s \in 1..Latest, NEW t, ReachedBy(t, Len(depthEvents), s)
    PROVE  t = CHOOSE n \in {depthEvents[i].lastUpdateId : i \in DOMAIN depthEvents} \cup {s} :
                   \A m \in {depthEvents[i].lastUpdateId : i \in DOMAIN depthEvents} \cup {s} :
                       m <= n
<1> DEFINE ids == {depthEvents[i].lastUpdateId : i \in DOMAIN depthEvents} \cup {s}
<1>1. Len(depthEvents) \in Nat /\ DOMAIN depthEvents = 1..Len(depthEvents)
  BY LenProperties
<1>2. \A i \in 1..Len(depthEvents) : depthEvents[i].type = "DepthUpdate"
  <2> TAKE i \in 1..Len(depthEvents)
  <2>1. depthEvents[i] \in DepthUpdate
    BY ElementOfSeq
  <2> QED BY <2>1 DEF DepthUpdate
<1>3. UpdateIds(depthEvents, Len(depthEvents)) \cup {s} = ids
  BY <1>1, <1>2 DEF UpdateIds
<1>4. ids \subseteq Nat
  BY <1>1 DEF BufferOK
<1> HIDE DEF ids
<1>5. t \in ids /\ \A id \in ids : id <= t
  BY <1>3 DEF ReachedBy
<1>6. PICK n \in ids : n = CHOOSE x \in ids : \A m \in ids : m <= x
  BY <1>5
<1>7. \A m \in ids : m <= n
  BY <1>5, <1>6
<1>8. t <= n /\ n <= t /\ t \in Nat /\ n \in Nat
  BY <1>4, <1>5, <1>7
<1>9. t = n
  BY <1>8
<1> QED BY <1>6, <1>9 DEF ids

-----------------------------------------------------------------------------
(* Sequences.                                                              *)

LEMMA TakenFirst ==
    ASSUME NEW S, NEW d \in Seq(S), NEW e \in S, NEW r \in Seq(S)
    PROVE  /\ d \o (<<e>> \o r) = Append(d, e) \o r
           /\ d \o (<<>> \o r) = d \o r
<1>1. <<e>> \in Seq(S) /\ <<>> \in Seq(S)
  OBVIOUS
<1>2. d \o (<<e>> \o r) = (d \o <<e>>) \o r
  BY <1>1, ConcatAssociative
<1>3. Append(d, e) = d \o <<e>>
  BY AppendIsConcat
<1>4. <<>> \o r = r
  BY ConcatEmptySeq
<1> QED BY <1>2, <1>3, <1>4

LEMMA MovedOn ==
    ASSUME NEW S, NEW d \in Seq(S), NEW r \in Seq(S), r # <<>>
    PROVE  Append(d, Head(r)) \o Tail(r) = d \o r
<1>1. Head(r) \in S /\ Tail(r) \in Seq(S)
  BY HeadTailProperties
<1>2. <<Head(r)>> \o Tail(r) = r
  <2>1. <<Head(r)>> \in Seq(S) /\ Len(<<Head(r)>>) = 1
    BY <1>1
  <2>2. /\ <<Head(r)>> \o Tail(r) \in Seq(S)
        /\ Len(<<Head(r)>> \o Tail(r)) = 1 + Len(Tail(r))
        /\ \A i \in 1..1 + Len(Tail(r)) : (<<Head(r)>> \o Tail(r))[i] =
               IF i <= 1 THEN <<Head(r)>>[i] ELSE Tail(r)[i - 1]
    BY <1>1, <2>1, ConcatProperties
  <2>3. Len(r) \in Nat /\ Len(Tail(r)) = Len(r) - 1 /\ Head(r) = r[1]
        /\ \A i \in 1..Len(Tail(r)) : Tail(r)[i] = r[i + 1]
    BY HeadTailProperties, LenProperties
  <2>4. ASSUME NEW i \in 1..Len(r)
        PROVE  (<<Head(r)>> \o Tail(r))[i] = r[i]
    <3>1. CASE i = 1
      BY <2>2, <2>3, <3>1
    <3>2. CASE i # 1
      <4>1. i - 1 \in 1..Len(Tail(r)) /\ (i - 1) + 1 = i /\ ~(i <= 1)
            /\ i \in 1..1 + Len(Tail(r))
        BY <2>3, <3>2
      <4>2. Tail(r)[i - 1] = r[i]
        BY <2>3, <4>1
      <4> QED BY <2>2, <4>1, <4>2
    <3> QED BY <3>1, <3>2
  <2>5. Len(<<Head(r)>> \o Tail(r)) = Len(r)
    BY <2>2, <2>3
  <2> QED BY <2>2, <2>4, <2>5, SeqEqual
<1> QED BY <1>1, <1>2, TakenFirst

LEMMA AppendLast ==
    ASSUME NEW S, NEW d \in Seq(S), NEW r \in Seq(S), NEW e \in S
    PROVE  d \o Append(r, e) = Append(d \o r, e)
<1>1. <<e>> \in Seq(S) /\ d \o r \in Seq(S)
  BY ConcatProperties
<1>2. Append(r, e) = r \o <<e>> /\ Append(d \o r, e) = (d \o r) \o <<e>>
  BY <1>1, AppendIsConcat
<1>3. (d \o r) \o <<e>> = d \o (r \o <<e>>)
  BY <1>1, ConcatAssociative
<1> QED BY <1>2, <1>3

-----------------------------------------------------------------------------
(* The invariant.                                                          *)

Taken == IF event = NoEvent THEN <<>> ELSE <<event>>

\* All events that were sent and neither lost nor dealt with.
InFlight == depthEvents \o (Taken \o (data_queue \o wire))

\* Nothing but the snapshot was applied, or what was is as good as it.
IsFresh == applied.to = applied.snapshot /\ applied.from = applied.snapshot

\* The versions the next update in order may go on from.
Base == IF status = "NoReady" THEN {1}
        ELSE IF IsFresh THEN 1..applied.snapshot ELSE {applied.to}

StreamInv == StreamOK(versions, InFlight, reported, Base, lost)

\* The book has the levels that changed up to the latest version applied from
\* there, and the others from the snapshot.
Shows(book, first) ==
    \A level \in Levels :
        QuantityIn(book, level) =
            IF level \in TouchedIn(versions, first, applied.to)
            THEN QuantityIn(versions[applied.to], level)
            ELSE QuantityIn(versions[applied.snapshot], level)

BookInv ==
    status = "Ready" =>
        /\ applied.snapshot \in 1..Latest
        /\ applied.to \in 1..Latest
        /\ applied.from \in 1..applied.snapshot
        /\ applied.from <= applied.to
        /\ Complete(applied.from, applied.to, lost) =>
               \E first \in 1..applied.from : Shows(depthBook, first)

EngineInv == EngineTypeOK /\ StreamInv /\ BookInv

LEMMA EventTypes ==
    /\ \A e \in DepthEvent : /\ e # NoEvent /\ e.lastUpdateId \in Versions
                             /\ e.type \in {"DepthUpdate", "DepthSnapshot"}
                             /\ e.type = "DepthUpdate" =>
                                    e \in DepthUpdate /\ e.levels \in Update
                             /\ e.type = "DepthSnapshot" => e.levels \in Book
    /\ DepthUpdate \subseteq DepthEvent
    /\ NoEvent.type \notin {"DepthUpdate", "DepthSnapshot"}
<1>1. ASSUME NEW e \in DepthSnapshot
      PROVE  e.type = "DepthSnapshot" /\ e.lastUpdateId \in Versions /\ e.levels \in Book
  BY DEF DepthSnapshot
<1>2. ASSUME NEW e \in DepthUpdate
      PROVE  e.type = "DepthUpdate" /\ e.lastUpdateId \in Versions /\ e.levels \in Update
  BY DEF DepthUpdate, Update
<1>3. NoEvent.type = "none"
  BY DEF NoEvent
<1> QED BY <1>1, <1>2, <1>3 DEF DepthEvent

LEMMA InFlightTypes ==
    ASSUME EngineTypeOK
    PROVE  /\ depthEvents \in Seq(DepthEvent) /\ Taken \in Seq(DepthEvent)
           /\ data_queue \o wire \in Seq(DepthEvent)
           /\ Taken \o (data_queue \o wire) \in Seq(DepthEvent)
           /\ InFlight \in Seq(DepthEvent)
           /\ Latest \in Nat /\ reported \in Nat /\ lost \in SUBSET Nat
           /\ versions \in Seq(Book)
<1>1. depthEvents \in Seq(DepthEvent)
  BY EventTypes, SeqMonotonic DEF EngineTypeOK
<1>2. Taken \in Seq(DepthEvent)
  BY DEF Taken, EngineTypeOK
<1>3. data_queue \o wire \in Seq(DepthEvent)
  BY ConcatProperties DEF EngineTypeOK
<1>4. Taken \o (data_queue \o wire) \in Seq(DepthEvent)
  BY <1>2, <1>3, ConcatProperties
<1>5. InFlight \in Seq(DepthEvent)
  BY <1>1, <1>4, ConcatProperties DEF InFlight
<1>6. Latest \in Nat /\ reported \in Nat
  BY LenProperties DEF EngineTypeOK, Latest
<1>7. lost \in SUBSET Nat
  BY DEF EngineTypeOK, Versions
<1> QED BY <1>1, <1>2, <1>3, <1>4, <1>5, <1>6, <1>7 DEF EngineTypeOK

LEMMA InFlightIds ==
    ASSUME EngineTypeOK, StreamInv
    PROVE  UpdateIds(InFlight, Len(InFlight)) \subseteq Nat
<1>1. Latest \in Nat /\ Len(InFlight) \in Nat
  BY InFlightTypes, LenProperties
<1> SUFFICES ASSUME NEW n \in UpdateIds(InFlight, Len(InFlight)) PROVE n \in Nat
  OBVIOUS
<1>2. PICK j \in 1..Len(InFlight) : InFlight[j].lastUpdateId = n
  BY <1>1, IdsMember
<1> QED BY <1>1, <1>2 DEF StreamInv, StreamOK, EventOK

LEMMA BaseType ==
    ASSUME EngineTypeOK
    PROVE  Base \in SUBSET Nat
<1>1. applied.snapshot \in Nat /\ applied.to \in Nat
  <2>1. applied["snapshot"] \in 0..MaxVersions /\ applied["to"] \in 0..MaxVersions
    BY DEF EngineTypeOK
  <2> QED BY <2>1
<1> QED BY <1>1 DEF Base

\* Nothing but the stream has changed.
LEMMA BookSame ==
    ASSUME BookInv, UNCHANGED <<versions, engineVars, lost>>
    PROVE  BookInv'
BY DEF BookInv, engineVars, Shows, Latest

LEMMA BaseSame ==
    ASSUME UNCHANGED engineVars
    PROVE  Base' = Base
BY DEF Base, IsFresh, engineVars

LEMMA StreamSame ==
    ASSUME StreamInv, UNCHANGED <<versions, reported, engineVars, lost>>, InFlight' = InFlight
    PROVE  StreamInv'
BY BaseSame DEF StreamInv

\* The exchange goes on.
LEMMA MovesStep ==
    ASSUME EngineInv, ExchangeMoves
    PROVE  EngineInv'
<1> USE DEF EngineInv
<1>1. PICK level \in Levels, quantity \in Quantities \cup {0} :
          versions' = Append(versions,
              [l \in IF quantity = 0 THEN DOMAIN versions[Latest] \ {level}
                     ELSE DOMAIN versions[Latest] \cup {level} |->
                  IF l = level THEN quantity ELSE versions[Latest][l]])
  BY DEF ExchangeMoves
<1> DEFINE next == [l \in IF quantity = 0 THEN DOMAIN versions[Latest] \ {level}
                           ELSE DOMAIN versions[Latest] \cup {level} |->
                        IF l = level THEN quantity ELSE versions[Latest][l]]
<1>2. versions \in Seq(Book) /\ Latest \in 1..MaxVersions /\ Latest < MaxVersions
  BY DEF EngineTypeOK, Versions, ExchangeMoves
<1>3. next \in Book
  <2>1. versions[Latest] \in Book
    BY <1>2, ElementOfSeq DEF Latest
  <2>2. /\ DOMAIN next \subseteq Levels /\ next = [l \in DOMAIN next |-> next[l]]
        /\ \A l \in DOMAIN next : next[l] \in Quantities
    BY <2>1, BookShape
  <2> HIDE DEF next
  <2> QED BY <2>2, BookShape
<1> HIDE DEF next
<1>4. PICK book \in Book : versions' = Append(versions, book)
  BY <1>1, <1>3 DEF next
<1>5. /\ versions' \in Seq(Book) /\ Latest' = Latest + 1 /\ Latest' \in 1..MaxVersions
      /\ \A n \in 1..Latest : versions'[n] = versions[n]
  <2>1. /\ versions' \in Seq(Book) /\ Len(versions') = Len(versions) + 1
        /\ \A n \in 1..Len(versions) : versions'[n] = versions[n]
    BY <1>2, <1>4, AppendProperties
  <2> QED BY <1>2, <2>1, DepthEngineAssumption DEF Latest
<1>6. UNCHANGED <<reported, answered, snapshots, wire, data_queue, pushing, popping, event,
                  status, depthBook, depthEvents, applied, lost>>
  BY DEF ExchangeMoves, queueVars, engineVars
<1>7. EngineTypeOK'
  <2>1. reported \in 1..Latest' /\ answered \in 0..Latest'
    BY <1>2, <1>5 DEF EngineTypeOK
  <2> QED BY <1>5, <1>6, <2>1 DEF EngineTypeOK, Versions
<1>8. StreamInv'
  <2>1. InFlight' = InFlight /\ Base' = Base
    BY <1>6 DEF InFlight, Taken, Base, IsFresh
  <2>2. StreamOK(versions', InFlight, reported, Base, lost)
    BY <1>2, <1>4, StreamStays DEF StreamInv
  <2> QED BY <1>6, <2>1, <2>2 DEF StreamInv
<1>9. BookInv'
  <2> SUFFICES ASSUME status = "Ready"
               PROVE  BookInv'
    BY <1>6 DEF BookInv
  <2>1. /\ applied.snapshot \in 1..Latest /\ applied.to \in 1..Latest
        /\ applied.from \in 1..applied.snapshot /\ applied.from <= applied.to
    BY DEF BookInv
  <2>2. applied.snapshot \in 1..Latest' /\ applied.to \in 1..Latest'
    BY <1>2, <1>5, <2>1
  <2>3. ASSUME NEW first \in 1..applied.from, Shows(depthBook, first)
        PROVE  Shows(depthBook, first)'
    <3>1. first \in Nat \ {0} /\ applied.to \in 1..Len(versions)
      BY <2>1 DEF Latest
    <3>2. TouchedIn(versions', first, applied.to) = TouchedIn(versions, first, applied.to)
      BY <1>2, <1>4, <3>1, ChangesStay
    <3>3. versions'[applied.to] = versions[applied.to]
          /\ versions'[applied.snapshot] = versions[applied.snapshot]
      BY <1>5, <2>1
    <3> QED BY <1>6, <2>3, <3>2, <3>3 DEF Shows
  <2> QED BY <1>6, <2>1, <2>2, <2>3 DEF BookInv
<1> QED BY <1>7, <1>8, <1>9

\* One event more on the wire.
LEMMA SentLast ==
    ASSUME EngineTypeOK, NEW e \in DepthEvent, wire' = Append(wire, e),
           UNCHANGED <<depthEvents, event, data_queue>>
    PROVE  InFlight' = Append(InFlight, e) /\ wire' \in Seq(DepthEvent)
<1>1. /\ depthEvents \in Seq(DepthEvent) /\ Taken \in Seq(DepthEvent) /\ Taken' = Taken
      /\ data_queue \in Seq(DepthEvent) /\ wire \in Seq(DepthEvent)
      /\ data_queue \o wire \in Seq(DepthEvent)
      /\ Taken \o (data_queue \o wire) \in Seq(DepthEvent)
  BY InFlightTypes DEF EngineTypeOK, Taken
<1>2. data_queue \o Append(wire, e) = Append(data_queue \o wire, e)
  BY <1>1, AppendLast
<1>3. Taken \o Append(data_queue \o wire, e) = Append(Taken \o (data_queue \o wire), e)
  BY <1>1, AppendLast
<1>4. depthEvents \o Append(Taken \o (data_queue \o wire), e) = Append(InFlight, e)
  <2> DEFINE R == Taken \o (data_queue \o wire)
  <2>1. R \in Seq(DepthEvent)
    BY <1>1
  <2> HIDE DEF R
  <2>2. depthEvents \o Append(R, e) = Append(depthEvents \o R, e)
    BY <1>1, <2>1, AppendLast
  <2> QED BY <2>2 DEF InFlight, R
<1>5. InFlight' = Append(InFlight, e)
  BY <1>1, <1>2, <1>3, <1>4 DEF InFlight
<1>6. Append(wire, e) \in Seq(DepthEvent)
  BY <1>1, AppendProperties
<1> QED BY <1>5, <1>6

LEMMA SendUpdateStep ==
    ASSUME EngineInv, SendUpdate
    PROVE  EngineInv'
<1> USE DEF EngineInv
<1>1. PICK version \in reported + 1..Latest :
          /\ wire' = Append(wire,
                 [type |-> "DepthUpdate", lastUpdateId |-> version,
                  levels |-> [level \in Touched(reported, version) |->
                                 QuantityIn(versions[version], level)]])
          /\ reported' = version
  BY DEF SendUpdate
<1> DEFINE e == [type |-> "DepthUpdate", lastUpdateId |-> version,
                 levels |-> Change(versions, reported, version)]
<1>2. wire' = Append(wire, e)
  BY <1>1, TouchedNow DEF Change
<1>3. UNCHANGED <<versions, answered, snapshots, data_queue, pushing, popping, event,
                  status, depthBook, depthEvents, applied, lost>>
  BY DEF SendUpdate, queueVars, engineVars
<1>4. /\ reported \in 1..Latest /\ Latest \in 1..MaxVersions /\ version \in 1..Latest
      /\ reported \in Nat /\ version \in Nat /\ reported < version /\ version \in Versions
      /\ MaxVersions \in Nat /\ reported \in 1..version - 1
  BY DepthEngineAssumption DEF EngineTypeOK, Versions
<1>5. e.levels = Change(versions, reported, version) /\ e.levels \in Update
  <2>1. versions[version] \in Book
    BY <1>4, ElementOfSeq DEF EngineTypeOK, Latest
  <2> QED BY <1>4, <2>1, ChangeType
<1>6. e \in DepthEvent
  BY <1>4, <1>5 DEF DepthEvent, DepthUpdate, Update
<1>7. e.type = "DepthUpdate" /\ e.lastUpdateId = version
  OBVIOUS
<1> HIDE DEF e
<1>8. InFlight' = Append(InFlight, e) /\ wire' \in Seq(DepthEvent)
  BY <1>2, <1>3, <1>6, SentLast
<1>9. EngineTypeOK'
  BY <1>1, <1>3, <1>4, <1>8 DEF EngineTypeOK, Latest
<1>10. StreamInv'
  <2> DEFINE ids == UpdateIds(InFlight, Len(InFlight))
  <2>1. /\ InFlight \in Seq(DepthEvent) /\ Base \in SUBSET Nat /\ ids \subseteq Nat
        /\ Follows(reported, ids, Base, lost)
        /\ StreamOK(versions, InFlight, reported, Base, lost)
    BY InFlightTypes, BaseType, InFlightIds DEF StreamInv, StreamOK
  <2> HIDE DEF ids
  <2>2. EventOK(versions, e)
    BY <1>4, <1>7 DEF EventOK, Latest
  <2>3. UpdateOK(versions, e, ids, Base, lost)
    BY <1>4, <1>5, <1>7, <2>1 DEF UpdateOK, Covers
  <2>4. Follows(version, ids \cup {version}, Base, lost)
    BY <1>4, <2>1, FollowsNext
  <2>5. StreamOK(versions, Append(InFlight, e), version, Base, lost)
    BY <1>6, <1>7, <2>1, <2>2, <2>3, <2>4, StreamAppends DEF ids
  <2> QED BY <1>1, <1>3, <1>8, <2>5, BaseSame DEF StreamInv, engineVars
<1>11. BookInv'
  BY <1>3, BookSame DEF engineVars
<1> QED BY <1>9, <1>10, <1>11

LEMMA AnswerSnapshotStep ==
    ASSUME EngineInv, AnswerSnapshot
    PROVE  EngineInv'
<1> USE DEF EngineInv
<1>1. /\ UNCHANGED <<versions, reported, wire, data_queue, pushing, popping, event,
                     status, depthBook, depthEvents, applied, lost>>
      /\ answered' = Latest /\ snapshots' = snapshots + 1 /\ snapshots < MaxSnapshots
  BY DEF AnswerSnapshot, queueVars, engineVars
<1>2. Latest \in 0..Latest /\ snapshots + 1 \in 0..MaxSnapshots
  BY <1>1, DepthEngineAssumption DEF EngineTypeOK, Versions
<1>3. EngineTypeOK'
  BY <1>1, <1>2 DEF EngineTypeOK, Latest
<1>4. InFlight' = InFlight
  BY <1>1 DEF InFlight, Taken
<1> QED BY <1>1, <1>3, <1>4, StreamSame, BookSame DEF engineVars

LEMMA SendSnapshotStep ==
    ASSUME EngineInv, SendSnapshot
    PROVE  EngineInv'
<1> USE DEF EngineInv
<1> DEFINE e == [type |-> "DepthSnapshot", lastUpdateId |-> answered,
                 levels |-> versions[answered]]
<1>1. wire' = Append(wire, e) /\ answered' = 0 /\ answered # 0
  BY DEF SendSnapshot
<1>2. UNCHANGED <<versions, reported, snapshots, data_queue, pushing, popping, event,
                  status, depthBook, depthEvents, applied, lost>>
  BY DEF SendSnapshot, queueVars, engineVars
<1>3. /\ answered \in 1..Latest /\ answered \in Versions /\ 0 \in 0..Latest
      /\ Latest \in Nat
  BY <1>1, DepthEngineAssumption DEF EngineTypeOK, Versions
<1>4. versions[answered] \in Book
  BY <1>3, ElementOfSeq DEF EngineTypeOK, Latest
<1>5. e \in DepthEvent
  BY <1>3, <1>4 DEF DepthEvent, DepthSnapshot
<1>6. e.type = "DepthSnapshot" /\ e.lastUpdateId = answered /\ e.levels = versions[answered]
  OBVIOUS
<1> HIDE DEF e
<1>7. InFlight' = Append(InFlight, e) /\ wire' \in Seq(DepthEvent)
  BY <1>1, <1>2, <1>5, SentLast
<1>8. EngineTypeOK'
  BY <1>1, <1>2, <1>3, <1>7 DEF EngineTypeOK, Latest
<1>9. StreamInv'
  <2>1. /\ InFlight \in Seq(DepthEvent)
        /\ Follows(reported, UpdateIds(InFlight, Len(InFlight)), Base, lost)
        /\ StreamOK(versions, InFlight, reported, Base, lost)
    BY InFlightTypes DEF StreamInv, StreamOK
  <2>2. EventOK(versions, e)
        /\ UpdateOK(versions, e, UpdateIds(InFlight, Len(InFlight)), Base, lost)
    BY <1>3, <1>6 DEF EventOK, UpdateOK, Latest
  <2>3. StreamOK(versions, Append(InFlight, e), reported, Base, lost)
    BY <1>5, <1>6, <2>1, <2>2, StreamAppends
  <2> QED BY <1>2, <1>7, <2>3, BaseSame DEF StreamInv, engineVars
<1>10. BookInv'
  BY <1>2, BookSame DEF engineVars
<1> QED BY <1>8, <1>9, <1>10

LEMMA EventsAssociative ==
    \A a, b, c \in Seq(DepthEvent) : a \o (b \o c) = (a \o b) \o c
<1> TAKE a, b, c \in Seq(DepthEvent)
<1> QED BY ConcatAssociative

LEMMA Regrouped ==
    ASSUME EngineTypeOK
    PROVE  \A w \in Seq(DepthEvent) :
               depthEvents \o (Taken \o (data_queue \o w))
                   = (depthEvents \o (Taken \o data_queue)) \o w
<1> TAKE w \in Seq(DepthEvent)
<1> DEFINE P == Taken \o data_queue
<1>1. /\ depthEvents \in Seq(DepthEvent) /\ Taken \in Seq(DepthEvent)
      /\ data_queue \in Seq(DepthEvent)
  BY InFlightTypes DEF EngineTypeOK
<1>2. Taken \o (data_queue \o w) = P \o w
  BY <1>1, EventsAssociative
<1>3. P \in Seq(DepthEvent)
  BY <1>1, ConcatProperties
<1> HIDE DEF P
<1>4. depthEvents \o (P \o w) = (depthEvents \o P) \o w
  BY <1>1, <1>3, EventsAssociative
<1> QED BY <1>2, <1>4 DEF P

\* The first datagram, an update, does not arrive.
LEMMA LoseUpdateStep ==
    ASSUME EngineInv, LoseUpdate
    PROVE  EngineInv'
<1> USE DEF EngineInv
<1> DEFINE X == depthEvents \o (Taken \o data_queue)
           e == Head(wire)
           k == Len(X) + 1
<1>1. /\ wire # <<>> /\ e.type = "DepthUpdate" /\ lost' = lost \cup {e.lastUpdateId}
      /\ wire' = Tail(wire)
     
      /\ UNCHANGED <<versions, reported, answered, snapshots, data_queue, pushing, popping, event,
                     status, depthBook, depthEvents, applied>>
  BY DEF LoseUpdate, exchangeVars, queueVars, engineVars
<1>2. /\ depthEvents \in Seq(DepthEvent) /\ Taken \in Seq(DepthEvent)
      /\ data_queue \in Seq(DepthEvent) /\ wire \in Seq(DepthEvent)
      /\ Taken \o data_queue \in Seq(DepthEvent)
      /\ InFlight \in Seq(DepthEvent)
  BY InFlightTypes, ConcatProperties DEF EngineTypeOK
<1>3. X \in Seq(DepthEvent)
  BY <1>2, ConcatProperties
<1>4. e \in DepthEvent /\ Tail(wire) \in Seq(DepthEvent)
  BY <1>1, <1>2, HeadTailProperties
<1>5. InFlight = X \o wire
  BY <1>2, Regrouped DEF InFlight
<1>6. InFlight' = X \o Tail(wire)
  <2>1. PICK w \in Seq(DepthEvent) : w = Tail(wire)
    BY <1>4
  <2>2. InFlight' = depthEvents \o (Taken \o (data_queue \o w))
    BY <1>1, <2>1 DEF InFlight, Taken
  <2>3. InFlight' = X \o w
    BY <1>2, <2>2, Regrouped
  <2> QED BY <2>1, <2>3
<1> HIDE DEF X
<1>7. /\ Len(X) \in Nat /\ Len(wire) \in Nat /\ Len(wire) > 0 /\ Len(Tail(wire)) = Len(wire) - 1
      /\ \A i \in 1..Len(Tail(wire)) : Tail(wire)[i] = wire[i + 1]
      /\ e = wire[1]
  BY <1>1, <1>2, <1>3, HeadTailProperties, LenProperties, EmptySeq
<1> HIDE DEF e
<1>8. /\ X \o wire \in Seq(DepthEvent) /\ Len(X \o wire) = Len(X) + Len(wire)
      /\ \A i \in 1..Len(X) + Len(wire) :
             (X \o wire)[i] = IF i <= Len(X) THEN X[i] ELSE wire[i - Len(X)]
  BY <1>2, <1>3, ConcatProperties
<1>9. /\ X \o Tail(wire) \in Seq(DepthEvent)
      /\ Len(X \o Tail(wire)) = Len(X) + Len(Tail(wire))
      /\ \A i \in 1..Len(X) + Len(Tail(wire)) :
             (X \o Tail(wire))[i] = IF i <= Len(X) THEN X[i] ELSE Tail(wire)[i - Len(X)]
  BY <1>3, <1>4, ConcatProperties
<1>10. k \in 1..Len(X \o wire) /\ (X \o wire)[k] = e
       /\ Len(X \o Tail(wire)) = Len(X \o wire) - 1
  <2>1. k \in 1..Len(X) + Len(wire) /\ ~(k <= Len(X)) /\ k - Len(X) = 1
    BY <1>7
  <2>2. Len(X \o Tail(wire)) = Len(X \o wire) - 1
    BY <1>7, <1>8, <1>9
  <2> QED BY <1>7, <1>8, <2>1, <2>2
<1>11. \A i \in 1..k - 1 : (X \o Tail(wire))[i] = (X \o wire)[i]
  <2> TAKE i \in 1..k - 1
  <2>1. i \in 1..Len(X) + Len(wire) /\ i \in 1..Len(X) + Len(Tail(wire)) /\ i <= Len(X)
    BY <1>7
  <2> QED BY <1>8, <1>9, <2>1
<1>12. \A i \in k..Len(X \o Tail(wire)) : (X \o Tail(wire))[i] = (X \o wire)[i + 1]
  <2> TAKE i \in k..Len(X \o Tail(wire))
  <2>1. /\ i \in 1..Len(X) + Len(Tail(wire)) /\ i + 1 \in 1..Len(X) + Len(wire)
        /\ ~(i <= Len(X)) /\ ~(i + 1 <= Len(X)) /\ (i + 1) - Len(X) = (i - Len(X)) + 1
        /\ i - Len(X) \in 1..Len(Tail(wire))
    BY <1>7, <1>9
  <2>2. (X \o Tail(wire))[i] = Tail(wire)[i - Len(X)]
        /\ (X \o wire)[i + 1] = wire[(i - Len(X)) + 1]
    BY <1>8, <1>9, <2>1
  <2> QED BY <1>7, <2>1, <2>2
<1> HIDE DEF k
<1>13. StreamOK(versions, X \o Tail(wire), reported, Base, lost \cup {e.lastUpdateId})
  BY <1>1, <1>5, <1>8, <1>9, <1>10, <1>11, <1>12, StreamLoses DEF StreamInv
<1>14. StreamInv'
  BY <1>1, <1>6, <1>13, BaseSame DEF StreamInv, engineVars
<1>15. EngineTypeOK'
  BY <1>1, <1>4, EventTypes DEF EngineTypeOK, Latest
<1>16. BookInv'
  <2>1. Complete(applied.from, applied.to, lost') => Complete(applied.from, applied.to, lost)
    BY <1>1 DEF Complete
  <2>2. \A first : Shows(depthBook, first)' = Shows(depthBook, first)
    BY <1>1 DEF Shows
  <2> QED BY <1>1, <2>1 DEF BookInv, Latest, Shows
<1> QED BY <1>14, <1>15, <1>16

\* From the wire into the queue.
LEMMA ProcessMessageStep ==
    ASSUME EngineInv, ProcessMessage
    PROVE  EngineInv'
<1> USE DEF EngineInv
<1>1. /\ wire # <<>> /\ data_queue' = Append(data_queue, Head(wire)) /\ wire' = Tail(wire)
      /\ pushing' = TRUE
      /\ UNCHANGED <<versions, reported, answered, snapshots, popping, event,
                     status, depthBook, depthEvents, applied, lost>>
  BY DEF ProcessMessage, Q!PushBack, exchangeVars, engineVars
<1>2. /\ data_queue \in Seq(DepthEvent) /\ wire \in Seq(DepthEvent)
      /\ Head(wire) \in DepthEvent /\ Tail(wire) \in Seq(DepthEvent)
  BY <1>1, HeadTailProperties DEF EngineTypeOK
<1>3. data_queue' \o wire' = data_queue \o wire /\ data_queue' \in Seq(DepthEvent)
  BY <1>1, <1>2, MovedOn, AppendProperties
<1>4. InFlight' = InFlight
  BY <1>1, <1>3 DEF InFlight, Taken
<1>5. EngineTypeOK'
  BY <1>1, <1>2, <1>3 DEF EngineTypeOK, Latest
<1> QED BY <1>1, <1>4, <1>5, StreamSame, BookSame DEF engineVars

LEMMA NotifyOneStep ==
    ASSUME EngineInv, NotifyOne
    PROVE  EngineInv'
<1> USE DEF EngineInv
<1>1. /\ popping' = Q!Woken(popping) /\ pushing' = FALSE
      /\ UNCHANGED <<versions, reported, answered, snapshots, wire, data_queue, event,
                     status, depthBook, depthEvents, applied, lost>>
  BY DEF NotifyOne, Q!NotifyOne, exchangeVars, engineVars
<1>2. popping' \in {"checking", "waiting", "out"} /\ (popping' = "out" <=> popping = "out")
  BY <1>1 DEF Q!Woken, EngineTypeOK
<1>3. InFlight' = InFlight
  BY <1>1 DEF InFlight, Taken
<1>4. EngineTypeOK'
  BY <1>1, <1>2 DEF EngineTypeOK, Latest
<1> QED BY <1>1, <1>3, <1>4, StreamSame, BookSame DEF engineVars

LEMMA PopTimesOutStep ==
    ASSUME EngineInv, PopTimesOut
    PROVE  EngineInv'
<1> USE DEF EngineInv
<1>1. /\ popping = "waiting" /\ popping' = "checking"
      /\ UNCHANGED <<versions, reported, answered, snapshots, wire, data_queue, pushing, event,
                     status, depthBook, depthEvents, applied, lost>>
  BY DEF PopTimesOut, Q!TimedOut, exchangeVars, engineVars
<1>2. InFlight' = InFlight
  BY <1>1 DEF InFlight, Taken
<1>3. EngineTypeOK'
  BY <1>1 DEF EngineTypeOK, Latest
<1> QED BY <1>1, <1>2, <1>3, StreamSame, BookSame DEF engineVars

LEMMA PopStep ==
    ASSUME EngineInv, Pop
    PROVE  EngineInv'
<1> USE DEF EngineInv
<1>1. UNCHANGED <<versions, reported, answered, snapshots, wire,
                  status, depthBook, depthEvents, applied, lost>>
  BY DEF Pop, exchangeVars, engineVars
<1>2. CASE Q!Wait /\ UNCHANGED event
  <2>1. /\ popping = "checking" /\ popping' = "waiting"
        /\ UNCHANGED <<data_queue, pushing, event>>
    BY <1>2 DEF Q!Wait
  <2>2. InFlight' = InFlight
    BY <1>1, <2>1 DEF InFlight, Taken
  <2>3. EngineTypeOK'
    BY <1>1, <2>1 DEF EngineTypeOK, Latest
  <2> QED BY <1>1, <2>2, <2>3, StreamSame, BookSame DEF engineVars
<1>3. CASE Q!PopFront /\ event' = Head(data_queue)
  <2>1. /\ popping = "checking" /\ popping' = "out" /\ data_queue # <<>>
        /\ data_queue' = Tail(data_queue) /\ event' = Head(data_queue)
        /\ UNCHANGED pushing
    BY <1>3 DEF Q!PopFront
  <2>2. /\ data_queue \in Seq(DepthEvent) /\ wire \in Seq(DepthEvent)
        /\ Head(data_queue) \in DepthEvent /\ Tail(data_queue) \in Seq(DepthEvent)
    BY <2>1, HeadTailProperties DEF EngineTypeOK
  <2>3. event = NoEvent /\ event' # NoEvent
    BY <2>1, <2>2, EventTypes DEF EngineTypeOK
  <2>4. Taken = <<>> /\ Taken' = <<Head(data_queue)>>
    BY <2>1, <2>3 DEF Taken, NoEvent
  <2>5. Taken' \o (data_queue' \o wire) = Taken \o (data_queue \o wire)
    <3>1. <<>> \in Seq(DepthEvent) /\ <<Head(data_queue)>> \in Seq(DepthEvent)
          /\ data_queue \o wire \in Seq(DepthEvent)
      BY <2>2, ConcatProperties
    <3>2. <<Head(data_queue)>> \o (Tail(data_queue) \o wire)
              = (<<Head(data_queue)>> \o Tail(data_queue)) \o wire
      BY <2>2, <3>1, EventsAssociative
    <3>3. <<Head(data_queue)>> \o Tail(data_queue) = data_queue
      <4>1. Append(<<>>, Head(data_queue)) \o Tail(data_queue) = <<>> \o data_queue
        BY <2>1, <2>2, <3>1, MovedOn
      <4>2. Append(<<>>, Head(data_queue)) = <<Head(data_queue)>>
            /\ <<>> \o data_queue = data_queue
        BY <2>2, ConcatEmptySeq
      <4> QED BY <4>1, <4>2
    <3>4. <<>> \o (data_queue \o wire) = data_queue \o wire
      BY <3>1, ConcatEmptySeq
    <3> QED BY <2>1, <2>4, <3>2, <3>3, <3>4
  <2>6. InFlight' = InFlight
    BY <1>1, <2>5 DEF InFlight
  <2>7. EngineTypeOK'
    BY <1>1, <2>1, <2>2, <2>3 DEF EngineTypeOK, Latest
  <2> QED BY <1>1, <2>6, <2>7, StreamSame, BookSame DEF engineVars
<1> QED BY <1>2, <1>3 DEF Pop

-----------------------------------------------------------------------------
(* The engine deals with an event.                                         *)

LEMMA SplitAt ==
    ASSUME NEW X \in Seq(DepthEvent), NEW R \in Seq(DepthEvent)
    PROVE  /\ X \o R \in Seq(DepthEvent) /\ Len(X) \in Nat /\ Len(R) \in Nat
           /\ Len(R) = Len(X \o R) - Len(X)
           /\ Len(X) > 0 => Len(X) \in 1..Len(X \o R)
           /\ \A i \in 1..Len(X) : (X \o R)[i] = X[i]
           /\ \A i \in 1..Len(R) : R[i] = (X \o R)[i + Len(X)]
<1> DEFINE E == X \o R
<1>1. /\ E \in Seq(DepthEvent) /\ Len(E) = Len(X) + Len(R)
      /\ \A i \in 1..Len(X) + Len(R) : E[i] = IF i <= Len(X) THEN X[i] ELSE R[i - Len(X)]
  BY ConcatProperties
<1>2. Len(X) \in Nat /\ Len(R) \in Nat
  BY LenProperties
<1> HIDE DEF E
<1>3. \A i \in 1..Len(X) : E[i] = X[i]
  <2> TAKE i \in 1..Len(X)
  <2>1. i \in 1..Len(X) + Len(R) /\ i <= Len(X)
    BY <1>2
  <2> QED BY <1>1, <2>1
<1>4. \A i \in 1..Len(R) : R[i] = E[i + Len(X)]
  <2> TAKE i \in 1..Len(R)
  <2>1. i + Len(X) \in 1..Len(X) + Len(R) /\ ~(i + Len(X) <= Len(X))
        /\ (i + Len(X)) - Len(X) = i
    BY <1>2
  <2> QED BY <1>1, <2>1
<1>5. Len(R) = Len(E) - Len(X) /\ (Len(X) > 0 => Len(X) \in 1..Len(E))
  BY <1>1, <1>2
<1> QED BY <1>1, <1>2, <1>3, <1>4, <1>5 DEF E

LEMMA EventTaken ==
    ASSUME EngineTypeOK, popping = "out", event' = NoEvent, UNCHANGED <<data_queue, wire>>,
           depthEvents' \in Seq(DepthEvent)
    PROVE  /\ event \in DepthEvent
           /\ Append(depthEvents, event) \in Seq(DepthEvent)
           /\ data_queue \o wire \in Seq(DepthEvent)
           /\ InFlight = Append(depthEvents, event) \o (data_queue \o wire)
           /\ InFlight' = depthEvents' \o (data_queue \o wire)
<1>1. event \in DepthEvent /\ event # NoEvent
  BY DEF EngineTypeOK
<1>2. Taken = <<event>> /\ Taken' = <<>>
  BY <1>1 DEF Taken
<1>3. depthEvents \in Seq(DepthEvent) /\ data_queue \o wire \in Seq(DepthEvent)
  BY InFlightTypes
<1>4. InFlight = Append(depthEvents, event) \o (data_queue \o wire)
  <2> DEFINE R == data_queue \o wire
  <2>1. R \in Seq(DepthEvent) /\ depthEvents \in Seq(DepthEvent)
    BY <1>3
  <2> HIDE DEF R
  <2>2. depthEvents \o (<<event>> \o R) = Append(depthEvents, event) \o R
    BY <1>1, <2>1, TakenFirst
  <2> QED BY <1>2, <2>2 DEF InFlight, R
<1>5. <<>> \o (data_queue \o wire) = data_queue \o wire
  BY <1>3, ConcatEmptySeq
<1>6. InFlight' = depthEvents' \o (data_queue \o wire)
  BY <1>2, <1>5 DEF InFlight
<1>7. Append(depthEvents, event) \in Seq(DepthEvent)
  BY <1>1, <1>3, AppendProperties
<1> QED BY <1>1, <1>3, <1>4, <1>6, <1>7

\* The ids of the updates put aside and of the event.
TakenIds == IF event.type = "DepthUpdate"
            THEN UpdateIds(depthEvents, Len(depthEvents)) \cup {event.lastUpdateId}
            ELSE UpdateIds(depthEvents, Len(depthEvents))

\* Nothing is left of the buffer and the event.
LEMMA DropStep ==
    ASSUME EngineTypeOK, StreamInv, popping = "out", event' = NoEvent,
           UNCHANGED <<data_queue, wire, versions, reported, lost>>, depthEvents' = <<>>,
           \A p : /\ \A n \in TakenIds : n <= p
                  /\ \E b \in Base : b <= p
                  => /\ \E b \in Base' : b <= p
                     /\ p \in TakenIds \/ (TakenIds = {} /\ p \in Base) => p \in Base'
    PROVE  StreamInv'
<1> DEFINE X == Append(depthEvents, event)
           R == data_queue \o wire
           n == Len(depthEvents)
<1>1. /\ X \in Seq(DepthEvent) /\ R \in Seq(DepthEvent)
      /\ InFlight = X \o R /\ InFlight' = R
  <2>1. depthEvents' \in Seq(DepthEvent)
    BY EmptySeq
  <2>2. <<>> \o R = R
    BY <2>1, EventTaken, ConcatEmptySeq
  <2> QED BY <2>1, <2>2, EventTaken
<1>2. /\ n \in Nat /\ Len(X) = n + 1 /\ X[n + 1] = event
      /\ \A i \in 1..n : X[i] = depthEvents[i]
  <2>1. depthEvents \in Seq(DepthEvent) /\ event \in DepthEvent
    BY InFlightTypes DEF EngineTypeOK
  <2> QED BY <2>1, AppendProperties, LenProperties
<1> HIDE DEF X, R
<1>3. /\ X \o R \in Seq(DepthEvent) /\ n + 1 \in 1..Len(X \o R)
      /\ Len(R) = Len(X \o R) - (n + 1)
      /\ \A i \in 1..n + 1 : (X \o R)[i] = X[i]
      /\ \A i \in 1..Len(R) : R[i] = (X \o R)[i + (n + 1)]
  <2>1. /\ X \o R \in Seq(DepthEvent) /\ Len(R) = Len(X \o R) - Len(X)
        /\ Len(X) > 0 => Len(X) \in 1..Len(X \o R)
        /\ \A i \in 1..Len(X) : (X \o R)[i] = X[i]
        /\ \A i \in 1..Len(R) : R[i] = (X \o R)[i + Len(X)]
    BY <1>1, SplitAt
  <2>2. Len(X) = n + 1 /\ Len(X) > 0
    BY <1>2
  <2> HIDE DEF n
  <2> QED BY <2>1, <2>2
<1> DEFINE E == X \o R
<1> HIDE DEF E
<1>4. UpdateIds(E, n + 1) = TakenIds
  <2>1. UpdateIds(E, n + 1) = UpdateIds(X, n + 1)
    <3>1. n + 1 \in Nat /\ \A i \in 1..n + 1 : E[i] = X[i]
      BY <1>2, <1>3 DEF E
    <3> HIDE DEF n
    <3> QED BY <3>1, IdsSame
  <2>2. UpdateIds(X, n) = UpdateIds(depthEvents, n)
    BY <1>2, IdsSame
  <2> QED BY <1>2, <2>1, <2>2, IdsNext DEF TakenIds
<1>5. StreamOK(versions, R, reported, Base', lost)
  <2>1. StreamOK(versions, E, reported, Base, lost)
    BY <1>1 DEF StreamInv, E
  <2>2. Len(versions) \in Nat /\ reported \in Nat
    BY InFlightTypes DEF Latest
  <2> DEFINE k == n + 1
  <2>3. /\ E \in Seq(DepthEvent) /\ R \in Seq(DepthEvent) /\ k \in 1..Len(E)
        /\ Len(R) = Len(E) - k /\ \A i \in 1..Len(R) : R[i] = E[i + k]
    BY <1>1, <1>3 DEF E
  <2>4. UpdateIds(E, k) = TakenIds
    BY <1>4
  <2> HIDE DEF k, n
  <2>5. \A p : /\ \A m \in UpdateIds(E, k) : m <= p
               /\ \E b \in Base : b <= p
               => /\ \E b \in Base' : b <= p
                  /\ \/ p \in UpdateIds(E, k)
                     \/ UpdateIds(E, k) = {} /\ p \in Base
                     => p \in Base'
    BY <2>4
  <2> QED BY <2>1, <2>2, <2>3, <2>5, StreamDrops
<1> QED BY <1>1, <1>5 DEF StreamInv

LEMMA EventIsNext ==
    ASSUME EngineTypeOK, StreamInv, popping = "out"
    PROVE  /\ EventOK(versions, event)
           /\ UpdateOK(versions, event, UpdateIds(depthEvents, Len(depthEvents)), Base, lost)
           /\ \A i \in 1..Len(depthEvents) :
                 /\ EventOK(versions, depthEvents[i])
                
                 /\ UpdateOK(versions, depthEvents[i], UpdateIds(depthEvents, i - 1), Base, lost)
<1> DEFINE X == Append(depthEvents, event)
           R == data_queue \o wire
           n == Len(depthEvents)
           E == X \o R
<1>1. event \in DepthEvent /\ event # NoEvent /\ depthEvents \in Seq(DepthEvent)
      /\ R \in Seq(DepthEvent)
  BY InFlightTypes DEF EngineTypeOK
<1>2. /\ n \in Nat /\ Len(X) = n + 1 /\ X[n + 1] = event /\ X \in Seq(DepthEvent)
      /\ \A i \in 1..n : X[i] = depthEvents[i]
  BY <1>1, AppendProperties, LenProperties
<1>3. InFlight = E
  <2>1. Taken = <<event>>
    BY <1>1 DEF Taken
  <2> HIDE DEF R
  <2>2. depthEvents \o (<<event>> \o R) = X \o R
    BY <1>1, TakenFirst
  <2> QED BY <2>1, <2>2 DEF InFlight, R
<1> HIDE DEF X, R
<1>4. /\ n + 1 \in 1..Len(E) /\ Len(E) \in Nat
      /\ \A i \in 1..n + 1 : E[i] = X[i]
  <2>1. /\ X \o R \in Seq(DepthEvent)
        /\ Len(X) > 0 => Len(X) \in 1..Len(X \o R)
        /\ \A i \in 1..Len(X) : (X \o R)[i] = X[i]
    BY <1>1, <1>2, SplitAt
  <2>2. Len(X \o R) \in Nat
    BY <2>1, LenProperties
  <2>3. Len(X) = n + 1 /\ Len(X) > 0
    BY <1>2
  <2> HIDE DEF n
  <2> QED BY <2>1, <2>2, <2>3
<1> HIDE DEF E
<1>5. \A i \in 1..n + 1 : EventOK(versions, E[i])
      /\ UpdateOK(versions, E[i], UpdateIds(E, i - 1), Base, lost)
  <2> TAKE i \in 1..n + 1
  <2>1. i \in 1..Len(E)
    BY <1>2, <1>4
  <2> QED BY <1>3, <2>1 DEF StreamInv, StreamOK
<1>6. \A i \in 1..n + 1 : UpdateIds(E, i - 1) = UpdateIds(depthEvents, i - 1)
  <2> TAKE i \in 1..n + 1
  <2>1. i - 1 \in Nat /\ \A j \in 1..i - 1 : E[j] = depthEvents[j]
    BY <1>2, <1>4
  <2> QED BY <2>1, IdsSame
<1>7. n + 1 \in 1..n + 1 /\ E[n + 1] = event /\ (n + 1) - 1 = n
  BY <1>2, <1>4
<1>8. \A i \in 1..n : i \in 1..n + 1 /\ E[i] = depthEvents[i]
  BY <1>2, <1>4
<1>9. /\ EventOK(versions, event)
      /\ UpdateOK(versions, event, UpdateIds(depthEvents, n), Base, lost)
  <2>1. UpdateIds(E, n) = UpdateIds(depthEvents, n)
    BY <1>6, <1>7
  <2>2. EventOK(versions, E[n + 1]) /\ UpdateOK(versions, E[n + 1], UpdateIds(E, n), Base, lost)
    BY <1>5, <1>7
  <2> QED BY <1>7, <2>1, <2>2
<1>10. ASSUME NEW i \in 1..n
       PROVE  /\ EventOK(versions, depthEvents[i])
              /\ UpdateOK(versions, depthEvents[i], UpdateIds(depthEvents, i - 1), Base, lost)
  <2>1. UpdateIds(E, i - 1) = UpdateIds(depthEvents, i - 1)
    BY <1>6, <1>8
  <2>2. EventOK(versions, E[i]) /\ UpdateOK(versions, E[i], UpdateIds(E, i - 1), Base, lost)
    BY <1>5, <1>8
  <2> QED BY <1>8, <2>1, <2>2
<1> QED BY <1>9, <1>10

\* Before the snapshot an update is put aside, and its place in the order is kept.
LEMMA PutAsideStep ==
    ASSUME EngineInv, HandleEvent, HandleUpdate, status # "Ready"
    PROVE  EngineInv'
<1> USE DEF EngineInv
<1>1. /\ popping = "out" /\ popping' = "checking" /\ event.type = "DepthUpdate"
      /\ event' = NoEvent /\ depthEvents' = Append(depthEvents, event)
      /\ UNCHANGED <<versions, reported, answered, snapshots, wire, data_queue, pushing,
                     status, depthBook, applied, lost>>
  BY DEF HandleEvent, HandleUpdate, PutAside, Q!PopAgain, exchangeVars
<1>2. event \in DepthUpdate /\ depthEvents \in Seq(DepthUpdate)
  BY <1>1, EventTypes DEF EngineTypeOK
<1>3. depthEvents' \in Seq(DepthUpdate) /\ depthEvents' \in Seq(DepthEvent)
  BY <1>1, <1>2, AppendProperties, SeqMonotonic, EventTypes
<1>4. InFlight' = InFlight
  BY <1>1, <1>3, EventTaken
<1>5. EngineTypeOK'
  BY <1>1, <1>3 DEF EngineTypeOK, Latest
<1>6. Base' = Base
  BY <1>1 DEF Base, IsFresh
<1>7. StreamInv'
  BY <1>1, <1>4, <1>6 DEF StreamInv
<1>8. BookInv'
  BY <1>1 DEF BookInv
<1> QED BY <1>5, <1>7, <1>8

\* A later snapshot is dropped.
LEMMA IgnoreSnapshotStep ==
    ASSUME EngineInv, HandleEvent, IgnoreSnapshot
    PROVE  EngineInv'
<1> USE DEF EngineInv
<1>1. /\ popping = "out" /\ popping' = "checking" /\ event.type = "DepthSnapshot"
      /\ event' = NoEvent /\ status = "Ready"
      /\ UNCHANGED <<versions, reported, answered, snapshots, wire, data_queue, pushing,
                     status, depthBook, depthEvents, applied, lost>>
  BY DEF HandleEvent, IgnoreSnapshot, Q!PopAgain, exchangeVars, engineVars
<1>2. depthEvents = <<>>
  BY <1>1 DEF EngineTypeOK
<1>3. EngineTypeOK'
  BY <1>1 DEF EngineTypeOK, Latest
<1>4. Base' = Base
  BY <1>1 DEF Base, IsFresh
<1>5. TakenIds = {}
  BY <1>1, <1>2, IdsNone DEF TakenIds
<1>6. StreamInv'
  BY <1>1, <1>2, <1>4, <1>5, DropStep
<1>7. BookInv'
  BY <1>1, BookSame DEF engineVars
<1> QED BY <1>3, <1>6, <1>7

\* What an update makes of a book that shows the snapshot.
LEMMA ShowsAfresh ==
    ASSUME versions \in Seq(Book), depthBook \in Book,
           NEW first, NEW p \in Nat, NEW m \in 1..Latest,
           applied.to = applied.snapshot, Shows(depthBook, first)
    PROVE  \A level \in Levels :
               QuantityIn(HandleDepthUpdate(depthBook, Change(versions, p, m)), level) =
                   IF level \in TouchedIn(versions, p, m)
                   THEN QuantityIn(versions[m], level)
                   ELSE QuantityIn(versions[applied.snapshot], level)
<1> TAKE level \in Levels
<1>1. m \in Nat /\ versions[m] \in Book
  BY LenProperties, ElementOfSeq DEF Latest
<1>2. QuantityIn(HandleDepthUpdate(depthBook, Change(versions, p, m)), level) =
          IF level \in TouchedIn(versions, p, m) THEN QuantityIn(versions[m], level)
          ELSE QuantityIn(depthBook, level)
  BY <1>1, ChangeApplied
<1>3. QuantityIn(depthBook, level) = QuantityIn(versions[applied.snapshot], level)
  BY DEF Shows
<1> QED BY <1>2, <1>3

\* What it makes of a book it follows on.
LEMMA ShowsOn ==
    ASSUME versions \in Seq(Book), depthBook \in Book, applied.to \in 1..Latest,
           NEW first \in 1..applied.to, NEW m \in 1..Latest, applied.to < m,
           Shows(depthBook, first)
    PROVE  \A level \in Levels :
               QuantityIn(HandleDepthUpdate(depthBook, Change(versions, applied.to, m)), level) =
                   IF level \in TouchedIn(versions, first, m)
                   THEN QuantityIn(versions[m], level)
                   ELSE QuantityIn(versions[applied.snapshot], level)
<1> TAKE level \in Levels
<1> DEFINE p == applied.to
<1>1. /\ Latest \in Nat /\ m \in Nat /\ versions[m] \in Book /\ Latest = Len(versions)
      /\ p \in Nat \ {0} /\ p \in p..m /\ m \in p..m /\ m \in p..Len(versions)
      /\ first \in Nat /\ p \in first..Len(versions)
  BY LenProperties, ElementOfSeq DEF Latest
<1>2. QuantityIn(depthBook, level) =
          IF level \in TouchedIn(versions, first, p)
          THEN QuantityIn(versions[p], level)
          ELSE QuantityIn(versions[applied.snapshot], level)
  BY DEF Shows
<1>3. applied.to = p
  OBVIOUS
<1> HIDE DEF p
<1>4. QuantityIn(HandleDepthUpdate(depthBook, Change(versions, p, m)), level) =
          IF level \in TouchedIn(versions, p, m) THEN QuantityIn(versions[m], level)
          ELSE QuantityIn(depthBook, level)
  BY <1>1, ChangeApplied
<1>5. TouchedIn(versions, first, m) = TouchedIn(versions, first, p) \cup TouchedIn(versions, p, m)
  BY <1>1, TouchedTwice
<1>6. level \notin TouchedIn(versions, p, m) => QuantityIn(versions[p], level) = QuantityIn(versions[m], level)
  BY <1>1, Untouched
<1> QED BY <1>2, <1>3, <1>4, <1>5, <1>6

\* After the snapshot an update is applied as it comes.
LEMMA ApplyUpdateStep ==
    ASSUME EngineInv, HandleEvent, HandleUpdate, status = "Ready"
    PROVE  EngineInv'
<1> USE DEF EngineInv
<1> DEFINE m == event.lastUpdateId
           S == applied.snapshot
           F == applied.from
           T == applied.to
<1>1. /\ popping = "out" /\ popping' = "checking" /\ event.type = "DepthUpdate"
      /\ event' = NoEvent
      /\ depthBook' = HandleDepthUpdate(depthBook, event.levels)
      /\ applied' = [applied EXCEPT !.to = m, !.from = IF @ < m THEN @ ELSE m]
      /\ UNCHANGED <<versions, reported, answered, snapshots, wire, data_queue, pushing,
                     status, depthEvents, lost>>
  BY DEF HandleEvent, HandleUpdate, Q!PopAgain, exchangeVars
<1>2. depthEvents = <<>> /\ depthEvents' = <<>> /\ event \in DepthUpdate
      /\ event.levels \in Update
      /\ m \in Versions
  BY <1>1, EventTypes DEF EngineTypeOK
<1>3. /\ applied' \in [{"snapshot", "from", "to"} -> 0..MaxVersions]
      /\ applied'.snapshot = S /\ applied'.to = m
      /\ applied'.from = IF F < m THEN F ELSE m
  <2>1. /\ applied \in [{"snapshot", "from", "to"} -> 0..MaxVersions]
        /\ m \in 0..MaxVersions /\ applied.from \in 0..MaxVersions
    <3>1. applied["from"] \in 0..MaxVersions
      BY DEF EngineTypeOK
    <3> QED BY <1>2, <3>1, DepthEngineAssumption DEF EngineTypeOK, Versions
  <2> DEFINE from == IF F < m THEN F ELSE m
  <2>2. applied' = [[applied EXCEPT !.to = m] EXCEPT !.from = from]
    BY <1>1, <2>1
  <2>3. from \in 0..MaxVersions
    BY <2>1
  <2> HIDE DEF from, m
  <2>4. applied' \in [{"snapshot", "from", "to"} -> 0..MaxVersions]
    BY <2>1, <2>2, <2>3
  <2>5. applied'.snapshot = applied.snapshot /\ applied'.to = m /\ applied'.from = from
    BY <2>1, <2>2
  <2> QED BY <2>4, <2>5 DEF from
<1>4. /\ S \in 1..Latest /\ T \in 1..Latest /\ F \in 1..S /\ F <= T /\ Latest \in Nat
      /\ Complete(F, T, lost) => \E first \in 1..F : Shows(depthBook, first)
      /\ versions \in Seq(Book) /\ lost \in SUBSET Nat
  BY InFlightTypes DEF BookInv
<1>5. /\ m \in 1..Latest
      /\ \E p \in 1..m - 1 : Covers(versions, event, p) /\ Follows(p, {}, Base, lost)
  <2>1. Len(depthEvents) = 0 /\ UpdateIds(depthEvents, Len(depthEvents)) = {}
    BY <1>2, IdsNone
  <2> QED BY <1>1, <2>1, EventIsNext DEF EventOK, UpdateOK, Latest
<1>6. PICK p \in 1..m - 1 : Covers(versions, event, p) /\ Follows(p, {}, Base, lost)
  BY <1>5
<1>7. depthBook' = HandleDepthUpdate(depthBook, Change(versions, p, m))
  BY <1>1, <1>6 DEF Covers
<1>8. p \in Nat /\ p \in 1..Latest /\ p < m /\ (p \in lost \/ p \in Base)
      /\ \E b \in Base : b <= p
  BY <1>4, <1>5, <1>6 DEF Follows
<1>9. Base = IF T = S /\ F = S THEN 1..S ELSE {T}
  BY <1>1, EventTypes DEF Base, IsFresh
<1>10. Base' = IF m = S /\ applied'.from = S THEN 1..S ELSE {m}
  BY <1>1, <1>3, DepthEngineAssumption DEF Base, IsFresh
<1>11. depthBook' \in Book
  BY <1>1, <1>2, HandleDepthUpdateType DEF EngineTypeOK
<1> HIDE DEF m, S, F, T
<1>12. EngineTypeOK'
  BY <1>1, <1>2, <1>3, <1>11 DEF EngineTypeOK, Latest
<1>13. StreamInv'
  <2>1. TakenIds = {m}
    <3>1. UpdateIds(depthEvents, Len(depthEvents)) = {}
      BY <1>2, IdsNone
    <3> QED BY <1>1, <3>1 DEF TakenIds, m
  <2>2. m \in Base'
    BY <1>4, <1>5, <1>10
  <2>3. \A q : /\ \A n \in TakenIds : n <= q
               /\ \E b \in Base : b <= q
               => /\ \E b \in Base' : b <= q
                  /\ q \in TakenIds \/ (TakenIds = {} /\ q \in Base) => q \in Base'
    BY <2>1, <2>2
  <2> QED BY <1>1, <1>2, <2>3, DropStep
<1>14. BookInv'
  <2>1. /\ applied'.snapshot \in 1..Latest /\ applied'.to \in 1..Latest
        /\ applied'.from \in 1..applied'.snapshot /\ applied'.from <= applied'.to
    BY <1>3, <1>4, <1>5
  <2>2. ASSUME Complete(applied'.from, m, lost)
        PROVE  \E first \in 1..applied'.from : Shows(depthBook, first)'
    <3>1. CASE T = S /\ F = S
      <4>1. Complete(F, T, lost)
        BY <1>4, <3>1 DEF Complete
      <4>2. PICK first \in 1..F : Shows(depthBook, first)
        BY <1>4, <4>1
      <4>3. p <= applied'.from
        <5>1. CASE p \in Base
          BY <1>3, <1>4, <1>5, <1>8, <1>9, <3>1, <5>1
        <5>2. CASE p \in lost
          <6>1. p <= applied'.from \/ p > m
            BY <2>2, <5>2 DEF Complete
          <6> QED BY <1>4, <1>5, <1>8, <6>1
        <5> QED BY <1>8, <5>1, <5>2
      <4>4. \A level \in Levels :
               QuantityIn(depthBook', level) =
                   IF level \in TouchedIn(versions, p, m)
                   THEN QuantityIn(versions[m], level)
                   ELSE QuantityIn(versions[S], level)
        <5>1. depthBook \in Book /\ applied.to = applied.snapshot
          BY <3>1 DEF EngineTypeOK, S, T
        <5> QED BY <1>4, <1>5, <1>7, <1>8, <4>2, <5>1, ShowsAfresh DEF S
      <4>5. p \in 1..applied'.from
        BY <1>3, <1>4, <1>5, <1>8, <4>3
      <4> QED BY <1>1, <1>3, <4>4, <4>5 DEF Shows
    <3>2. CASE ~(T = S /\ F = S)
      <4>1. T <= p /\ F < m /\ applied'.from = F /\ (p \in lost \/ p = T)
        BY <1>3, <1>4, <1>5, <1>8, <1>9, <3>2
      <4>2. p = T
        <5>1. CASE p \in lost
          <6>1. p <= F \/ p > m
            BY <2>2, <4>1, <5>1 DEF Complete
          <6> QED BY <1>4, <1>5, <1>8, <4>1, <6>1
        <5> QED BY <4>1, <5>1
      <4>3. Complete(F, T, lost)
        <5> SUFFICES ASSUME NEW n \in lost, ~(n <= F) PROVE n > T
          BY DEF Complete
        <5>1. n > m /\ n \in Nat
          BY <1>4, <2>2, <4>1 DEF Complete
        <5> QED BY <1>4, <1>5, <1>8, <4>2, <5>1
      <4>4. PICK first \in 1..F : Shows(depthBook, first)
        BY <1>4, <4>3
      <4>5. \A level \in Levels :
               QuantityIn(depthBook', level) =
                   IF level \in TouchedIn(versions, first, m)
                   THEN QuantityIn(versions[m], level)
                   ELSE QuantityIn(versions[S], level)
        <5>1. depthBook \in Book /\ applied.to \in 1..Latest /\ p = applied.to
              /\ applied.to < m /\ first \in 1..applied.to
          BY <1>4, <1>8, <4>2 DEF EngineTypeOK, T
        <5> QED BY <1>4, <1>5, <1>7, <4>4, <5>1, ShowsOn DEF S
      <4> QED BY <1>1, <1>3, <4>1, <4>5 DEF Shows
    <3> QED BY <3>1, <3>2
  <2> QED BY <1>1, <1>3, <2>1, <2>2 DEF BookInv, Latest
<1> QED BY <1>12, <1>13, <1>14

\* The first snapshot, and what was put aside over it.
LEMMA HandleSnapshotStep ==
    ASSUME EngineInv, HandleEvent, HandleSnapshot
    PROVE  EngineInv'
<1> USE DEF EngineInv
<1> DEFINE S == event.lastUpdateId
           n == Len(depthEvents)
<1>1. /\ popping = "out" /\ popping' = "checking" /\ event.type = "DepthSnapshot"
      /\ event' = NoEvent /\ status = "NoReady" /\ status' = "Ready"
      /\ depthBook' = AfterSnapshot(event) /\ depthEvents' = <<>>
      /\ UNCHANGED <<versions, reported, answered, snapshots, wire, data_queue, pushing, lost>>
  BY DEF HandleEvent, HandleSnapshot, Q!PopAgain, exchangeVars
<1>2. applied' = [snapshot |-> S, from |-> S,
                  to |-> CHOOSE x \in {depthEvents[i].lastUpdateId : i \in DOMAIN depthEvents} \cup {S} :
                             \A m \in {depthEvents[i].lastUpdateId : i \in DOMAIN depthEvents} \cup {S} :
                                 m <= x]
  BY DEF HandleSnapshot
<1>3. /\ versions \in Seq(Book) /\ depthEvents \in Seq(DepthUpdate) /\ depthBook = EmptyBook
      /\ lost \in SUBSET Nat /\ Latest \in Nat /\ Latest \in Versions /\ event.levels \in Book
  BY <1>1, InFlightTypes, EventTypes DEF EngineTypeOK
<1>4. Base = {1}
  BY <1>1 DEF Base
<1>5. S \in 1..Latest /\ event.levels = versions[S]
  BY <1>1, EventIsNext DEF EventOK, Latest
<1>6. BufferOK(lost)
  <2> SUFFICES ASSUME NEW i \in 1..Len(depthEvents)
               PROVE  /\ depthEvents[i].lastUpdateId \in 1..Latest
                      /\ \E p \in 1..depthEvents[i].lastUpdateId - 1 :
                            /\ Covers(versions, depthEvents[i], p)
                            /\ Follows(p, UpdateIds(depthEvents, i - 1), {1}, lost)
    BY DEF BufferOK
  <2>1. /\ EventOK(versions, depthEvents[i])
        /\ UpdateOK(versions, depthEvents[i], UpdateIds(depthEvents, i - 1), {1}, lost)
    BY <1>1, <1>4, EventIsNext
  <2>2. depthEvents[i].type = "DepthUpdate"
    <3>1. depthEvents[i] \in DepthUpdate
      BY <1>3, ElementOfSeq
    <3> QED BY <3>1 DEF DepthUpdate
  <2> QED BY <2>1, <2>2 DEF EventOK, UpdateOK, Latest
<1>7. Reaches(AfterSnapshot(event), n, S, lost)
  BY <1>3, <1>5, <1>6, SnapshotApplied
<1>8. PICK t : ReachedBy(t, n, S)
      /\ (Complete(S, t, lost) => AfterSnapshot(event) = versions[t])
  BY <1>7 DEF Reaches
<1>9. applied'.snapshot = S /\ applied'.from = S /\ applied'.to = t
  BY <1>2, <1>3, <1>5, <1>6, <1>8, LatestApplied
<1>10. AfterSnapshot(event) \in Book
  BY <1>3, AfterSnapshotType
<1>11. t \in S..Latest /\ S \in Nat /\ t \in Nat /\ t \in 1..Latest
  BY <1>3, <1>5, <1>8 DEF ReachedBy
<1>12. EngineTypeOK'
  <2>1. applied' \in [{"snapshot", "from", "to"} -> 0..MaxVersions]
    <3>1. S \in 0..MaxVersions /\ t \in 0..MaxVersions
      BY <1>3, <1>5, <1>11, DepthEngineAssumption DEF Versions
    <3>2. applied' = [snapshot |-> S, from |-> S, to |-> t]
      BY <1>2, <1>9
    <3> HIDE DEF S
    <3> QED BY <3>1, <3>2
  <2>2. depthEvents' \in Seq(DepthUpdate)
    BY <1>1, EmptySeq
  <2> QED BY <1>1, <1>10, <2>1, <2>2 DEF EngineTypeOK, Latest
<1>13. Base' = IF t = S THEN 1..S ELSE {t}
  BY <1>1, <1>9 DEF Base, IsFresh
<1> HIDE DEF S, n
<1>14. StreamInv'
  <2>1. TakenIds = UpdateIds(depthEvents, n)
    BY <1>1 DEF TakenIds, n
  <2>2. /\ \A id \in TakenIds : id <= t /\ id \in Nat
        /\ t = S \/ t \in TakenIds
    <3>1. \A id \in TakenIds : id \in Nat
      <4> SUFFICES ASSUME NEW id \in TakenIds PROVE id \in Nat
        OBVIOUS
      <4>1. n \in Nat
        BY <1>3, LenProperties DEF n
      <4>2. PICK j \in 1..n : depthEvents[j].lastUpdateId = id
        BY <2>1, <4>1, IdsMember
      <4> QED BY <1>3, <1>6, <4>2 DEF BufferOK, n
    <3> QED BY <1>8, <2>1, <3>1 DEF ReachedBy
  <2>3. ASSUME NEW q, \A id \in TakenIds : id <= q, \E b \in Base : b <= q
        PROVE  /\ \E b \in Base' : b <= q
               /\ q \in TakenIds \/ (TakenIds = {} /\ q \in Base) => q \in Base'
    <3>1. CASE t = S
      <4>1. 1 \in Base' /\ 1 <= q
        BY <1>4, <1>5, <1>11, <1>13, <2>3, <3>1
      <4>2. ASSUME q \in TakenIds
            PROVE  q \in Base'
        <5>1. q \in Nat /\ q <= t
          BY <2>2, <4>2
        <5> QED BY <1>11, <1>13, <3>1, <4>1, <5>1
      <4> QED BY <1>4, <4>1, <4>2
    <3>2. CASE t # S
      <4>1. t \in TakenIds /\ t <= q /\ Base' = {t}
        BY <1>13, <2>2, <2>3, <3>2
      <4>2. ASSUME q \in TakenIds
            PROVE  q = t
        <5>1. q \in Nat /\ q <= t
          BY <2>2, <4>2
        <5> QED BY <1>11, <4>1, <5>1
      <4> QED BY <4>1, <4>2
    <3> QED BY <3>1, <3>2
  <2> QED BY <1>1, <2>3, DropStep
<1>15. BookInv'
  <2>1. /\ applied'.snapshot \in 1..Latest /\ applied'.to \in 1..Latest
        /\ applied'.from \in 1..applied'.snapshot /\ applied'.from <= applied'.to
    BY <1>5, <1>9, <1>11
  <2>2. ASSUME Complete(S, t, lost)
        PROVE  \E first \in 1..S : Shows(depthBook, first)'
    <3>1. depthBook' = versions[t]
      BY <1>1, <1>8, <2>2
    <3>2. ASSUME NEW level \in Levels, level \notin TouchedIn(versions, S, t)
          PROVE  QuantityIn(versions[t], level) = QuantityIn(versions[S], level)
      <4>1. /\ S \in Nat \ {0} /\ t \in S..Len(versions) /\ Len(versions) \in Nat
            /\ t \in S..t /\ S \in S..t
        BY <1>3, <1>5, <1>11 DEF Latest
      <4> QED BY <3>2, <4>1, Untouched
    <3>3. \A level \in Levels :
              QuantityIn(depthBook', level) =
                  IF level \in TouchedIn(versions, S, t)
                  THEN QuantityIn(versions[t], level)
                  ELSE QuantityIn(versions[S], level)
      BY <3>1, <3>2
    <3>4. PICK first \in 1..S : first = S
      BY <1>5, <1>11
    <3>5. Shows(depthBook, first)'
      BY <1>1, <1>9, <3>3, <3>4 DEF Shows
    <3> QED BY <3>5
  <2> QED BY <1>1, <1>9, <2>1, <2>2 DEF BookInv, Latest
<1> QED BY <1>12, <1>14, <1>15

LEMMA EngineInitInv ==
    ASSUME EngineInit
    PROVE  EngineInv
<1>1. PICK book \in FirstBooks : versions = <<book>>
  BY DEF EngineInit
<1>2. book \in Book
  BY DepthEngineAssumption DEF Book
<1>3. versions \in Seq(Book) /\ Len(versions) = 1
  BY <1>1, <1>2
<1>4. /\ reported = 1 /\ answered = 0 /\ snapshots = 0 /\ wire = <<>> /\ data_queue = <<>>
      /\ pushing = FALSE /\ popping = "checking" /\ event = NoEvent /\ status = "NoReady"
      /\ depthBook = EmptyBook /\ depthEvents = <<>> /\ lost = {}
      /\ applied = [snapshot |-> 0, from |-> 0, to |-> 0]
  BY DEF EngineInit, Q!Init
<1>5. EngineTypeOK
  <2>1. applied \in [{"snapshot", "from", "to"} -> 0..MaxVersions]
    BY <1>4, DepthEngineAssumption
  <2>2. Latest \in Versions /\ reported \in 1..Latest /\ answered \in 0..Latest
        /\ snapshots \in 0..MaxSnapshots
    BY <1>3, <1>4, DepthEngineAssumption DEF Latest, Versions
  <2>3. wire \in Seq(DepthEvent) /\ data_queue \in Seq(DepthEvent)
        /\ depthEvents \in Seq(DepthUpdate)
    BY <1>4, EmptySeq
  <2> QED BY <1>3, <1>4, <2>1, <2>2, <2>3, EmptyBookType DEF EngineTypeOK
<1>6. InFlight = <<>>
  <2>1. <<>> \in Seq(DepthEvent)
    BY EmptySeq
  <2>2. <<>> \o <<>> = <<>>
    BY <2>1, ConcatEmptySeq
  <2> QED BY <1>4, <2>2 DEF InFlight, Taken
<1>7. StreamInv
  <2>1. Len(InFlight) = 0 /\ UpdateIds(InFlight, Len(InFlight)) = {}
    BY <1>6, IdsNone
  <2> QED BY <1>4, <2>1 DEF StreamInv, StreamOK, Follows, Base
<1>8. BookInv
  BY <1>4 DEF BookInv
<1> QED BY <1>5, <1>7, <1>8 DEF EngineInv

LEMMA EngineInvStep ==
    ASSUME EngineInv, [EngineNext]_allVars
    PROVE  EngineInv'
<1>1. CASE UNCHANGED allVars
  <2>1. UNCHANGED <<versions, reported, answered, snapshots, wire, data_queue, pushing, popping,
                    event, status, depthBook, depthEvents, applied, lost>>
    BY <1>1 DEF allVars, exchangeVars, queueVars, engineVars
  <2>2. EngineTypeOK'
    BY <2>1 DEF EngineInv, EngineTypeOK, Latest
  <2>3. InFlight' = InFlight
    BY <2>1 DEF InFlight, Taken
  <2> QED BY <2>1, <2>2, <2>3, StreamSame, BookSame DEF EngineInv, engineVars
<1>2. CASE ExchangeMoves
  BY <1>2, MovesStep
<1>3. CASE SendUpdate
  BY <1>3, SendUpdateStep
<1>4. CASE AnswerSnapshot
  BY <1>4, AnswerSnapshotStep
<1>5. CASE SendSnapshot
  BY <1>5, SendSnapshotStep
<1>6. CASE LoseUpdate
  BY <1>6, LoseUpdateStep
<1>7. CASE ProcessMessage
  BY <1>7, ProcessMessageStep
<1>8. CASE NotifyOne
  BY <1>8, NotifyOneStep
<1>9. CASE Pop
  BY <1>9, PopStep
<1>10. CASE PopTimesOut
  BY <1>10, PopTimesOutStep
<1>11. CASE HandleEvent
  <2>1. CASE HandleUpdate
    BY <1>11, <2>1, ApplyUpdateStep, PutAsideStep
  <2>2. CASE HandleSnapshot
    BY <1>11, <2>2, HandleSnapshotStep
  <2>3. CASE IgnoreSnapshot
    BY <1>11, <2>3, IgnoreSnapshotStep
  <2> QED BY <1>11, <2>1, <2>2, <2>3 DEF HandleEvent
<1> QED BY <1>1, <1>2, <1>3, <1>4, <1>5, <1>6, <1>7, <1>8, <1>9, <1>10, <1>11
        DEF EngineNext, EngineHandleEvents

LEMMA EngineInvAlways == EngineSpec => []EngineInv
<1>1. EngineInit => EngineInv
  BY EngineInitInv
<1>2. EngineInv /\ [EngineNext]_allVars => EngineInv'
  BY EngineInvStep
<1> QED BY <1>1, <1>2, PTL DEF EngineSpec

\* Whatever is sent, lost and put aside, the engine's state has its types: a book
\* never holds a level without a quantity, and nothing is set aside once the
\* snapshot was applied.
THEOREM EngineTypes == EngineSpec => []EngineTypeOK
<1>1. EngineInv => EngineTypeOK
  BY DEF EngineInv
<1> QED BY <1>1, EngineInvAlways, PTL

\* A book that has caught up is the exchange's, for any number of levels,
\* versions, snapshots and lost datagrams.
THEOREM EngineCatchesUp == EngineSpec => []BookOnceCaughtUp
<1>1. ASSUME EngineInv
      PROVE  BookOnceCaughtUp
  <2> SUFFICES ASSUME status = "Ready", applied.to >= applied.snapshot,
                      Complete(applied.from, applied.to, lost)
               PROVE  depthBook = versions[applied.to]
    BY DEF BookOnceCaughtUp, Complete
  <2> DEFINE S == applied.snapshot
             T == applied.to
  <2>1. /\ S \in 1..Latest /\ T \in 1..Latest /\ applied.from \in 1..S /\ S <= T
        /\ Latest \in Nat /\ Latest = Len(versions) /\ versions \in Seq(Book)
        /\ depthBook \in Book
    BY <1>1, InFlightTypes DEF EngineInv, BookInv, EngineTypeOK, Latest
  <2>2. PICK first \in 1..applied.from : Shows(depthBook, first)
    BY <1>1 DEF EngineInv, BookInv
  <2>3. ASSUME NEW level \in Levels
        PROVE  QuantityIn(depthBook, level) = QuantityIn(versions[T], level)
    <3>1. QuantityIn(depthBook, level) =
              IF level \in TouchedIn(versions, first, T) THEN QuantityIn(versions[T], level)
              ELSE QuantityIn(versions[S], level)
      BY <2>2 DEF Shows
    <3>2. /\ first \in Nat \ {0} /\ T \in first..Len(versions)
          /\ S \in first..T /\ T \in first..T
      BY <2>1
    <3> HIDE DEF S, T
    <3>3. level \notin TouchedIn(versions, first, T) =>
              QuantityIn(versions[S], level) = QuantityIn(versions[T], level)
      BY <2>1, <3>2, Untouched
    <3> QED BY <3>1, <3>3
  <2>4. versions[T] \in Book
    BY <2>1, ElementOfSeq
  <2> HIDE DEF S, T
  <2>5. depthBook = versions[T]
    BY <2>1, <2>3, <2>4, BookEqual
  <2> QED BY <2>5 DEF T
<1> QED BY <1>1, EngineInvAlways, PTL

-----------------------------------------------------------------------------
(* MessageRing.                                                            *)

USE MessageRingAssumption

\* What push knows of the ring after getItem: its slot is the head, and the
\* slot after it is not the tail, however far the tail has come since.
ProducerHolds ==
    producer \in {"filling", "committing"} =>
        /\ headCached = head
        /\ headNext = FastModulo(head + 1)
        /\ headNext # tail
        /\ nextMessage \in Messages

\* What the consumer knows between pop's test and pop's store, and after the
\* store; which of its steps come before it depends on the kind of ring.
ConsumerHolds ==
    /\ consumer \in {"popping", "copied"} => item = tail /\ tail # head
    /\ consumer \in {"holding", "clearing"} => tail = FastModulo(item + 1)
    /\ consumer \in {"holding", "clearing"} => ~ring.copies
    /\ consumer = "copied" => ring.copies

IInv == TypeOK /\ ProducerHolds /\ ConsumerHolds

-----------------------------------------------------------------------------
\* The index after a slot's is a slot's.
LEMMA FastModuloNext ==
    ASSUME NEW slot \in Slots
    PROVE  /\ FastModulo(slot + 1) \in Slots
           /\ FastModulo(slot + 1) = IF slot + 1 = Capacity THEN 0 ELSE slot + 1
           /\ FastModulo(slot + 1) # slot
<1>1. slot \in Nat /\ slot + 1 <= Capacity /\ Capacity \in Nat /\ Capacity > 1
  BY DEF MessageRingAssumption, Slots
<1>2. slot + 1 < Capacity => (slot + 1) % Capacity = slot + 1
  BY <1>1
<1>3. slot + 1 = Capacity => (slot + 1) % Capacity = 0
  BY <1>1
<1> QED BY <1>1, <1>2, <1>3 DEF FastModulo, Slots

\* Going on by one slot keeps different slots different.
LEMMA FastModuloInjective ==
    ASSUME NEW a \in Slots, NEW b \in Slots, a # b
    PROVE  FastModulo(a + 1) # FastModulo(b + 1)
<1>1. a \in Nat /\ b \in Nat
  BY DEF Slots
<1> QED BY <1>1, FastModuloNext

-----------------------------------------------------------------------------
LEMMA InitIInv == Init => IInv
<1> SUFFICES ASSUME Init PROVE IInv
  OBVIOUS
<1>1. 0 \in Slots /\ 1 \in 1..MaxMessages + 1
  BY DEF Slots, MessageRingAssumption
<1>2. parsed \in Seq(Seq(Messages)) /\ <<>> \in Seq(Messages)
  BY DEF Init
<1>3. slots \in [Slots -> Seq(Messages)]
  BY <1>2 DEF Init
<1> QED BY <1>1, <1>2, <1>3 DEF Init, IInv, TypeOK, ProducerHolds, ConsumerHolds

\* Only the owner of an atomic stores to it, and what the other thread does
\* never takes a slot away: push moves the head towards the tail and not onto
\* it, pop moves the tail up to the head and not past it.
LEMMA StepIInv == IInv /\ [Next]_vars => IInv'
<1> SUFFICES ASSUME IInv, [Next]_vars PROVE IInv'
  OBVIOUS
<1>1. CASE GetItem
  <2>1. TypeOK'
    BY <1>1, FastModuloNext DEF GetItem, IInv, TypeOK
  <2>2. ProducerHolds'
    BY <1>1 DEF GetItem, IInv, ProducerHolds, Full, FastModulo
  <2>3. ConsumerHolds'
    BY <1>1 DEF GetItem, IInv, ConsumerHolds, FastModulo
  <2> QED BY <2>1, <2>2, <2>3 DEF IInv
<1>10. CASE RingFull
  <2>1. TypeOK'
    <3>1. nextMessage' \in 1..MaxMessages + 1 /\ dropped' \in Nat
      BY <1>10 DEF RingFull, IInv, TypeOK, Messages, MessageRingAssumption
    <3> QED BY <1>10, <3>1, FastModuloNext DEF RingFull, IInv, TypeOK
  <2>2. ProducerHolds' /\ ConsumerHolds'
    BY <1>10 DEF RingFull, IInv, ProducerHolds, ConsumerHolds, FastModulo
  <2> QED BY <2>1, <2>2 DEF IInv
<1>2. CASE FillItem
  <2>1. nextMessage \in Messages
    BY <1>2 DEF FillItem, IInv, ProducerHolds
  <2>4. /\ <<nextMessage>> \in Seq(Messages)
        /\ Append(slots[headCached], nextMessage) \in Seq(Messages)
    BY <2>1 DEF IInv, TypeOK
  <2>2. TypeOK'
    BY <1>2, <2>4 DEF FillItem, IInv, TypeOK
  <2>3. ProducerHolds' /\ ConsumerHolds'
    BY <1>2 DEF FillItem, IInv, ProducerHolds, ConsumerHolds, FastModulo
  <2> QED BY <2>2, <2>3 DEF IInv
<1>3. CASE Commit
  <2>1. TypeOK'
    BY <1>3 DEF Commit, IInv, TypeOK, ProducerHolds, Messages, MessageRingAssumption
  <2>2. ProducerHolds'
    BY <1>3 DEF Commit, ProducerHolds
  <2>3. ConsumerHolds'
    BY <1>3 DEF Commit, IInv, ProducerHolds, ConsumerHolds, FastModulo
  <2> QED BY <2>1, <2>2, <2>3 DEF IInv
<1>4. CASE FindItem
  <2>1. TypeOK'
    BY <1>4 DEF FindItem, ringVars, IInv, TypeOK
  <2>2. ProducerHolds' /\ ConsumerHolds'
    BY <1>4 DEF FindItem, ringVars, Empty, IInv, ProducerHolds, ConsumerHolds, FastModulo
  <2> QED BY <2>1, <2>2 DEF IInv
<1>9. CASE CopyItem
  <2>1. slots[item] \in Seq(Messages)
    BY DEF IInv, TypeOK
  <2>2. TypeOK'
    BY <1>9, <2>1 DEF CopyItem, ringVars, IInv, TypeOK
  <2>3. ProducerHolds' /\ ConsumerHolds'
    BY <1>9 DEF CopyItem, ringVars, IInv, ProducerHolds, ConsumerHolds, FastModulo
  <2> QED BY <2>2, <2>3 DEF IInv
<1>5. CASE AdvanceTail
  <2>1. item = tail /\ tail # head /\ item \in Slots /\ head \in Slots /\ tail \in Slots
    BY <1>5 DEF AdvanceTail, IInv, TypeOK, ConsumerHolds
  <2>2. TypeOK'
    BY <1>5, <2>1, FastModuloNext DEF AdvanceTail, IInv, TypeOK
  <2>3. FastModulo(head + 1) # FastModulo(item + 1)
    BY <2>1, FastModuloInjective
  <2>4. ProducerHolds'
    BY <1>5, <2>3 DEF AdvanceTail, IInv, ProducerHolds, FastModulo
  <2>5. ConsumerHolds'
    BY <1>5 DEF AdvanceTail, ConsumerHolds, FastModulo
  <2> QED BY <2>2, <2>4, <2>5 DEF IInv
<1>6. CASE ParseItem
  <2>1. slots[item] \in Seq(Messages)
    BY DEF IInv, TypeOK
  <2>2. TypeOK'
    BY <1>6, <2>1 DEF ParseItem, ringVars, IInv, TypeOK
  <2>3. ProducerHolds' /\ ConsumerHolds'
    BY <1>6 DEF ParseItem, ringVars, IInv, ProducerHolds, ConsumerHolds, FastModulo
  <2> QED BY <2>2, <2>3 DEF IInv
<1>7. CASE ClearItem
  <2>1. <<>> \in Seq(Messages)
    OBVIOUS
  <2>2. TypeOK'
    BY <1>7, <2>1 DEF ClearItem, IInv, TypeOK
  <2>3. ProducerHolds' /\ ConsumerHolds'
    BY <1>7 DEF ClearItem, IInv, ProducerHolds, ConsumerHolds, FastModulo
  <2> QED BY <2>2, <2>3 DEF IInv
<1>8. CASE UNCHANGED vars
  BY <1>8 DEF vars, ringVars, IInv, TypeOK, ProducerHolds, ConsumerHolds, FastModulo
<1> QED BY <1>1, <1>2, <1>3, <1>4, <1>5, <1>6, <1>7, <1>8, <1>9, <1>10
        DEF Next, Push, HandleEvents

LEMMA Inductive == Spec => []IInv
BY InitIInv, StepIInv, PTL DEF Spec

\* The indices stay indices of slots and the two threads where the code can be.
THEOREM TypeCorrect == Spec => []TypeOK
<1>1. IInv => TypeOK
  BY DEF IInv
<1> QED BY <1>1, Inductive, PTL

\* getItem's free slot is enough for pop's early store of the tail: push and
\* handleEvents never hold the same Buffer.
THEOREM SlotsExclusive == Spec => []SlotsNotShared
<1>1. IInv => SlotsNotShared
  <2> SUFFICES ASSUME IInv, NEW slot \in ProducerUses, NEW other \in ConsumerUses
               PROVE  slot # other
    BY DEF SlotsNotShared
  <2>1. /\ slot = head /\ head \in Slots /\ item \in Slots /\ other = item
        /\ FastModulo(head + 1) # tail
    BY DEF ProducerUses, ConsumerUses, IInv, TypeOK, ProducerHolds
  <2>2. CASE consumer = "popping"
    BY <2>1, <2>2 DEF IInv, ConsumerHolds
  <2>3. CASE consumer \in {"holding", "clearing"}
    BY <2>1, <2>3 DEF IInv, ConsumerHolds
  <2> QED BY <2>2, <2>3 DEF ConsumerUses
<1> QED BY <1>1, Inductive, PTL

-----------------------------------------------------------------------------
(* The ring as a queue.                                                    *)

\* How far the slot b is from the slot a, and the i-th slot from the slot a.
Distance(a, b) == IF a <= b THEN b - a ELSE b - a + Capacity

SlotAt(a, i) == IF a + i <= Capacity THEN a + i - 1 ELSE a + i - 1 - Capacity

LEMMA ModuloBelow ==
    ASSUME NEW n \in Nat, n < 2 * Capacity
    PROVE  n % Capacity = IF n < Capacity THEN n ELSE n - Capacity
<1>1. Capacity \in Nat /\ Capacity > 1
  BY DEF MessageRingAssumption
<1>2. CASE n < Capacity
  BY <1>1, <1>2
<1>3. CASE n >= Capacity
  <2>1. PICK k \in Nat : n = k + Capacity /\ k < Capacity
    <3>1. n - Capacity \in Nat /\ n = (n - Capacity) + Capacity /\ n - Capacity < Capacity
      BY <1>1, <1>3
    <3> QED BY <3>1
  <2>2. (k + Capacity) % Capacity = k
    BY <1>1, <2>1
  <2> QED BY <1>1, <2>1, <2>2
<1> QED BY <1>1, <1>2, <1>3

LEMMA DistanceModulo ==
    ASSUME NEW a \in Slots, NEW b \in Slots
    PROVE  (b - a) % Capacity = Distance(a, b)
<1>1. Capacity \in Nat /\ Capacity > 1 /\ a \in Nat /\ b \in Nat /\ a < Capacity /\ b < Capacity
  BY DEF MessageRingAssumption, Slots
<1>2. CASE a <= b
  <2>1. b - a \in Nat /\ b - a < Capacity
    BY <1>1, <1>2
  <2> QED BY <1>1, <1>2, <2>1 DEF Distance
<1>3. CASE b < a
  <2>1. PICK k \in Nat : k = a - b /\ k > 0 /\ k < Capacity /\ b - a = -k
    <3>1. a - b \in Nat /\ a - b > 0 /\ a - b < Capacity /\ b - a = -(a - b)
      BY <1>1, <1>3
    <3> QED BY <3>1
  <2>2. (-k) % Capacity = Capacity - k
    BY <1>1, <2>1
  <2> QED BY <1>1, <1>3, <2>1, <2>2 DEF Distance
<1> QED BY <1>1, <1>2, <1>3

LEMMA DistanceType ==
    ASSUME NEW a \in Slots, NEW b \in Slots
    PROVE  /\ Distance(a, b) \in Slots
           /\ Distance(a, b) = 0 <=> a = b
BY DEF Distance, Slots, MessageRingAssumption

\* Moving the end of a stretch of slots, or its beginning.
LEMMA DistanceNext ==
    ASSUME NEW a \in Slots, NEW b \in Slots
    PROVE  /\ FastModulo(b + 1) # a => Distance(a, FastModulo(b + 1)) = Distance(a, b) + 1
           /\ a # b => Distance(FastModulo(a + 1), b) = Distance(a, b) - 1
<1>1. /\ FastModulo(a + 1) = IF a + 1 = Capacity THEN 0 ELSE a + 1
      /\ FastModulo(b + 1) = IF b + 1 = Capacity THEN 0 ELSE b + 1
  BY FastModuloNext
<1> QED BY <1>1 DEF Distance, Slots, MessageRingAssumption

LEMMA SlotAtDistance ==
    ASSUME NEW a \in Slots, NEW i \in 1..Capacity
    PROVE  SlotAt(a, i) \in Slots /\ Distance(a, SlotAt(a, i)) = i - 1
BY DEF SlotAt, Distance, Slots, MessageRingAssumption

LEMMA SlotAtEnd ==
    ASSUME NEW a \in Slots, NEW b \in Slots
    PROVE  SlotAt(a, Distance(a, b) + 1) = b
BY DEF SlotAt, Distance, Slots, MessageRingAssumption

LEMMA SlotAtNext ==
    ASSUME NEW a \in Slots, NEW i \in 1..Capacity - 1
    PROVE  SlotAt(FastModulo(a + 1), i) = SlotAt(a, i + 1)
<1>1. FastModulo(a + 1) = IF a + 1 = Capacity THEN 0 ELSE a + 1
  BY FastModuloNext
<1> QED BY <1>1 DEF SlotAt, Slots, MessageRingAssumption

-----------------------------------------------------------------------------
\* In a ring that hands out its slots, those between the tail and the head, the
\* one handleEvents holds, and the one push has filled are the only ones that
\* are not empty.
Live(slot) == Distance(tail, slot) < Distance(tail, head)

Held(slot) == consumer \in {"holding", "clearing"} /\ slot = item

Filled(slot) == producer = "committing" /\ slot = head

CleanSlots ==
    ~ring.copies =>
        \A slot \in Slots : ~Live(slot) /\ ~Held(slot) /\ ~Filled(slot) => slots[slot] = <<>>

FilledSlot == producer = "committing" => slots[head] = <<nextMessage>>

QueueInv == IInv /\ CleanSlots /\ FilledSlot

LEMMA InitQueueInv == Init => QueueInv
<1> SUFFICES ASSUME Init PROVE QueueInv
  OBVIOUS
<1>1. CleanSlots /\ FilledSlot
  BY DEF Init, CleanSlots, FilledSlot
<1> QED BY <1>1, InitIInv DEF QueueInv

\* The Buffer getItem hands to push is not the one handleEvents holds.
LEMMA HeadNotHeld == IInv /\ producer \in {"filling", "committing"} => ~Held(head)
<1> SUFFICES ASSUME IInv, producer \in {"filling", "committing"}, Held(head) PROVE FALSE
  OBVIOUS
<1>1. FastModulo(head + 1) # tail /\ tail = FastModulo(item + 1) /\ head = item
  BY DEF IInv, ProducerHolds, ConsumerHolds, Held
<1> QED BY <1>1

LEMMA StepQueueInv == QueueInv /\ [Next]_vars => QueueInv'
<1> SUFFICES ASSUME QueueInv, [Next]_vars PROVE QueueInv'
  OBVIOUS
<1>1. IInv /\ IInv' /\ CleanSlots /\ FilledSlot
  BY StepIInv DEF QueueInv
<1>2. /\ head \in Slots /\ tail \in Slots /\ item \in Slots
      /\ slots \in [Slots -> Seq(Messages)]
  BY <1>1 DEF IInv, TypeOK
<1>3. CASE GetItem
  <2>1. CleanSlots'
    BY <1>1, <1>3 DEF GetItem, CleanSlots, Live, Held, Filled
  <2>2. FilledSlot'
    BY <1>3 DEF GetItem, FilledSlot
  <2> QED BY <1>1, <2>1, <2>2 DEF QueueInv
<1>11. CASE RingFull
  <2>1. CleanSlots'
    BY <1>1, <1>11 DEF RingFull, CleanSlots, Live, Held, Filled
  <2>2. FilledSlot'
    BY <1>11 DEF RingFull, FilledSlot
  <2> QED BY <1>1, <2>1, <2>2 DEF QueueInv
<1>12. CASE CopyItem
  <2>1. CleanSlots'
    BY <1>1, <1>12 DEF CopyItem, ringVars, CleanSlots
  <2>2. FilledSlot'
    BY <1>1, <1>12 DEF CopyItem, ringVars, FilledSlot
  <2> QED BY <1>1, <2>1, <2>2 DEF QueueInv
<1>4. CASE FillItem
  <2>1. headCached = head /\ producer = "filling" /\ ring' = ring
    BY <1>1, <1>4 DEF FillItem, IInv, ProducerHolds
  <2>2. Distance(tail, head) \in Int
    BY <1>2, DistanceType DEF Slots
  <2>3. ~ring.copies => slots[head] = <<>>
    <3>1. ~Live(head) /\ ~Filled(head)
      BY <2>1, <2>2 DEF Live, Filled
    <3> QED BY <1>1, <1>2, <2>1, <3>1, HeadNotHeld DEF CleanSlots
  <2>4. slots' = [slots EXCEPT ![head] = <<nextMessage>>]
    <3>1. CASE ring.copies
      BY <1>4, <2>1, <3>1 DEF FillItem
    <3>2. CASE ~ring.copies
      <4>1. slots' = [slots EXCEPT ![head] = Append(slots[head], nextMessage)]
        BY <1>4, <2>1, <3>2, <1>2 DEF FillItem
      <4>2. slots[head] = <<>>
        BY <2>3, <3>2
      <4>3. Append(<<>>, nextMessage) = <<nextMessage>>
        OBVIOUS
      <4> QED BY <4>1, <4>2, <4>3
    <3> QED BY <3>1, <3>2
  <2>5. CleanSlots'
    BY <1>1, <1>2, <1>4, <2>1, <2>4 DEF FillItem, CleanSlots, Live, Held, Filled
  <2>6. FilledSlot'
    BY <1>2, <1>4, <2>4 DEF FillItem, FilledSlot
  <2> QED BY <1>1, <2>5, <2>6 DEF QueueInv
<1>5. CASE Commit
  <2>1. head' = FastModulo(head + 1) /\ head' # tail /\ producer = "committing" /\ tail' = tail
    BY <1>1, <1>5 DEF Commit, IInv, ProducerHolds
  <2>2. Distance(tail, head') = Distance(tail, head) + 1
    BY <1>2, <2>1, DistanceNext
  <2>3. ASSUME ~ring.copies, NEW slot \in Slots, ~Live(slot)', ~Held(slot)'
        PROVE  slots'[slot] = <<>>
    <3>1. Distance(tail, slot) \in Int /\ Distance(tail, head) \in Int
      BY <1>2, DistanceType DEF Slots
    <3>2. ~(Distance(tail, slot) < Distance(tail, head) + 1)
      BY <2>1, <2>2, <2>3 DEF Live
    <3>3. ~Live(slot) /\ slot # head
      BY <3>1, <3>2 DEF Live
    <3>4. ~Held(slot) /\ slots' = slots
      BY <1>5, <2>3 DEF Commit, Held
    <3> QED BY <1>1, <2>3, <3>3, <3>4 DEF CleanSlots, Filled
  <2>6. ring' = ring
    BY <1>5 DEF Commit
  <2>4. CleanSlots'
    BY <2>3, <2>6 DEF CleanSlots
  <2>5. FilledSlot'
    BY <1>5 DEF Commit, FilledSlot
  <2> QED BY <1>1, <2>4, <2>5 DEF QueueInv
<1>6. CASE FindItem
  <2>1. CleanSlots'
    BY <1>1, <1>6 DEF FindItem, ringVars, CleanSlots, Live, Held, Filled
  <2>2. FilledSlot'
    BY <1>1, <1>6 DEF FindItem, ringVars, FilledSlot
  <2> QED BY <1>1, <2>1, <2>2 DEF QueueInv
<1>7. CASE AdvanceTail
  <2>1. item = tail /\ tail # head /\ tail' = FastModulo(tail + 1) /\ head' = head
        /\ item' = item
    BY <1>1, <1>7 DEF AdvanceTail, IInv, ConsumerHolds
  <2>2. Distance(tail', head) = Distance(tail, head) - 1
    BY <1>2, <2>1, DistanceNext
  <2>3. ASSUME ~ring.copies, NEW slot \in Slots, ~Live(slot)', ~Held(slot)', ~Filled(slot)'
        PROVE  slots'[slot] = <<>>
    <3>1. Distance(tail, slot) \in Int /\ Distance(tail, head) \in Int
      BY <1>2, DistanceType DEF Slots
    <3>2. slot # tail
      BY <1>7, <2>1, <2>3 DEF AdvanceTail, Held
    <3>3. Distance(tail', slot) = Distance(tail, slot) - 1
      BY <1>2, <2>1, <3>2, DistanceNext
    <3>4. ~(Distance(tail', slot) < Distance(tail', head))
      BY <2>1, <2>3 DEF Live
    <3>5. ~Live(slot)
      BY <2>2, <3>1, <3>3, <3>4 DEF Live
    <3>6. ~Held(slot) /\ ~Filled(slot) /\ slots' = slots
      BY <1>7, <2>3 DEF AdvanceTail, Held, Filled
    <3> QED BY <1>1, <2>3, <3>5, <3>6 DEF CleanSlots
  <2>6. ring' = ring
    BY <1>7 DEF AdvanceTail
  <2>4. CleanSlots'
    BY <2>3, <2>6 DEF CleanSlots
  <2>5. FilledSlot'
    BY <1>1, <1>7 DEF AdvanceTail, FilledSlot
  <2> QED BY <1>1, <2>4, <2>5 DEF QueueInv
<1>8. CASE ParseItem
  <2>1. CleanSlots'
    BY <1>1, <1>8 DEF ParseItem, ringVars, CleanSlots, Live, Held, Filled
  <2>2. FilledSlot'
    BY <1>1, <1>8 DEF ParseItem, ringVars, FilledSlot
  <2> QED BY <1>1, <2>1, <2>2 DEF QueueInv
<1>9. CASE ClearItem
  <2>1. slots' = [slots EXCEPT ![item] = <<>>] /\ Held(item)
    BY <1>9 DEF ClearItem, Held
  <2>2. CleanSlots'
    BY <1>1, <1>2, <1>9, <2>1 DEF ClearItem, CleanSlots, Live, Held, Filled
  <2>3. producer = "committing" => head # item
    BY <1>1, <2>1, HeadNotHeld DEF Held
  <2>4. FilledSlot'
    BY <1>1, <1>2, <1>9, <2>1, <2>3 DEF ClearItem, FilledSlot
  <2> QED BY <1>1, <2>2, <2>4 DEF QueueInv
<1>10. CASE UNCHANGED vars
  BY <1>1, <1>10 DEF vars, ringVars, QueueInv, CleanSlots, FilledSlot, Live, Held, Filled
<1> QED BY <1>3, <1>4, <1>5, <1>6, <1>7, <1>8, <1>9, <1>10, <1>11, <1>12
        DEF Next, Push, HandleEvents

-----------------------------------------------------------------------------
\* What InRing is: the Buffers from the tail up to the head, oldest first.
RingShape ==
    /\ InRing \in Seq(Seq(Messages))
    /\ Len(InRing) = Distance(tail, head)
    /\ \A i \in 1..Distance(tail, head) : InRing[i] = slots[SlotAt(tail, i)]

LEMMA RingShaped == IInv => RingShape
<1> SUFFICES ASSUME IInv PROVE RingShape
  OBVIOUS
<1>1. head \in Slots /\ tail \in Slots /\ slots \in [Slots -> Seq(Messages)]
  BY DEF IInv, TypeOK
<1>2. (head - tail) % Capacity = Distance(tail, head) /\ Distance(tail, head) \in Slots
  BY <1>1, DistanceModulo, DistanceType
<1>3. /\ Capacity \in Nat /\ tail \in Nat /\ tail < Capacity
      /\ Distance(tail, head) \in Nat /\ Distance(tail, head) < Capacity
  BY <1>1, <1>2 DEF Slots, MessageRingAssumption
<1>4. ASSUME NEW i \in 1..Distance(tail, head)
      PROVE  (tail + i - 1) % Capacity = SlotAt(tail, i) /\ SlotAt(tail, i) \in Slots
  <2>1. PICK n \in Nat : n = tail + i - 1 /\ n < 2 * Capacity
    <3>1. tail + i - 1 \in Nat /\ tail + i - 1 < 2 * Capacity
      BY <1>3
    <3> QED BY <3>1
  <2>2. n % Capacity = IF n < Capacity THEN n ELSE n - Capacity
    BY <2>1, ModuloBelow
  <2>3. SlotAt(tail, i) = IF n < Capacity THEN n ELSE n - Capacity
    BY <1>3, <2>1 DEF SlotAt
  <2>4. i \in 1..Capacity
    BY <1>3
  <2>5. SlotAt(tail, i) \in Slots
    BY <1>1, <2>4, SlotAtDistance
  <2>6. (tail + i - 1) % Capacity = SlotAt(tail, i)
    BY <2>1, <2>2, <2>3
  <2> QED BY <2>5, <2>6
<1>5. InRing = [i \in 1..Distance(tail, head) |-> slots[SlotAt(tail, i)]]
  BY <1>2, <1>4 DEF InRing
<1>6. \A i \in 1..Distance(tail, head) : slots[SlotAt(tail, i)] \in Seq(Messages)
  BY <1>1, <1>4
<1>7. InRing \in Seq(Seq(Messages)) /\ Len(InRing) = Distance(tail, head)
  BY <1>3, <1>5, <1>6
<1> QED BY <1>5, <1>7 DEF RingShape

\* A step that moves neither end nor a Buffer between them leaves the queue.
LEMMA RingStutters ==
    ASSUME RingShape, RingShape', IInv, head' = head, tail' = tail,
           \A slot \in Slots : Live(slot) => slots'[slot] = slots[slot]
    PROVE  InRing' = InRing
<1>1. head \in Slots /\ tail \in Slots
  BY DEF IInv, TypeOK
<1>2. Distance(tail, head) \in Nat /\ Distance(tail, head) < Capacity /\ Capacity \in Nat
  BY <1>1, DistanceType DEF Slots, MessageRingAssumption
<1>3. ASSUME NEW i \in 1..Distance(tail, head)
      PROVE  InRing'[i] = InRing[i]
  <2>1. i \in 1..Capacity /\ i - 1 < Distance(tail, head)
    BY <1>2
  <2>2. SlotAt(tail, i) \in Slots /\ Live(SlotAt(tail, i))
    BY <1>1, <2>1, SlotAtDistance DEF Live
  <2>3. InRing[i] = slots[SlotAt(tail, i)] /\ InRing'[i] = slots'[SlotAt(tail, i)]
    BY DEF RingShape
  <2> QED BY <2>2, <2>3
<1>4. /\ InRing \in Seq(Seq(Messages)) /\ InRing' \in Seq(Seq(Messages))
      /\ Len(InRing) = Distance(tail, head) /\ Len(InRing') = Distance(tail, head)
  BY DEF RingShape
<1> QED BY <1>3, <1>4, SeqEqual

\* Commit puts the filled Buffer at the end.
LEMMA CommitAppends ==
    ASSUME QueueInv, RingShape, RingShape', Commit
    PROVE  /\ InRing' = Append(InRing, <<nextMessage>>)
           /\ Len(InRing) + 1 < Capacity
<1>1. /\ head \in Slots /\ tail \in Slots /\ slots \in [Slots -> Seq(Messages)]
      /\ slots[head] = <<nextMessage>> /\ nextMessage \in Messages
      /\ head' = FastModulo(head + 1) /\ head' # tail /\ tail' = tail /\ slots' = slots
  BY DEF Commit, QueueInv, FilledSlot, IInv, TypeOK, ProducerHolds
<1>2. head' \in Slots
  BY <1>1, FastModuloNext
<1>3. PICK d \in Slots : d = Distance(tail, head)
  BY <1>1, DistanceType
<1>4. Distance(tail, head') = d + 1 /\ Distance(tail, head') \in Slots
  BY <1>1, <1>2, <1>3, DistanceNext, DistanceType
<1>5. d \in Nat /\ d + 1 < Capacity
  BY <1>4, <1>3 DEF Slots, MessageRingAssumption
<1>6. /\ InRing \in Seq(Seq(Messages)) /\ Len(InRing) = d
      /\ \A i \in 1..d : InRing[i] = slots[SlotAt(tail, i)]
  BY <1>3 DEF RingShape
<1>7. /\ InRing' \in Seq(Seq(Messages)) /\ Len(InRing') = d + 1
      /\ \A i \in 1..d + 1 : InRing'[i] = slots[SlotAt(tail, i)]
  BY <1>1, <1>4 DEF RingShape
<1>8. SlotAt(tail, d + 1) = head
  BY <1>1, <1>3, SlotAtEnd
<1>9. <<nextMessage>> \in Seq(Messages)
  BY <1>1
<1>10. /\ Append(InRing, <<nextMessage>>) \in Seq(Seq(Messages))
       /\ Len(Append(InRing, <<nextMessage>>)) = d + 1
       /\ \A i \in 1..d : Append(InRing, <<nextMessage>>)[i] = InRing[i]
       /\ Append(InRing, <<nextMessage>>)[d + 1] = <<nextMessage>>
  BY <1>5, <1>6, <1>9, AppendProperties
<1>11. ASSUME NEW i \in 1..d + 1
       PROVE  InRing'[i] = Append(InRing, <<nextMessage>>)[i]
  <2>1. CASE i \in 1..d
    BY <2>1, <1>5, <1>6, <1>7, <1>10
  <2>2. CASE i = d + 1
    BY <2>2, <1>1, <1>5, <1>7, <1>8, <1>10
  <2>3. i \in 1..d \/ i = d + 1
    BY <1>5
  <2> QED BY <2>1, <2>2, <2>3
<1>12. InRing' = Append(InRing, <<nextMessage>>)
  BY <1>7, <1>10, <1>11, SeqEqual
<1> QED BY <1>5, <1>6, <1>12

\* pop's store of the tail moves the first Buffer into handleEvents' hands.
LEMMA AdvanceTakes ==
    ASSUME QueueInv, RingShape, RingShape', AdvanceTail
    PROVE  InRing = <<slots[item]>> \o InRing'
<1>1. /\ head \in Slots /\ tail \in Slots /\ slots \in [Slots -> Seq(Messages)]
      /\ item = tail /\ tail # head
      /\ tail' = FastModulo(tail + 1) /\ head' = head /\ slots' = slots
  BY DEF AdvanceTail, QueueInv, IInv, TypeOK, ConsumerHolds
<1>2. PICK d \in Slots : d = Distance(tail, head)
  BY <1>1, DistanceType
<1>3. Distance(tail', head) = d - 1 /\ d # 0
  BY <1>1, <1>2, DistanceNext, DistanceType
<1>4. d \in Nat /\ d > 0 /\ d < Capacity /\ Capacity \in Nat
  BY <1>2, <1>3 DEF Slots, MessageRingAssumption
<1>5. /\ InRing \in Seq(Seq(Messages)) /\ Len(InRing) = d
      /\ \A i \in 1..d : InRing[i] = slots[SlotAt(tail, i)]
  BY <1>2 DEF RingShape
<1>6. /\ InRing' \in Seq(Seq(Messages)) /\ Len(InRing') = d - 1
      /\ \A i \in 1..d - 1 : InRing'[i] = slots[SlotAt(tail', i)]
  BY <1>1, <1>3 DEF RingShape
<1>7. SlotAt(tail, 1) = tail
  BY <1>1 DEF SlotAt, Slots, MessageRingAssumption
<1>8. PICK first \in Seq(Messages) : first = slots[item]
  BY <1>1
<1>9. /\ <<first>> \o InRing' \in Seq(Seq(Messages))
      /\ Len(<<first>> \o InRing') = d
      /\ (<<first>> \o InRing')[1] = first
      /\ \A i \in 2..d : (<<first>> \o InRing')[i] = InRing'[i - 1]
  BY <1>4, <1>6
<1>10. ASSUME NEW i \in 1..d
       PROVE  InRing[i] = (<<first>> \o InRing')[i]
  <2>1. CASE i = 1
    BY <2>1, <1>1, <1>4, <1>5, <1>7, <1>8, <1>9
  <2>2. CASE i \in 2..d
    <3>1. PICK k \in 1..d - 1 : i = k + 1 /\ k \in 1..Capacity - 1
      <4>1. i - 1 \in 1..d - 1 /\ i = (i - 1) + 1 /\ i - 1 \in 1..Capacity - 1
        BY <2>2, <1>4
      <4> QED BY <4>1
    <3>2. SlotAt(tail', k) = SlotAt(tail, k + 1)
      BY <1>1, <3>1, SlotAtNext
    <3>3. InRing'[k] = slots[SlotAt(tail, k + 1)] /\ i - 1 = k
      BY <1>6, <3>1, <3>2
    <3> QED BY <1>5, <1>9, <2>2, <3>1, <3>3
  <2>3. i = 1 \/ i \in 2..d
    BY <1>4
  <2> QED BY <2>1, <2>2, <2>3
<1>11. InRing = <<first>> \o InRing'
  <2> DEFINE long == <<first>> \o InRing'
  <2>1. long \in Seq(Seq(Messages)) /\ InRing \in Seq(Seq(Messages)) /\ Len(long) = Len(InRing)
        /\ \A i \in 1..Len(InRing) : InRing[i] = long[i]
    BY <1>5, <1>9, <1>10
  <2> HIDE DEF long
  <2>2. InRing = long
    BY <2>1, SeqEqual
  <2> QED BY <2>2 DEF long
<1> QED BY <1>8, <1>11

-----------------------------------------------------------------------------
\* The slot the consumer is about to take is the first of the queue.
LEMMA FirstInRing ==
    ASSUME IInv, RingShape, tail # head
    PROVE  InRing # <<>> /\ Head(InRing) = slots[tail]
<1>1. head \in Slots /\ tail \in Slots
  BY DEF IInv, TypeOK
<1>2. Distance(tail, head) \in Nat /\ Distance(tail, head) > 0
  BY <1>1, DistanceType DEF Slots, MessageRingAssumption
<1>3. SlotAt(tail, 1) = tail
  BY <1>1 DEF SlotAt, Slots, MessageRingAssumption
<1>4. InRing \in Seq(Seq(Messages)) /\ Len(InRing) > 0 /\ InRing[1] = slots[tail]
  BY <1>2, <1>3 DEF RingShape
<1> QED BY <1>4

\* The Buffer handleEvents has not yet parsed is the first of the queue, and an
\* item that was copied has left it.
Queue == CASE consumer = "holding" -> <<slots[item]>> \o InRing
           [] consumer = "copied"  -> Tail(InRing)
           [] OTHER                -> InRing

\* Every step of the two threads is a Send, a Receive or nothing to the queue.
LEMMA StepFifo ==
    ASSUME QueueInv, RingShape, RingShape', [Next]_vars
    PROVE  \/ /\ parsed' = parsed
              /\ \/ Queue' = Queue
                 \/ /\ Len(Queue) < Capacity
                    /\ \E m \in Messages : Queue' = Append(Queue, <<m>>)
           \/ /\ Queue # <<>>
              /\ Queue' = Tail(Queue)
              /\ parsed' = Append(parsed, Head(Queue))
<1>1. /\ IInv /\ head \in Slots /\ tail \in Slots /\ item \in Slots
      /\ slots \in [Slots -> Seq(Messages)]
  BY DEF QueueInv, IInv, TypeOK
<1>2. InRing \in Seq(Seq(Messages)) /\ InRing' \in Seq(Seq(Messages))
  BY DEF RingShape
<1>3. CASE GetItem \/ RingFull \/ FindItem \/ UNCHANGED vars
  <2>1. /\ head' = head /\ tail' = tail /\ slots' = slots /\ parsed' = parsed
        /\ (consumer' = "holding" <=> consumer = "holding")
        /\ (consumer' = "copied" <=> consumer = "copied")
        /\ (consumer = "holding" => item' = item)
    BY <1>3 DEF GetItem, RingFull, FindItem, vars, ringVars
  <2>2. InRing' = InRing
    BY <1>1, <2>1, RingStutters
  <2> QED BY <2>1, <2>2 DEF Queue
<1>4. CASE FillItem
  <2>1. /\ head' = head /\ tail' = tail /\ parsed' = parsed /\ consumer' = consumer
        /\ item' = item /\ producer = "filling"
        /\ \A slot \in Slots : slot # head => slots'[slot] = slots[slot]
    BY <1>1, <1>4 DEF FillItem, IInv, ProducerHolds
  <2>2. ~Live(head)
    <3>1. Distance(tail, head) \in Int
      BY <1>1, DistanceType DEF Slots
    <3> QED BY <3>1 DEF Live
  <2>3. InRing' = InRing
    <3>1. \A slot \in Slots : Live(slot) => slots'[slot] = slots[slot]
      BY <1>1, <2>1, <2>2
    <3> QED BY <1>1, <2>1, <3>1, RingStutters
  <2>4. consumer = "holding" => item # head
    BY <1>1, <2>1, HeadNotHeld DEF Held
  <2>5. consumer = "holding" => slots'[item] = slots[item]
    BY <1>1, <2>1, <2>4
  <2>6. Queue' = Queue
    <3>1. CASE consumer = "holding"
      <4>1. slots'[item'] = slots[item] /\ consumer' = "holding"
        BY <2>1, <2>5, <3>1
      <4> QED BY <2>3, <3>1, <4>1 DEF Queue
    <3>2. CASE consumer # "holding"
      BY <2>1, <2>3, <3>2 DEF Queue
    <3> QED BY <3>1, <3>2
  <2> QED BY <2>1, <2>6
<1>5. CASE Commit
  <2>1. /\ consumer' = consumer /\ slots' = slots /\ item' = item /\ parsed' = parsed
        /\ nextMessage \in Messages
    BY <1>1, <1>5 DEF Commit, IInv, ProducerHolds
  <2>2. InRing' = Append(InRing, <<nextMessage>>) /\ Len(InRing) + 1 < Capacity
    BY <1>5, CommitAppends
  <2>3. Len(InRing) \in Nat /\ Capacity \in Nat
    BY <1>2 DEF MessageRingAssumption
  <2>4. PICK payload \in Seq(Messages) : payload = <<nextMessage>>
    <3>1. <<nextMessage>> \in Seq(Messages)
      BY <2>1
    <3> QED BY <3>1
  <2>7. CASE consumer = "copied"
    <3>1. tail # head
      BY <1>1, <2>7 DEF IInv, ConsumerHolds
    <3>2. InRing # <<>>
      BY <1>1, <3>1, FirstInRing
    <3>3. /\ Tail(Append(InRing, payload)) = Append(Tail(InRing), payload)
          /\ Len(Tail(InRing)) < Capacity
      BY <1>2, <2>2, <2>3, <3>2
    <3>4. Queue = Tail(InRing) /\ Queue' = Tail(InRing')
      BY <2>1, <2>7 DEF Queue
    <3> QED BY <2>1, <2>2, <2>4, <3>3, <3>4
  <2>5. CASE consumer = "holding"
    <3>1. PICK first \in Seq(Messages) : first = slots[item]
      BY <1>1
    <3>2. Queue = <<first>> \o InRing /\ Queue' = <<first>> \o InRing'
      BY <2>1, <2>5, <3>1 DEF Queue
    <3>3. <<first>> \o Append(InRing, payload) = Append(<<first>> \o InRing, payload)
      BY <1>2
    <3>4. Len(<<first>> \o InRing) = Len(InRing) + 1
      BY <1>2
    <3> QED BY <2>1, <2>2, <2>3, <2>4, <3>2, <3>3, <3>4
  <2>6. CASE consumer \notin {"holding", "copied"}
    BY <2>1, <2>2, <2>3, <2>6 DEF Queue
  <2> QED BY <2>5, <2>6, <2>7
<1>6. CASE AdvanceTail
  <2>1. item' = item /\ slots' = slots /\ parsed' = parsed
    BY <1>6 DEF AdvanceTail
  <2>2. InRing = <<slots[item]>> \o InRing'
    BY <1>6, AdvanceTakes
  <2>3. CASE ring.copies
    <3>1. PICK first \in Seq(Messages) : first = slots[item]
      BY <1>1
    <3>2. Tail(<<first>> \o InRing') = InRing'
      BY <1>2
    <3>3. consumer = "copied" /\ consumer' = "idle"
      BY <1>6, <2>3 DEF AdvanceTail
    <3> QED BY <2>1, <2>2, <3>1, <3>2, <3>3 DEF Queue
  <2>4. CASE ~ring.copies
    <3>1. consumer = "popping" /\ consumer' = "holding"
      BY <1>6, <2>4 DEF AdvanceTail
    <3> QED BY <2>1, <2>2, <3>1 DEF Queue
  <2> QED BY <2>3, <2>4
<1>9. CASE CopyItem
  <2>1. /\ head' = head /\ tail' = tail /\ slots' = slots
        /\ consumer = "popping" /\ consumer' = "copied"
        /\ parsed' = Append(parsed, slots[item])
    BY <1>9 DEF CopyItem, ringVars
  <2>2. InRing' = InRing
    BY <1>1, <2>1, RingStutters
  <2>3. item = tail /\ tail # head
    BY <1>1, <2>1 DEF IInv, ConsumerHolds
  <2>4. InRing # <<>> /\ Head(InRing) = slots[item]
    BY <1>1, <2>3, FirstInRing
  <2> QED BY <2>1, <2>2, <2>4 DEF Queue
<1>7. CASE ParseItem
  <2>1. /\ head' = head /\ tail' = tail /\ slots' = slots
        /\ consumer = "holding" /\ consumer' = "clearing"
        /\ parsed' = Append(parsed, slots[item])
    BY <1>7 DEF ParseItem, ringVars
  <2>2. InRing' = InRing
    BY <1>1, <2>1, RingStutters
  <2>3. PICK first \in Seq(Messages) : first = slots[item]
    BY <1>1
  <2>4. Queue = <<first>> \o InRing /\ Queue' = InRing
    BY <2>1, <2>2, <2>3 DEF Queue
  <2>5. /\ <<first>> \o InRing # <<>> /\ Head(<<first>> \o InRing) = first
        /\ Tail(<<first>> \o InRing) = InRing
    BY <1>2
  <2> QED BY <2>1, <2>3, <2>4, <2>5
<1>8. CASE ClearItem
  <2>1. /\ head' = head /\ tail' = tail /\ parsed' = parsed
        /\ slots' = [slots EXCEPT ![item] = <<>>]
        /\ consumer = "clearing" /\ consumer' = "idle" /\ tail = FastModulo(item + 1)
    BY <1>1, <1>8 DEF ClearItem, IInv, ConsumerHolds
  <2>2. ~Live(item)
    <3>1. tail = IF item + 1 = Capacity THEN 0 ELSE item + 1
      BY <1>1, <2>1, FastModuloNext
    <3>2. Distance(tail, item) = Capacity - 1
      BY <1>1, <3>1 DEF Distance, Slots, MessageRingAssumption
    <3>3. Distance(tail, head) \in Slots
      BY <1>1, DistanceType
    <3> QED BY <3>2, <3>3 DEF Live, Slots, MessageRingAssumption
  <2>3. InRing' = InRing
    <3>1. \A slot \in Slots : Live(slot) => slots'[slot] = slots[slot]
      BY <1>1, <2>1, <2>2
    <3> QED BY <1>1, <2>1, <3>1, RingStutters
  <2> QED BY <2>1, <2>3 DEF Queue
<1> QED BY <1>3, <1>4, <1>5, <1>6, <1>7, <1>8, <1>9 DEF Next, Push, HandleEvents

\* For every capacity, number of messages and kind the ring, with what push and
\* handleEvents hold at its two ends, is a first-in first-out queue: parser.parse
\* gets every committed message once, whole, alone and in order.
THEOREM RingImplementsFifo == Spec => ImplementsFifo
<1>1. Init => Fifo!Init
  <2> SUFFICES ASSUME Init PROVE Fifo!Init
    OBVIOUS
  <2>1. IInv /\ RingShape /\ head = 0 /\ tail = 0
    BY InitIInv, RingShaped DEF Init
  <2>2. InRing \in Seq(Seq(Messages)) /\ Len(InRing) = 0
    BY <2>1 DEF RingShape, Distance
  <2>3. InRing = <<>>
    BY <2>2, EmptySeq
  <2> QED BY <2>3 DEF Init, Fifo!Init
<1>2. QueueInv => RingShape
  BY RingShaped DEF QueueInv
<1>3. QueueInv /\ RingShape /\ RingShape' /\ [Next]_vars => [Fifo!Next]_Fifo!vars
  <2> SUFFICES ASSUME QueueInv, RingShape, RingShape', [Next]_vars
               PROVE  [Fifo!Next]_Fifo!vars
    OBVIOUS
  <2>1. CASE parsed' = parsed /\ Queue' = Queue
    BY <2>1 DEF Fifo!vars, Queue
  <2>2. CASE /\ parsed' = parsed /\ Len(Queue) < Capacity
             /\ \E m \in Messages : Queue' = Append(Queue, <<m>>)
    BY <2>2 DEF Fifo!Next, Fifo!Send, Queue
  <2>3. CASE /\ Queue # <<>> /\ Queue' = Tail(Queue)
             /\ parsed' = Append(parsed, Head(Queue))
    BY <2>3 DEF Fifo!Next, Fifo!Receive, Queue
  <2> QED BY <2>1, <2>2, <2>3, StepFifo
<1> QED BY <1>1, <1>2, <1>3, InitQueueInv, StepQueueInv, PTL
        DEF Spec, ImplementsFifo, Fifo!Spec

=============================================================================

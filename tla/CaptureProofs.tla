--------------------------- MODULE CaptureProofs ---------------------------
(***************************************************************************)
(* From the chain to the scheduler: what the capture script has captured   *)
(* is the beginning of its window, whatever the service loses, refuses or  *)
(* appends; and what the decoder makes of a capture document is what was   *)
(* encoded, for every document, however long.                              *)
(***************************************************************************)
EXTENDS CaptureTool, Replay, SequenceFacts

Transaction == [ledger: Nat, hash: Nat, status: STRING]

\* Where in the chain the next page starts.
Position == IF cursor = NoCursor THEN First(history) ELSE cursor

\* The transactions up to the ledger that was reported first all come before
\* or at this place.
Behind(place) == \A i \in 1..Len(history) : history[i].ledger <= latest => i <= place

\* A request carries the cursor the script holds, so a page that comes back,
\* however late, continues where the captured transactions end; and one that
\* is empty or has no cursor is the last one.
WireInv ==
  /\ wire.kind = "getLatestLedger" => phase = "latest"
  /\ wire.kind = "getTransactions" => phase = "page" /\ wire.cursor = cursor
  /\ phase = "page" /\ wire.kind = "result" =>
       \E n \in Nat :
         /\ Position + n <= Known
         /\ wire.transactions = SubSeq(history, Position + 1, Position + n)
         /\ wire.cursor \in {NoCursor, Position + n}
         /\ wire.cursor = NoCursor \/ n = 0 => Behind(Position + n)

Paging == {"latest", "page"}

\* The ledger reported first was known then, and nothing is on the wire when
\* the script no longer asks.
LatestInv ==
  /\ latest \in Nat /\ latest <= closed
  /\ phase = "latest" /\ wire.kind = "result" =>
       wire.sequence \in Nat /\ wire.sequence <= closed
  /\ phase \notin Paging => wire.kind = "idle"

PositionInv ==
  phase \in Paging => Position = First(history) + Len(captures)

\* The captured transactions are those of the chain from the first that is not
\* before the window, without a gap.
CapturesInv ==
  phase \in Paging \cup {"sort"} =>
    /\ captures \in Seq(Transaction)
    /\ Len(captures) <= MaxTx
    /\ Len(captures) = 0 \/ First(history) + Len(captures) <= Known
    /\ \A p \in 1..Len(captures) :
         captures[p] = history[First(history) + p] /\ InWindow(captures[p])

CaptureInv ==
  /\ IsChain(history) /\ closed \in Nat
  /\ LatestInv /\ WireInv /\ PositionInv /\ CapturesInv

\* So many captured transactions are all that were wanted or, up to the ledger
\* that was reported first, all of the window.
Complete(total) ==
  \/ total = MaxTx
  \/ \A i \in 1..Len(history) :
       i > First(history) + total =>
         ~(history[i].ledger <= latest) \/ ~InWindow(history[i])

-----------------------------------------------------------------------------
\* A set of places that has every place in front of its members is the places
\* up to its size.
LEMMA InitialSegment ==
  ASSUME NEW n \in Nat, NEW T, T \subseteq 1..n,
         \A i \in T : \A j \in 1..i : j \in T
  PROVE  Cardinality(T) \in 0..n /\ T = 1..Cardinality(T)
<1>1. \E m \in 0..n : T = 1..m
  <2>1. CASE T = 1..n
    BY <2>1
  <2>2. CASE T # 1..n
    <3> DEFINE Missing == (1..n) \ T
    <3>1. Missing # {}
      BY <2>2
    <3>1a. Missing \subseteq Nat
      OBVIOUS
    <3> HIDE DEF Missing
    <3>2. PICK m \in Missing : \A k \in Missing : m <= k
      BY <3>1, <3>1a, LeastNatural
    <3>3. m \in 1..n /\ m \notin T /\ m - 1 \in 0..n
      BY <3>2 DEF Missing
    <3>4. ASSUME NEW i \in 1..(m - 1) PROVE i \in T
      <4>1. i \in 1..n /\ ~(m <= i)
        BY <3>3
      <4> QED BY <3>2, <4>1 DEF Missing
    <3>5. ASSUME NEW i \in T PROVE i \in 1..(m - 1)
      <4>1. i \in 1..n
        OBVIOUS
      <4>2. m \notin 1..i
        BY <3>3
      <4> QED BY <3>3, <4>1, <4>2
    <3>6. T = 1..(m - 1)
      BY <3>4, <3>5
    <3> QED BY <3>3, <3>6
  <2> QED BY <2>1, <2>2
<1>2. PICK m \in 0..n : T = 1..m
  BY <1>1
<1>3. Cardinality(1..m) = m
  BY <1>2, FS_Interval
<1> QED BY <1>2, <1>3

-----------------------------------------------------------------------------
\* The parts of a chain.
LEMMA ChainTypes ==
  ASSUME IsChain(history)
  PROVE  /\ history \in Seq(Transaction)
         /\ Len(history) \in Nat /\ DOMAIN history = 1..Len(history)
         /\ \A i \in 1..Len(history) :
              history[i] \in Transaction /\ history[i].ledger \in Nat
         /\ \A i, j \in 1..Len(history) :
              i <= j => history[i].ledger <= history[j].ledger
<1>1. history \in Seq(Transaction)
  BY DEF IsChain, Transaction
<1>2. Len(history) \in Nat /\ DOMAIN history = 1..Len(history)
  BY <1>1, LenProperties
<1>3. \A i \in 1..Len(history) :
        history[i] \in Transaction /\ history[i].ledger \in Nat
  <2>1. \A t \in Transaction : t.ledger \in Nat
    BY DEF Transaction
  <2>2. \A i \in 1..Len(history) : history[i] \in Transaction
    BY <1>1, ElementOfSeq
  <2> QED BY <2>1, <2>2
<1>4. \A i, j \in 1..Len(history) : i < j => history[i].ledger <= history[j].ledger
  BY <1>2 DEF IsChain
<1>5. \A i, j \in 1..Len(history) : i <= j => history[i].ledger <= history[j].ledger
  <2> SUFFICES ASSUME NEW i \in 1..Len(history), NEW j \in 1..Len(history), i <= j
               PROVE  history[i].ledger <= history[j].ledger
    OBVIOUS
  <2>1. CASE i = j
    BY <1>3, <2>1
  <2>2. CASE i < j
    BY <1>4, <2>2
  <2> QED BY <2>1, <2>2
<1> QED BY <1>1, <1>2, <1>3, <1>5

\* The transactions before the window come first in the chain.
LEMMA FirstFacts ==
  ASSUME IsChain(history)
  PROVE  /\ First(history) \in 0..Len(history)
         /\ \A i \in 1..Len(history) :
              i <= First(history) <=> history[i].ledger < StartLedger
<1> DEFINE Before == {i \in DOMAIN history : history[i].ledger < StartLedger}
           n == Len(history)
<1>1. Before \subseteq 1..n /\ n \in Nat
  BY ChainTypes
<1>2. \A i \in Before : \A j \in 1..i : j \in Before
  <2> SUFFICES ASSUME NEW i \in Before, NEW j \in 1..i PROVE j \in Before
    OBVIOUS
  <2>1. i \in 1..n /\ j \in 1..n /\ j <= i
    BY <1>1
  <2>2. /\ history[j].ledger \in Nat /\ history[i].ledger \in Nat
        /\ history[j].ledger <= history[i].ledger
    BY <2>1, ChainTypes
  <2> QED BY <2>1, <2>2, ChainTypes, CaptureAssumption
<1>3. First(history) = Cardinality(Before)
  BY DEF First
<1>4. \A i \in 1..n : i \in Before <=> history[i].ledger < StartLedger
  BY ChainTypes
<1> HIDE DEF Before, n
<1>5. Cardinality(Before) \in 0..n /\ Before = 1..Cardinality(Before)
  BY <1>1, <1>2, InitialSegment
<1>6. \A i \in 1..n : i <= Cardinality(Before) <=> i \in Before
  BY <1>1, <1>5
<1> QED BY <1>3, <1>4, <1>5, <1>6 DEF n

\* So do those the service knows.
LEMMA KnownFacts ==
  ASSUME IsChain(history), closed \in Nat
  PROVE  /\ Known \in 0..Len(history)
         /\ \A i \in 1..Len(history) : i <= Known <=> history[i].ledger <= closed
<1> DEFINE Served == {i \in DOMAIN history : history[i].ledger <= closed}
           n == Len(history)
<1>1. Served \subseteq 1..n /\ n \in Nat
  BY ChainTypes
<1>2. \A i \in Served : \A j \in 1..i : j \in Served
  <2> SUFFICES ASSUME NEW i \in Served, NEW j \in 1..i PROVE j \in Served
    OBVIOUS
  <2>1. i \in 1..n /\ j \in 1..n /\ j <= i
    BY <1>1
  <2>2. /\ history[j].ledger \in Nat /\ history[i].ledger \in Nat
        /\ history[j].ledger <= history[i].ledger
    BY <2>1, ChainTypes
  <2> QED BY <2>1, <2>2, ChainTypes
<1>3. Known = Cardinality(Served)
  BY DEF Known
<1>4. \A i \in 1..n : i \in Served <=> history[i].ledger <= closed
  BY ChainTypes
<1> HIDE DEF Served, n
<1>5. Cardinality(Served) \in 0..n /\ Served = 1..Cardinality(Served)
  BY <1>1, <1>2, InitialSegment
<1>6. \A i \in 1..n : i <= Cardinality(Served) <=> i \in Served
  BY <1>1, <1>5
<1> QED BY <1>3, <1>4, <1>5, <1>6 DEF n

\* Among the transactions the service knows, those not behind the window.
LEMMA WindowFacts ==
  ASSUME IsChain(history), NEW k \in 0..Len(history), NEW last,
         last = Cardinality({i \in 1..k : InWindow(history[i])})
  PROVE  /\ last \in 0..k
         /\ \A i \in 1..k : i <= last <=> InWindow(history[i])
<1> DEFINE Ahead == {i \in 1..k : InWindow(history[i])}
<1>1. Ahead \subseteq 1..k /\ k \in Nat
  BY ChainTypes
<1>2. \A i \in Ahead : \A j \in 1..i : j \in Ahead
  <2> SUFFICES ASSUME NEW i \in Ahead, NEW j \in 1..i PROVE j \in Ahead
    OBVIOUS
  <2>1. /\ i \in 1..k /\ j \in 1..k /\ j <= i
        /\ i \in 1..Len(history) /\ j \in 1..Len(history)
    BY <1>1, ChainTypes
  <2>2. /\ history[j].ledger \in Nat /\ history[i].ledger \in Nat
        /\ history[j].ledger <= history[i].ledger
    BY <2>1, ChainTypes
  <2> QED BY <2>1, <2>2, CaptureAssumption DEF InWindow
<1> HIDE DEF Ahead
<1>3. Cardinality(Ahead) \in 0..k /\ Ahead = 1..Cardinality(Ahead)
  BY <1>1, <1>2, InitialSegment
<1>4. \A i \in 1..k : i <= Cardinality(Ahead) <=> i \in Ahead
  BY <1>1, <1>3
<1> QED BY <1>3, <1>4 DEF Ahead

\* What follows a transaction behind the window is behind it too.
LEMMA BehindWindow ==
  ASSUME IsChain(history), NEW i \in 1..Len(history), NEW j \in 1..Len(history),
         i <= j, ~InWindow(history[i])
  PROVE  ~InWindow(history[j])
<1>1. /\ history[i].ledger \in Nat /\ history[j].ledger \in Nat
      /\ history[i].ledger <= history[j].ledger
  BY ChainTypes
<1> QED BY <1>1, CaptureAssumption DEF InWindow

-----------------------------------------------------------------------------
\* The service forgets nothing: the chain it knows only grows.
LEMMA KnownGrows ==
  ASSUME IsChain(history), closed \in Nat,
         history' = history, closed' \in Nat, closed <= closed'
  PROVE  Known \in Nat /\ Known' \in Nat /\ Known <= Known'
<1> DEFINE Served == {i \in DOMAIN history : history[i].ledger <= closed}
           Later == {i \in DOMAIN history : history[i].ledger <= closed'}
<1>1. Known = Cardinality(Served) /\ Known' = Cardinality(Later)
  BY DEF Known
<1>2. Later \subseteq 1..Len(history) /\ Len(history) \in Nat
  BY ChainTypes
<1>3. Served \subseteq Later
  <2> SUFFICES ASSUME NEW i \in Served PROVE i \in Later
    OBVIOUS
  <2>1. i \in DOMAIN history /\ history[i].ledger \in Nat
    BY ChainTypes
  <2> QED BY <2>1
<1> HIDE DEF Served, Later
<1>4. IsFiniteSet(Later)
  <2>1. IsFiniteSet(1..Len(history))
    BY <1>2, FS_Interval
  <2> QED BY <1>2, <2>1, FS_Subset
<1>5. /\ IsFiniteSet(Served) /\ Cardinality(Served) <= Cardinality(Later)
  BY <1>3, <1>4, FS_Subset
<1>6. Cardinality(Served) \in Nat /\ Cardinality(Later) \in Nat
  BY <1>4, <1>5, FS_CardinalityType
<1> QED BY <1>1, <1>5, <1>6

\* A step that leaves the chain, the cursor and the captured transactions
\* alone, and does not go back to paging, keeps what is known of them.
LEMMA CapturedKept ==
  ASSUME CaptureInv, history' = history, captures' = captures, cursor' = cursor,
         closed' \in Nat, closed <= closed',
         phase' \in Paging => phase \in Paging,
         phase' = "sort" => phase \in Paging \cup {"sort"}
  PROVE  /\ IsChain(history') /\ PositionInv' /\ CapturesInv'
         /\ Position' = Position
         /\ Known \in Nat /\ Known' \in Nat /\ Known <= Known'
<1>1. Known \in Nat /\ Known' \in Nat /\ Known <= Known'
  BY KnownGrows DEF CaptureInv
<1>2. First(history') = First(history) /\ First(history) \in Nat
  <2>1. First(history) \in 0..Len(history) /\ Len(history) \in Nat
    BY FirstFacts, ChainTypes DEF CaptureInv
  <2> QED BY <2>1
<1>3. Position' = Position
  BY <1>2 DEF Position
<1>4. PositionInv'
  BY <1>2, <1>3 DEF CaptureInv, PositionInv
<1>5. CapturesInv'
  <2> SUFFICES ASSUME phase' \in Paging \cup {"sort"}
               PROVE  /\ captures \in Seq(Transaction)
                      /\ Len(captures) <= MaxTx
                      /\ Len(captures) = 0 \/ First(history) + Len(captures) <= Known'
                      /\ \A p \in 1..Len(captures) :
                           captures[p] = history[First(history) + p] /\ InWindow(captures[p])
    BY <1>2 DEF CapturesInv, InWindow
  <2>1. phase \in Paging \cup {"sort"}
    OBVIOUS
  <2>2. /\ captures \in Seq(Transaction)
        /\ Len(captures) <= MaxTx
        /\ Len(captures) = 0 \/ First(history) + Len(captures) <= Known
        /\ \A p \in 1..Len(captures) :
             captures[p] = history[First(history) + p] /\ InWindow(captures[p])
    BY <2>1 DEF CaptureInv, CapturesInv
  <2>3. Len(captures) \in Nat
    BY <2>2, LenProperties
  <2> QED BY <1>1, <1>2, <2>2, <2>3
<1> QED BY <1>1, <1>2, <1>3, <1>4, <1>5 DEF CaptureInv

\* While the script is paging the next page starts at a place in the chain.
LEMMA PositionType ==
  ASSUME CaptureInv, phase \in Paging
  PROVE  /\ Position \in Nat /\ First(history) \in Nat /\ Len(captures) \in Nat
         /\ Position = First(history) + Len(captures)
         /\ history \in Seq(Transaction)
<1>1. First(history) \in 0..Len(history) /\ Len(history) \in Nat
  BY FirstFacts, ChainTypes DEF CaptureInv
<1>2. captures \in Seq(Transaction) /\ Position = First(history) + Len(captures)
  BY DEF CaptureInv, CapturesInv, PositionInv
<1>3. Len(captures) \in Nat
  BY <1>2, LenProperties
<1>4. history \in Seq(Transaction)
  BY ChainTypes DEF CaptureInv
<1> QED BY <1>1, <1>2, <1>3, <1>4

\* The steps of the service.
LEMMA ServiceSteps ==
  ASSUME CaptureInv, ServeLatest \/ ServePage \/ Fault \/ CloseLedger
  PROVE  CaptureInv'
<1>1. /\ history' = history /\ captures' = captures /\ cursor' = cursor
      /\ phase' = phase /\ closed' \in Nat /\ closed <= closed'
  BY DEF CaptureInv, ServeLatest, ServePage, Fault, CloseLedger, serviceVars
<1>2. /\ IsChain(history') /\ PositionInv' /\ CapturesInv'
      /\ Position' = Position
      /\ Known \in Nat /\ Known' \in Nat /\ Known <= Known'
  BY <1>1, CapturedKept
<1>3. WireInv /\ LatestInv /\ closed \in Nat
  BY DEF CaptureInv
<1>3a. latest' = latest /\ latest' \in Nat /\ latest' <= closed'
  <2>1. latest' = latest
    BY DEF ServeLatest, ServePage, Fault, CloseLedger
  <2> QED BY <1>1, <1>3, <2>1 DEF LatestInv
<1>4. CASE ServeLatest
  <2>1. /\ phase = "latest" /\ wire'.kind = "result" /\ wire'.sequence = closed
        /\ closed' = closed
    BY <1>3, <1>4 DEF ServeLatest, WireInv, serviceVars
  <2>2. WireInv'
    BY <1>1, <2>1 DEF WireInv
  <2>3. LatestInv'
    BY <1>1, <1>3, <1>3a, <2>1 DEF LatestInv, Paging
  <2> QED BY <1>1, <1>2, <2>2, <2>3 DEF CaptureInv
<1>5. CASE Fault
  <2>1. wire'.kind \in {"busy", "error"} /\ phase \in Paging
    BY <1>3, <1>5 DEF Fault, LatestInv
  <2>2. WireInv'
    BY <2>1 DEF WireInv
  <2>3. LatestInv'
    BY <1>1, <1>3a, <2>1 DEF LatestInv
  <2> QED BY <1>1, <1>2, <2>2, <2>3 DEF CaptureInv
<1>6. CASE CloseLedger
  <2>1. wire' = wire
    BY <1>6 DEF CloseLedger
  <2>2. ASSUME phase = "page", wire.kind = "result"
        PROVE  \E n \in Nat :
                 /\ Position + n <= Known'
                 /\ wire.transactions = SubSeq(history, Position + 1, Position + n)
                 /\ wire.cursor \in {NoCursor, Position + n}
                 /\ wire.cursor = NoCursor \/ n = 0 => Behind(Position + n)
    <3>1. PICK n \in Nat :
            /\ Position + n <= Known
            /\ wire.transactions = SubSeq(history, Position + 1, Position + n)
            /\ wire.cursor \in {NoCursor, Position + n}
            /\ wire.cursor = NoCursor \/ n = 0 => Behind(Position + n)
      BY <1>3, <2>2 DEF WireInv
    <3>2. Position \in Nat
      BY <2>2, PositionType DEF Paging
    <3>3. Position + n <= Known'
      BY <1>2, <3>1, <3>2
    <3> QED BY <3>1, <3>3
  <2>3. \A place : Behind(place)' = Behind(place)
    BY <1>1, <1>3a DEF Behind
  <2>4. WireInv'
    BY <1>1, <1>2, <1>3, <2>1, <2>2, <2>3 DEF WireInv
  <2>5. LatestInv'
    <3>1. wire.sequence \in Nat /\ wire.sequence <= closed => wire.sequence <= closed'
      BY <1>1, <1>3
    <3> QED BY <1>1, <1>3, <1>3a, <2>1, <3>1 DEF LatestInv
  <2> QED BY <1>1, <1>2, <2>4, <2>5 DEF CaptureInv
<1>7. CASE ServePage
  <2>1. phase = "page" /\ wire.cursor = cursor
    BY <1>3, <1>7 DEF ServePage, WireInv
  <2>2. Position \in Nat
    BY <2>1, PositionType DEF Paging
  <2>3. Known' = Known
    BY <1>7 DEF ServePage, serviceVars, Known
  <2>4. PICK n \in 0..PageSize, next \in {NoCursor} \cup 0..Len(history) :
          /\ n <= Known - Position /\ (n = 0 => Known - Position = 0)
          /\ next \in (IF n = Known - Position THEN {NoCursor, Position + n}
                                               ELSE {Position + n})
          /\ wire' = [kind |-> "result", cursor |-> next,
                      transactions |-> SubSeq(history, Position + 1, Position + n)]
    BY <1>7, <2>1 DEF ServePage, Position
  <2>5. /\ n \in Nat /\ Position + n <= Known /\ next \in {NoCursor, Position + n}
        /\ wire'.kind = "result" /\ wire'.cursor = next
        /\ wire'.transactions = SubSeq(history, Position + 1, Position + n)
    BY <1>2, <2>2, <2>4, CaptureAssumption
  <2>6. next = NoCursor \/ n = 0 => Behind(Position + n)
    <3> SUFFICES ASSUME next = NoCursor \/ n = 0 PROVE Behind(Position + n)
      OBVIOUS
    <3>1. Position + n = Known
      BY <1>2, <1>7, <2>1, <2>2, <2>4, <2>5 DEF NoCursor
    <3>2. ASSUME NEW i \in 1..Len(history), history[i].ledger <= latest
          PROVE  i <= Known
      <4>1. history[i].ledger \in Nat
        BY ChainTypes DEF CaptureInv
      <4>2. history[i].ledger <= closed
        BY <1>3, <3>2, <4>1 DEF LatestInv
      <4> QED BY <4>2, KnownFacts DEF CaptureInv
    <3> QED BY <3>1, <3>2 DEF Behind
  <2>7. \A place : Behind(place)' = Behind(place)
    BY <1>1, <1>3a DEF Behind
  <2>8. WireInv'
    BY <1>1, <1>2, <2>3, <2>5, <2>6, <2>7 DEF WireInv
  <2>9. LatestInv'
    BY <1>1, <1>3a, <2>1 DEF LatestInv, Paging
  <2> QED BY <1>1, <1>2, <2>8, <2>9 DEF CaptureInv
<1> QED BY <1>4, <1>5, <1>6, <1>7

\* The steps of the script that leave the captured transactions alone, or no
\* longer page.
LEMMA ScriptSteps ==
  ASSUME CaptureInv,
         \/ AskLatest \/ AskPage \/ Retry \/ Abort \/ Interrupt \/ ReceiveLatest
         \/ OpenOut \/ WriteDocument \/ Report
  PROVE  CaptureInv'
<1>1. /\ history' = history /\ closed' = closed /\ captures' = captures /\ cursor' = cursor
      /\ closed \in Nat
  BY DEF CaptureInv, AskLatest, AskPage, Retry, Abort, Interrupt, ReceiveLatest, OpenOut,
         WriteDocument, Report, serviceVars
<1>2. /\ phase' \in Paging => phase \in Paging
      /\ phase' = "sort" => phase \in Paging \cup {"sort"}
  BY DEF AskLatest, AskPage, Retry, Abort, Interrupt, ReceiveLatest, OpenOut, WriteDocument,
         Report, Paging, More
<1>3. closed' \in Nat /\ closed <= closed'
  BY <1>1
<1>4. IsChain(history') /\ PositionInv' /\ CapturesInv' /\ Position' = Position
  BY <1>1, <1>2, <1>3, CapturedKept
<1>5. WireInv'
  <2>1. CASE AskLatest
    BY <2>1 DEF AskLatest, WireInv
  <2>2. CASE AskPage
    BY <1>1, <2>2 DEF AskPage, WireInv
  <2>3. CASE Retry \/ Abort \/ Interrupt \/ ReceiveLatest
    <3>1. wire'.kind = "idle"
      BY <2>3 DEF Retry, Abort, Interrupt, ReceiveLatest, Idle
    <3> QED BY <3>1 DEF WireInv
  <2>4. CASE OpenOut \/ WriteDocument \/ Report
    <3>1. wire' = wire /\ phase \notin Paging /\ phase' \notin Paging
      BY <2>4 DEF OpenOut, WriteDocument, Report, Paging
    <3>2. WireInv
      BY DEF CaptureInv
    <3> QED BY <3>1, <3>2 DEF WireInv, Paging
  <2> QED BY <2>1, <2>2, <2>3, <2>4
<1>6. LatestInv'
  <2>1. LatestInv
    BY DEF CaptureInv
  <2>2. CASE AskLatest \/ AskPage
    <3>1. latest' = latest /\ phase' = phase /\ phase \in Paging
          /\ wire'.kind \in {"getLatestLedger", "getTransactions"}
      BY <2>2 DEF AskLatest, AskPage, Paging
    <3> QED BY <1>1, <2>1, <3>1 DEF LatestInv
  <2>3. CASE Retry \/ Abort \/ Interrupt
    <3>1. latest' = latest /\ wire'.kind = "idle"
      BY <2>3 DEF Retry, Abort, Interrupt, Idle
    <3> QED BY <1>1, <2>1, <3>1 DEF LatestInv
  <2>4. CASE ReceiveLatest
    <3>1. /\ latest' = wire.sequence /\ wire'.kind = "idle"
          /\ phase = "latest" /\ wire.kind = "result"
      BY <2>4 DEF ReceiveLatest, Idle
    <3> QED BY <1>1, <2>1, <3>1 DEF LatestInv
  <2>5. CASE OpenOut \/ WriteDocument \/ Report
    <3>1. /\ latest' = latest /\ wire' = wire
          /\ phase \notin Paging /\ phase' \notin Paging
      BY <2>5 DEF OpenOut, WriteDocument, Report, Paging
    <3> QED BY <1>1, <2>1, <3>1 DEF LatestInv, Paging
  <2> QED BY <2>2, <2>3, <2>4, <2>5
<1> QED BY <1>3, <1>4, <1>5, <1>6 DEF CaptureInv

LEMMA SortStep ==
  ASSUME CaptureInv, SortCaptures
  PROVE  CaptureInv'
<1>1. /\ history' = history /\ closed' = closed /\ wire' = wire
      /\ phase = "sort" /\ phase' = "open"
  BY DEF SortCaptures, serviceVars
<1>2. PositionInv' /\ CapturesInv'
  BY <1>1 DEF PositionInv, CapturesInv, Paging
<1>3. WireInv'
  BY <1>1 DEF CaptureInv, WireInv
<1>4. LatestInv'
  <2>1. latest' = latest
    BY DEF SortCaptures
  <2> QED BY <1>1, <2>1 DEF CaptureInv, LatestInv, Paging
<1> QED BY <1>1, <1>2, <1>3, <1>4 DEF CaptureInv

\* The script takes a page: what it takes is the beginning of the page, and
\* the whole page when it goes on paging.
LEMMA TakenFacts ==
  ASSUME NEW page \in Seq(Transaction), Len(captures) \in Nat, Len(captures) <= MaxTx
  PROVE  \E m \in 0..Len(page) :
           /\ Taken(page) = SubSeq(page, 1, m)
           /\ Len(captures) + m <= MaxTx
           /\ \A i \in 1..m : InWindow(page[i])
           /\ ~OutOfWindow(page) /\ Len(captures) + m < MaxTx => m = Len(page)
           /\ \/ m = Len(page)
              \/ Len(captures) + m = MaxTx
              \/ m + 1 \in 1..Len(page) /\ ~InWindow(page[m + 1])
           /\ OutOfWindow(page) => m < Len(page)
<1> DEFINE behind == {i \in DOMAIN page : ~InWindow(page[i])}
           room == MaxTx - Len(captures)
           limits == {Len(page), room} \cup {i - 1 : i \in behind}
           m == Min(limits)
<1>1. Len(page) \in Nat /\ DOMAIN page = 1..Len(page) /\ room \in Nat
  BY LenProperties, CaptureAssumption
<1>2. Taken(page) = SubSeq(page, 1, m)
  BY DEF Taken
<1>3. \A i \in behind : i \in 1..Len(page) /\ i - 1 \in Nat
  BY <1>1
<1>4. limits \subseteq Nat /\ limits # {} /\ Len(page) \in limits /\ room \in limits
  BY <1>1, <1>3
<1>5. \A i \in behind : i - 1 \in limits
  OBVIOUS
<1>6. \A k \in limits : \/ k = Len(page) \/ k = room
                        \/ \E i \in behind : k = i - 1
  OBVIOUS
<1>7. \A i \in 1..Len(page) : i \in behind <=> ~InWindow(page[i])
  BY <1>1
<1>8. \A i \in behind : i <= room => OutOfWindow(page)
  BY DEF OutOfWindow
<1> HIDE DEF limits
<1>9. m \in limits /\ \A k \in limits : m <= k
  BY <1>4, MinLeast
<1> HIDE DEF m, behind, room
<1>10. m \in 0..Len(page) /\ m <= room
  BY <1>1, <1>4, <1>9
<1>11. Len(captures) + m <= MaxTx
  BY <1>1, <1>10, CaptureAssumption DEF room
<1>12. ASSUME NEW i \in 1..m PROVE InWindow(page[i])
  <2>1. i \in 1..Len(page) /\ ~(m <= i - 1)
    BY <1>1, <1>10
  <2> QED BY <1>5, <1>7, <1>9, <2>1
<1>13. ASSUME ~OutOfWindow(page), Len(captures) + m < MaxTx PROVE m = Len(page)
  <2>1. m < room
    BY <1>1, <1>10, <1>13, CaptureAssumption DEF room
  <2>2. ASSUME NEW i \in behind PROVE m # i - 1
    <3>1. i \in Nat /\ ~(i <= room)
      BY <1>3, <1>8, <1>13
    <3> QED BY <1>1, <2>1, <3>1
  <2>3. m # room
    BY <1>1, <1>10, <2>1
  <2> QED BY <1>6, <1>9, <2>2, <2>3
<1>14. \/ m = Len(page)
       \/ Len(captures) + m = MaxTx
       \/ m + 1 \in 1..Len(page) /\ ~InWindow(page[m + 1])
  <2>1. CASE m = room
    BY <1>1, <2>1, CaptureAssumption DEF room
  <2>2. ASSUME NEW i \in behind, m = i - 1
        PROVE  m + 1 \in 1..Len(page) /\ ~InWindow(page[m + 1])
    <3>1. i \in 1..Len(page) /\ m + 1 = i
      BY <1>1, <1>3, <2>2
    <3> QED BY <1>7, <3>1
  <2> QED BY <1>6, <1>9, <2>1, <2>2
<1>15. ASSUME OutOfWindow(page) PROVE m < Len(page)
  <2>1. PICK i \in DOMAIN page : ~InWindow(page[i])
    BY <1>15 DEF OutOfWindow
  <2>2. i \in 1..Len(page) /\ i \in behind
    BY <1>1, <1>7, <2>1
  <2>3. m <= i - 1
    BY <1>5, <1>9, <2>2
  <2> QED BY <1>1, <1>10, <2>2, <2>3
<1> QED BY <1>2, <1>10, <1>11, <1>12, <1>13, <1>14, <1>15

\* The first elements of a sequence.
LEMMA FrontOf ==
  ASSUME NEW S, NEW list, NEW m \in Nat, \A i \in 1..m : list[i] \in S
  PROVE  /\ SubSeq(list, 1, m) \in Seq(S) /\ Len(SubSeq(list, 1, m)) = m
         /\ \A i \in 1..m : SubSeq(list, 1, m)[i] = list[i]
<1>1. /\ SubSeq(list, 1, m) \in Seq(S)
      /\ Len(SubSeq(list, 1, m)) = IF 1 <= m THEN m - 1 + 1 ELSE 0
      /\ \A i \in 1..(m - 1 + 1) : SubSeq(list, 1, m)[i] = list[1 + i - 1]
  BY SubSeqProperties
<1>2. /\ m - 1 + 1 = m /\ (IF 1 <= m THEN m - 1 + 1 ELSE 0) = m
      /\ \A i \in 1..m : 1 + i - 1 = i
  OBVIOUS
<1> QED BY <1>1, <1>2

\* What a page holds, by the places of the chain.
LEMMA PageFacts ==
  ASSUME CaptureInv, phase = "page", NEW n \in Nat, Position + n <= Known,
         NEW page, page = SubSeq(history, Position + 1, Position + n)
  PROVE  /\ page \in Seq(Transaction) /\ Len(page) = n
         /\ \A i \in 1..n : page[i] = history[Position + i]
<1>1. Position \in Nat /\ history \in Seq(Transaction)
  BY PositionType DEF Paging
<1>2. Known \in 0..Len(history) /\ Len(history) \in Nat
  BY KnownFacts, ChainTypes DEF CaptureInv
<1>3. \A i \in (Position + 1)..(Position + n) : history[i] \in Transaction
  <2>1. \A i \in 1..Len(history) : history[i] \in Transaction
    BY <1>1, ElementOfSeq
  <2> QED BY <1>1, <1>2, <2>1
<1>4. Position + 1 \in Int /\ Position + n \in Int
  BY <1>1
<1>5. /\ page \in Seq(Transaction)
      /\ Len(page) = IF Position + 1 <= Position + n
                     THEN (Position + n) - (Position + 1) + 1 ELSE 0
      /\ \A i \in 1..((Position + n) - (Position + 1) + 1) :
           page[i] = history[(Position + 1) + i - 1]
  BY <1>3, <1>4, SubSeqProperties
<1>6. Len(page) = n /\ (Position + n) - (Position + 1) + 1 = n
  BY <1>1, <1>5
<1>7. \A i \in 1..n : (Position + 1) + i - 1 = Position + i
  BY <1>1
<1> QED BY <1>5, <1>6, <1>7

\* What is known of the captured transactions after a page.
LEMMA ReceivedCaptures ==
  ASSUME CaptureInv, phase = "page", NEW n \in Nat, Position + n <= Known,
         NEW page \in Seq(Transaction), Len(page) = n,
         \A i \in 1..n : page[i] = history[Position + i]
  PROVE  LET taken == captures \o Taken(page) IN
         /\ taken \in Seq(Transaction)
         /\ Len(taken) <= MaxTx
         /\ Len(taken) = 0 \/ First(history) + Len(taken) <= Known
         /\ \A p \in 1..Len(taken) :
              taken[p] = history[First(history) + p] /\ InWindow(taken[p])
         /\ ~OutOfWindow(page) /\ Len(taken) < MaxTx => Len(taken) = Len(captures) + n
         /\ OutOfWindow(page) \/ Behind(Position + n) => Complete(Len(taken))
<1> DEFINE first == First(history)
           L == Len(captures)
           taken == captures \o Taken(page)
<1>1. /\ Position \in Nat /\ first \in Nat /\ L \in Nat /\ Position = first + L
      /\ history \in Seq(Transaction)
  BY PositionType DEF Paging
<1>2. /\ captures \in Seq(Transaction) /\ L <= MaxTx
      /\ L = 0 \/ first + L <= Known
      /\ \A p \in 1..L : captures[p] = history[first + p] /\ InWindow(captures[p])
  BY DEF CaptureInv, CapturesInv, Paging
<1>3. Known \in 0..Len(history) /\ Len(history) \in Nat
  BY KnownFacts, ChainTypes DEF CaptureInv
<1> HIDE DEF first, L
<1>4. Len(page) = n /\ n \in Nat
  OBVIOUS
<1>5. PICK m \in 0..Len(page) :
        /\ Taken(page) = SubSeq(page, 1, m)
        /\ L + m <= MaxTx
        /\ \A i \in 1..m : InWindow(page[i])
        /\ ~OutOfWindow(page) /\ L + m < MaxTx => m = Len(page)
        /\ \/ m = Len(page)
           \/ L + m = MaxTx
           \/ m + 1 \in 1..Len(page) /\ ~InWindow(page[m + 1])
        /\ OutOfWindow(page) => m < Len(page)
  BY <1>1, <1>2, <1>4, TakenFacts DEF L
<1>6. m \in Nat /\ m <= n
  BY <1>4
<1>7. /\ Taken(page) \in Seq(Transaction) /\ Len(Taken(page)) = m
      /\ \A i \in 1..m : Taken(page)[i] = page[i]
  <2>1. 1..m \subseteq 1..Len(page)
    BY <1>4, <1>6
  <2>2. \A i \in 1..m : page[i] \in Transaction
    BY <2>1, ElementOfSeq
  <2>3. /\ SubSeq(page, 1, m) \in Seq(Transaction) /\ Len(SubSeq(page, 1, m)) = m
        /\ \A i \in 1..m : SubSeq(page, 1, m)[i] = page[i]
    BY <1>6, <2>2, FrontOf
  <2> QED BY <1>5, <2>3
<1>8. /\ taken \in Seq(Transaction) /\ Len(taken) = L + m
      /\ \A p \in 1..(L + m) :
           taken[p] = IF p <= L THEN captures[p] ELSE Taken(page)[p - L]
  <2> DEFINE front == Taken(page)
  <2>1. front \in Seq(Transaction) /\ Len(front) = m /\ Len(captures) = L
    BY <1>7 DEF L
  <2> HIDE DEF front
  <2>2. /\ captures \o front \in Seq(Transaction)
        /\ Len(captures \o front) = Len(captures) + Len(front)
        /\ \A p \in 1..(Len(captures) + Len(front)) :
             (captures \o front)[p] =
               IF p <= Len(captures) THEN captures[p] ELSE front[p - Len(captures)]
    BY <1>2, <2>1, ConcatProperties
  <2>3. taken = captures \o front
    BY DEF front
  <2>4. front = Taken(page)
    BY DEF front
  <2> HIDE DEF taken
  <2>5. /\ taken \in Seq(Transaction) /\ Len(taken) = L + m
        /\ \A p \in 1..(L + m) :
             taken[p] = IF p <= L THEN captures[p] ELSE front[p - L]
    BY <2>1, <2>2, <2>3
  <2> QED BY <2>4, <2>5
<1> HIDE DEF taken
<1>9. Len(taken) = 0 \/ first + Len(taken) <= Known
  BY <1>1, <1>3, <1>6, <1>8
<1>10. ASSUME NEW p \in 1..(L + m)
       PROVE  taken[p] = history[first + p] /\ InWindow(taken[p])
  <2>1. CASE p <= L
    <3>1. p \in 1..L
      BY <1>1, <1>6, <2>1
    <3>2. captures[p] = history[first + p] /\ InWindow(captures[p])
      BY <1>2, <3>1
    <3>3. taken[p] = captures[p]
      BY <1>8, <2>1
    <3> QED BY <3>2, <3>3
  <2>2. CASE ~(p <= L)
    <3>1. /\ p - L \in 1..m /\ p - L \in 1..n /\ Position + (p - L) = first + p
      BY <1>1, <1>6, <2>2
    <3>2. taken[p] = page[p - L]
      BY <1>7, <1>8, <2>2, <3>1
    <3> QED BY <1>4, <1>5, <3>1, <3>2
  <2> QED BY <2>1, <2>2
<1>11. ~OutOfWindow(page) /\ Len(taken) < MaxTx => Len(taken) = L + n
  BY <1>4, <1>5, <1>8
<1>12. /\ taken \in Seq(Transaction) /\ Len(taken) <= MaxTx
       /\ Len(taken) = 0 \/ first + Len(taken) <= Known
       /\ \A p \in 1..Len(taken) : taken[p] = history[first + p] /\ InWindow(taken[p])
       /\ ~OutOfWindow(page) /\ Len(taken) < MaxTx => Len(taken) = L + n
  BY <1>5, <1>8, <1>9, <1>10, <1>11
<1>13. ASSUME OutOfWindow(page) \/ Behind(Position + n) PROVE Complete(Len(taken))
  <2>1. CASE L + m = MaxTx
    BY <1>8, <2>1 DEF Complete
  <2>2. CASE m = Len(page)
    <3>1. Behind(Position + n) /\ m = n
      BY <1>4, <1>5, <1>13, <2>2
    <3>2. first + Len(taken) = Position + n
      BY <1>1, <1>4, <1>8, <3>1
    <3>3. ASSUME NEW i \in 1..Len(history), i > first + Len(taken)
          PROVE  ~(history[i].ledger <= latest)
      <4>1. ~(i <= Position + n)
        BY <1>1, <1>4, <3>2, <3>3
      <4> QED BY <3>1, <4>1 DEF Behind
    <3> QED BY <3>3 DEF Complete, first
  <2>3. CASE m + 1 \in 1..Len(page) /\ ~InWindow(page[m + 1])
    <3>1. /\ m + 1 \in 1..n /\ Position + (m + 1) \in 1..Len(history)
          /\ Position + (m + 1) = first + Len(taken) + 1
      BY <1>1, <1>3, <1>4, <1>6, <1>8, <2>3
    <3>2. ~InWindow(history[Position + (m + 1)])
      BY <2>3, <3>1
    <3>3. ASSUME NEW i \in 1..Len(history), i > first + Len(taken)
          PROVE  ~InWindow(history[i])
      <4>1. Position + (m + 1) <= i
        BY <1>1, <1>6, <1>8, <3>1, <3>3
      <4> QED BY <3>1, <3>2, <4>1, BehindWindow DEF CaptureInv
    <3> QED BY <3>3 DEF Complete, first
  <2> QED BY <1>5, <2>1, <2>2, <2>3
<1> QED BY <1>12, <1>13 DEF taken, first, L

\* When paging has ended, what was captured is complete.
EndedPaging == phase = "sort" => Complete(Len(captures))

\* When the script asks for another page, it has taken all of this one and the
\* cursor is behind it.
LEMMA ReceiveStep ==
  ASSUME CaptureInv, ReceivePage
  PROVE  CaptureInv' /\ EndedPaging'
<1> DEFINE page == wire.transactions
           taken == captures \o Taken(page)
           stop == OutOfWindow(page) \/ LastPage(wire.cursor)
<1>1. /\ phase = "page" /\ wire.kind = "result" /\ captures' = taken
      /\ cursor' = IF stop THEN cursor ELSE wire.cursor
      /\ phase' = IF ~stop /\ More(taken) THEN "page" ELSE "sort"
      /\ history' = history /\ closed' = closed /\ wire'.kind = "idle"
  BY DEF ReceivePage, serviceVars, Idle
<1>2. PICK n \in Nat :
        /\ Position + n <= Known
        /\ page = SubSeq(history, Position + 1, Position + n)
        /\ wire.cursor \in {NoCursor, Position + n}
        /\ wire.cursor = NoCursor \/ n = 0 => Behind(Position + n)
  BY <1>1 DEF CaptureInv, WireInv
<1>3. /\ Position \in Nat /\ First(history) \in Nat /\ Len(captures) \in Nat
      /\ Position = First(history) + Len(captures)
  BY <1>1, PositionType DEF Paging
<1> HIDE DEF page
<1>4. /\ taken \in Seq(Transaction)
      /\ Len(taken) <= MaxTx
      /\ Len(taken) = 0 \/ First(history) + Len(taken) <= Known
      /\ \A p \in 1..Len(taken) :
           taken[p] = history[First(history) + p] /\ InWindow(taken[p])
      /\ ~OutOfWindow(page) /\ Len(taken) < MaxTx => Len(taken) = Len(captures) + n
      /\ OutOfWindow(page) \/ Behind(Position + n) => Complete(Len(taken))
  <2>1. /\ page \in Seq(Transaction) /\ Len(page) = n
        /\ \A i \in 1..n : page[i] = history[Position + i]
    BY <1>1, <1>2, PageFacts
  <2> QED BY <1>1, <1>2, <2>1, ReceivedCaptures
<1>5. First(history') = First(history) /\ Known' = Known
  BY <1>1 DEF Known
<1> HIDE DEF taken
<1>6. CapturesInv'
  BY <1>1, <1>4, <1>5 DEF CapturesInv, InWindow
<1>7. WireInv'
  BY <1>1 DEF WireInv
<1>8. PositionInv'
  <2> SUFFICES ASSUME phase' \in Paging PROVE Position' = First(history) + Len(taken)
    BY <1>1, <1>5 DEF PositionInv
  <2>1. ~stop /\ More(taken)
    BY <1>1 DEF Paging
  <2>2. cursor' = Position + n /\ wire.cursor # NoCursor
    BY <1>1, <1>2, <2>1 DEF LastPage
  <2>3. Position' = Position + n
    BY <1>2, <2>2 DEF Position
  <2>4. Len(taken) = Len(captures) + n
    BY <1>4, <2>1 DEF More
  <2> QED BY <1>3, <2>3, <2>4
<1>9. LatestInv' /\ latest' = latest
  <2>1. latest' = latest
    BY DEF ReceivePage
  <2> QED BY <1>1, <2>1 DEF CaptureInv, LatestInv
<1>10. EndedPaging'
  <2> SUFFICES ASSUME phase' = "sort" PROVE Complete(Len(taken))
    <3>1. \A total : Complete(total)' = Complete(total)
      BY <1>1, <1>5, <1>9 DEF Complete, InWindow
    <3>2. Len(captures)' = Len(taken)
      BY <1>1
    <3> QED BY <3>1, <3>2 DEF EndedPaging
  <2>1. CASE ~More(taken)
    <3>1. Len(taken) \in Nat
      BY <1>4, LenProperties
    <3>2. Len(taken) = MaxTx
      BY <1>4, <2>1, <3>1, CaptureAssumption DEF More
    <3> QED BY <3>2 DEF Complete
  <2>2. CASE stop
    <3>1. CASE OutOfWindow(page)
      BY <1>4, <3>1
    <3>2. CASE LastPage(wire.cursor)
      <4>1. wire.cursor = NoCursor \/ n = 0
        <5>1. CASE wire.cursor # NoCursor
          <6>1. wire.cursor = cursor /\ wire.cursor = Position + n
            BY <1>2, <3>2, <5>1 DEF LastPage
          <6>2. Position = cursor
            BY <5>1, <6>1 DEF Position
          <6> QED BY <1>3, <6>1, <6>2
        <5> QED BY <5>1
      <4> QED BY <1>2, <1>4, <4>1
    <3> QED BY <2>2, <3>1, <3>2
  <2> QED BY <1>1, <2>1, <2>2
<1> QED BY <1>1, <1>6, <1>7, <1>8, <1>9, <1>10 DEF CaptureInv

-----------------------------------------------------------------------------
LEMMA CaptureStarts == Init => CaptureInv
<1> SUFFICES ASSUME Init PROVE CaptureInv
  OBVIOUS
<1>1. /\ IsChain(history) /\ closed \in Nat /\ wire.kind = "idle" /\ phase = "latest"
      /\ captures = <<>> /\ cursor = NoCursor /\ latest = 0
  BY CaptureAssumption DEF Init, Idle
<1>2. First(history) \in Nat
  <2>1. First(history) \in 0..Len(history) /\ Len(history) \in Nat
    BY <1>1, FirstFacts, ChainTypes
  <2> QED BY <2>1
<1>3. /\ captures \in Seq(Transaction) /\ Len(captures) = 0
      /\ 1..Len(captures) = {}
  BY <1>1, EmptySeq
<1>4. WireInv
  BY <1>1 DEF WireInv
<1>5. PositionInv
  BY <1>1, <1>2, <1>3 DEF PositionInv, Position
<1>6. CapturesInv
  BY <1>3, CaptureAssumption DEF CapturesInv
<1>7. LatestInv
  BY <1>1 DEF LatestInv, Paging
<1> QED BY <1>1, <1>4, <1>5, <1>6, <1>7 DEF CaptureInv

LEMMA CaptureSteps == CaptureInv /\ [Next]_vars => CaptureInv'
<1> SUFFICES ASSUME CaptureInv, [Next]_vars PROVE CaptureInv'
  OBVIOUS
<1>1. CASE ServeLatest \/ ServePage \/ Fault \/ CloseLedger
  BY <1>1, ServiceSteps
<1>2. CASE \/ AskLatest \/ AskPage \/ Retry \/ Abort \/ Interrupt \/ ReceiveLatest
           \/ OpenOut \/ WriteDocument \/ Report
  BY <1>2, ScriptSteps
<1>3. CASE SortCaptures
  BY <1>3, SortStep
<1>4. CASE ReceivePage
  BY <1>4, ReceiveStep
<1>5. CASE UNCHANGED vars
  <2>1. /\ history' = history /\ closed' = closed /\ wire' = wire /\ phase' = phase
        /\ captures' = captures /\ cursor' = cursor /\ latest' = latest
    BY <1>5 DEF vars
  <2>2. First(history') = First(history) /\ Known' = Known /\ Position' = Position
    BY <2>1 DEF Known, Position
  <2>3. WireInv' /\ LatestInv'
    BY <2>1, <2>2 DEF CaptureInv, WireInv, LatestInv, Behind
  <2>4. PositionInv' /\ CapturesInv'
    BY <2>1, <2>2 DEF CaptureInv, PositionInv, CapturesInv, InWindow
  <2> QED BY <2>1, <2>3, <2>4 DEF CaptureInv
<1> QED BY <1>1, <1>2, <1>3, <1>4, <1>5 DEF Next, Tool, Answer

\* The beginning of the window, by the places of the chain.
LEMMA CaptureGivesPrefix == CaptureInv => CapturedPrefix
<1> SUFFICES ASSUME CaptureInv, phase \in Paging \cup {"sort"}
             PROVE  Len(captures) <= MaxTx /\ IsPrefix(captures, Window(Known))
  BY DEF CapturedPrefix, Paging
<1> DEFINE first == First(history)
           L == Len(captures)
           last == Cardinality({i \in 1..Known : InWindow(history[i])})
           window == SubSeq(history, first + 1, last)
<1>1. /\ captures \in Seq(Transaction) /\ L <= MaxTx
      /\ L = 0 \/ first + L <= Known
      /\ \A p \in 1..L : captures[p] = history[first + p] /\ InWindow(captures[p])
  BY DEF CaptureInv, CapturesInv
<1>2. /\ L \in Nat /\ first \in Nat /\ Known \in 0..Len(history) /\ Len(history) \in Nat
      /\ \A i \in 1..Len(history) : history[i] \in Transaction
  <2>1. first \in 0..Len(history) /\ Known \in 0..Len(history)
    BY FirstFacts, KnownFacts DEF CaptureInv
  <2>2. L \in Nat
    BY <1>1, LenProperties
  <2> QED BY <2>1, <2>2, ChainTypes DEF CaptureInv
<1>3. /\ last \in 0..Known
      /\ \A i \in 1..Known : i <= last <=> InWindow(history[i])
  BY <1>2, WindowFacts DEF CaptureInv
<1>4. Window(Known) = window
  BY DEF Window
<1> HIDE DEF first, L, last
<1>5. /\ window \in Seq(Transaction)
      /\ Len(window) = IF first + 1 <= last THEN last - (first + 1) + 1 ELSE 0
      /\ \A p \in 1..(last - (first + 1) + 1) : window[p] = history[(first + 1) + p - 1]
  <2>1. \A i \in (first + 1)..last : history[i] \in Transaction
    BY <1>2, <1>3
  <2>2. first + 1 \in Int /\ last \in Int
    BY <1>2, <1>3
  <2> QED BY <2>1, <2>2, SubSeqProperties
<1>6. CASE L = 0
  <2>1. captures = <<>>
    BY <1>1, <1>6, EmptySeq DEF L
  <2>2. SubSeq(captures, 1, 0) = <<>> /\ SubSeq(window, 1, 0) = <<>>
    BY SubSeqEmpty
  <2>3. 0 <= Len(window)
    BY <1>2, <1>3, <1>5
  <2> QED BY <1>1, <1>4, <1>6, <2>2, <2>3 DEF IsPrefix, L
<1>7. CASE L # 0
  <2>1. /\ L \in 1..L /\ first + L \in 1..Known
    BY <1>1, <1>2, <1>7
  <2>2. first + L <= last
    <3>1. InWindow(history[first + L])
      BY <1>1, <2>1
    <3> QED BY <1>3, <2>1, <3>1
  <2>3. L <= Len(window) /\ Len(window) = last - (first + 1) + 1
    BY <1>2, <1>3, <1>5, <2>1, <2>2
  <2>4. ASSUME NEW p \in 1..L PROVE window[p] = captures[p]
    <3>1. p \in 1..(last - (first + 1) + 1) /\ (first + 1) + p - 1 = first + p
      BY <1>2, <1>3, <2>3
    <3> QED BY <1>1, <1>5, <3>1
  <2> HIDE DEF window
  <2>5. SubSeq(window, 1, L) = captures
    <3> DEFINE front == SubSeq(window, 1, L)
    <3>1. \A p \in 1..L : captures[p] \in Transaction
      BY <1>1, ElementOfSeq DEF L
    <3>2. \A p \in 1..L : window[p] \in Transaction
      BY <2>4, <3>1
    <3>3. /\ front \in Seq(Transaction) /\ Len(front) = L
          /\ \A p \in 1..L : front[p] = window[p]
      BY <1>2, <3>2, FrontOf
    <3> HIDE DEF front
    <3>5. \A p \in 1..L : front[p] = captures[p]
      BY <2>4, <3>3
    <3>6. front = captures
      BY <1>1, <3>3, <3>5, SeqEqual DEF L
    <3> QED BY <3>6 DEF front
  <2>6. SubSeq(captures, 1, L) = captures
    BY <1>1, SubSeqFull DEF L
  <2> QED BY <1>1, <1>4, <2>3, <2>5, <2>6 DEF IsPrefix, L
<1> QED BY <1>6, <1>7

\* Whatever the service loses, refuses or appends meanwhile, the script has
\* captured the beginning of the window: nothing twice, nothing skipped,
\* nothing from outside.
THEOREM PagesArePrefix == Spec => []CapturedPrefix
<1>1. Spec => []CaptureInv
  BY CaptureStarts, CaptureSteps, PTL DEF Spec
<1> QED BY <1>1, CaptureGivesPrefix, PTL

-----------------------------------------------------------------------------
\* What is to be written: the transactions of the chain from the first that is
\* not before the window, each once, all in the window, and complete.
Held(list) ==
  /\ list \in Seq(Transaction)
  /\ Len(list) <= MaxTx
  /\ Len(list) = 0 \/ First(history) + Len(list) <= Len(history)
  /\ ToSet(list) = {history[First(history) + p] : p \in 1..Len(list)}
  /\ \A p \in 1..Len(list) : InWindow(history[First(history) + p])
  /\ \A p, q \in DOMAIN list : list[p] = list[q] => p = q
  /\ Complete(Len(list))

Sorted == {"open", "written", "reported"}

\* From the end of paging to the end of the script, however it ends: what is
\* held stays what it is, and the file is opened for nothing else.
DocumentInv ==
  /\ EndedPaging
  /\ phase \in Sorted \/ out.is # "old" => Held(captures) /\ InOrder(captures)
  /\ phase \in Paging \cup {"sort"} => out.is = "old"
  /\ phase \in {"written", "reported"} => out.is = "whole"
  /\ out.is = "whole" => out.doc = Document

\* No transaction is twice in a chain.
LEMMA ChainDistinct ==
  ASSUME IsChain(history), NEW i \in 1..Len(history), NEW j \in 1..Len(history),
         history[i] = history[j]
  PROVE  i = j
<1>1. DOMAIN history = 1..Len(history) /\ Len(history) \in Nat
  BY ChainTypes
<1>2. ~(i < j) /\ ~(j < i)
  BY <1>1 DEF IsChain
<1> QED BY <1>1, <1>2

\* The captured transactions can be written when paging has ended.
LEMMA HeldAtEnd ==
  ASSUME CaptureInv, EndedPaging, phase = "sort"
  PROVE  Held(captures)
<1> DEFINE first == First(history)
           L == Len(captures)
<1>1. /\ captures \in Seq(Transaction) /\ L <= MaxTx
      /\ L = 0 \/ first + L <= Known
      /\ \A p \in 1..L : captures[p] = history[first + p] /\ InWindow(captures[p])
      /\ Complete(L)
  BY DEF CaptureInv, CapturesInv, EndedPaging
<1>2. /\ Known \in 0..Len(history) /\ first \in 0..Len(history) /\ Len(history) \in Nat
  BY KnownFacts, FirstFacts, ChainTypes DEF CaptureInv
<1>3. L \in Nat /\ DOMAIN captures = 1..L
  BY <1>1, LenProperties
<1> HIDE DEF first
<1>4. L = 0 \/ first + L <= Len(history)
  BY <1>1, <1>2, <1>3
<1>5. ToSet(captures) = {history[first + p] : p \in 1..L}
  <2>1. \A e : e \in ToSet(captures) <=> \E p \in 1..L : captures[p] = e
    BY <1>1, ToSetMember
  <2> QED BY <1>1, <2>1
<1>6. ASSUME NEW p \in 1..L, NEW q \in 1..L, captures[p] = captures[q]
      PROVE  p = q
  <2>1. /\ first + p \in 1..Len(history) /\ first + q \in 1..Len(history)
        /\ history[first + p] = history[first + q]
    BY <1>1, <1>2, <1>3, <1>4, <1>6
  <2>2. first + p = first + q
    BY <2>1, ChainDistinct DEF CaptureInv
  <2> QED BY <1>2, <2>2
<1> HIDE DEF L
<1> QED BY <1>1, <1>3, <1>4, <1>5, <1>6 DEF Held, first, L

\* Sorting neither loses nor adds a transaction.
LEMMA HeldRearranged ==
  ASSUME Held(captures), NEW list \in Rearranged(captures)
  PROVE  Held(list)
<1> DEFINE n == Len(captures)
<1>1. /\ captures \in Seq(Transaction) /\ n \in Nat /\ DOMAIN captures = 1..n
      /\ captures \in [1..n -> Transaction]
  BY LenProperties DEF Held
<1>2. PICK p \in Bijection(1..n, 1..n) : list = [i \in 1..n |-> captures[p[i]]]
  BY <1>1 DEF Rearranged
<1>3. /\ p \in [1..n -> 1..n]
      /\ \A i, j \in 1..n : p[i] = p[j] => i = j
      /\ \A k \in 1..n : \E i \in 1..n : p[i] = k
  BY <1>2 DEF Bijection, Injection, Surjection, IsInjective
<1> HIDE DEF n
<1>4. list \in [1..n -> Transaction]
  BY <1>1, <1>2, <1>3
<1>5. list \in Seq(Transaction)
  BY <1>1, <1>4, IsASeq
<1>6. Len(list) = n /\ DOMAIN list = 1..n
  BY <1>1, <1>4, <1>5, LenProperties
<1>7. ToSet(list) = ToSet(captures)
  <2>1. \A e : e \in ToSet(list) <=> \E i \in 1..n : captures[p[i]] = e
    <3>1. \A e : e \in ToSet(list) <=> \E i \in 1..n : list[i] = e
      BY <1>5, <1>6, ToSetMember
    <3>2. \A i \in 1..n : list[i] = captures[p[i]]
      BY <1>2
    <3> QED BY <3>1, <3>2
  <2>2. \A e : e \in ToSet(captures) <=> \E i \in 1..n : captures[i] = e
    BY <1>1, ToSetMember DEF n
  <2>3. \A e : (\E i \in 1..n : captures[p[i]] = e) <=> \E i \in 1..n : captures[i] = e
    BY <1>3
  <2> QED BY <2>1, <2>2, <2>3
<1>8. ASSUME NEW i \in 1..n, NEW j \in 1..n, list[i] = list[j] PROVE i = j
  <2>1. p[i] \in 1..n /\ p[j] \in 1..n /\ captures[p[i]] = captures[p[j]]
    BY <1>2, <1>3, <1>8
  <2>2. p[i] = p[j]
    BY <1>1, <2>1 DEF Held
  <2> QED BY <1>3, <2>2
<1> QED BY <1>5, <1>6, <1>7, <1>8 DEF Held, n

\* A step that leaves the chain and the reported ledger alone changes nothing
\* about what may be written.
LEMMA HeldKept ==
  ASSUME history' = history, latest' = latest
  PROVE  /\ \A total : Complete(total)' = Complete(total)
         /\ \A list : Held(list)' = Held(list)
<1>1. \A total : Complete(total)' = Complete(total)
  BY DEF Complete, InWindow
<1>2. \A list : Held(list)' = Held(list)
  BY <1>1 DEF Held, InWindow
<1> QED BY <1>1, <1>2

LEMMA DocumentStarts == Init => DocumentInv
<1>1. Init => out.is = "old" /\ phase = "latest"
  BY DEF Init
<1> QED BY <1>1 DEF DocumentInv, EndedPaging, Sorted, Paging

LEMMA DocumentSteps == CaptureInv /\ DocumentInv /\ [Next]_vars => DocumentInv'
<1> SUFFICES ASSUME CaptureInv, DocumentInv, [Next]_vars PROVE DocumentInv'
  OBVIOUS
<1>1. CASE \/ AskLatest \/ AskPage \/ Retry
           \/ ServeLatest \/ ServePage \/ Fault \/ CloseLedger \/ UNCHANGED vars
  <2>1. /\ history' = history /\ latest' = latest /\ captures' = captures
        /\ phase' = phase /\ out' = out
    BY <1>1 DEF AskLatest, AskPage, Retry, ServeLatest, ServePage, Fault, CloseLedger,
                serviceVars, vars
  <2>2. EndedPaging'
    BY <2>1, HeldKept DEF DocumentInv, EndedPaging
  <2>3. phase' \in Sorted \/ out'.is # "old" => Held(captures)' /\ InOrder(captures)'
    BY <2>1, HeldKept DEF DocumentInv, InOrder
  <2>4. Document' = Document
    BY <2>1 DEF Document, Count
  <2> QED BY <2>1, <2>2, <2>3, <2>4 DEF DocumentInv
<1>7. CASE Interrupt
  <2>1. /\ phase' = "aborted" /\ out' = out
        /\ history' = history /\ latest' = latest /\ captures' = captures
    BY <1>7 DEF Interrupt, serviceVars
  <2>2. out'.is # "old" => Held(captures)' /\ InOrder(captures)'
    BY <2>1, HeldKept DEF DocumentInv, InOrder
  <2>3. Document' = Document
    BY <2>1 DEF Document, Count
  <2> QED BY <2>1, <2>2, <2>3 DEF DocumentInv, EndedPaging, Sorted, Paging
<1>2. CASE Abort
  <2>1. phase' = "aborted" /\ out' = out /\ wire.kind # "idle"
    BY <1>2 DEF Abort
  <2>2. phase \in Paging
    BY <2>1 DEF CaptureInv, LatestInv
  <2>3. out.is = "old"
    BY <2>2 DEF DocumentInv
  <2> QED BY <2>1, <2>3 DEF DocumentInv, EndedPaging, Sorted, Paging
<1>3. CASE ReceiveLatest
  <2>1. /\ phase = "latest" /\ captures' = captures /\ out' = out
        /\ phase' = IF More(captures) THEN "page" ELSE "sort"
    BY <1>3 DEF ReceiveLatest
  <2>2. out.is = "old"
    BY <2>1 DEF DocumentInv, Paging
  <2>3. EndedPaging'
    <3> SUFFICES ASSUME ~More(captures) PROVE Len(captures) = MaxTx
      BY <2>1 DEF EndedPaging, Complete
    <3>1. captures \in Seq(Transaction) /\ Len(captures) <= MaxTx
      BY <2>1 DEF CaptureInv, CapturesInv, Paging
    <3>2. Len(captures) \in Nat
      BY <3>1, LenProperties
    <3> QED BY <3>1, <3>2, CaptureAssumption DEF More
  <2> QED BY <2>1, <2>2, <2>3 DEF DocumentInv, Sorted
<1>4. CASE ReceivePage
  <2>1. phase = "page" /\ out' = out /\ phase' \in {"page", "sort"}
    BY <1>4 DEF ReceivePage
  <2>2. out.is = "old"
    BY <2>1 DEF DocumentInv, Paging
  <2>3. EndedPaging'
    BY <1>4, ReceiveStep
  <2> QED BY <2>1, <2>2, <2>3 DEF DocumentInv, Sorted
<1>5. CASE SortCaptures
  <2>1. /\ history' = history /\ latest' = latest /\ out' = out
        /\ phase = "sort" /\ phase' = "open"
        /\ captures' \in Rearranged(captures) /\ InOrder(captures')
    BY <1>5 DEF SortCaptures, serviceVars
  <2>2. Held(captures)
    BY <2>1, HeldAtEnd DEF DocumentInv
  <2>3. Held(captures)'
    <3>1. \A list \in Rearranged(captures) : Held(list)
      BY <2>2, HeldRearranged
    <3>2. Held(captures')
      BY <2>1, <3>1
    <3> QED BY <2>1, <3>2 DEF Held, Complete, InWindow
  <2>4. InOrder(captures)'
    BY <2>1 DEF InOrder
  <2> QED BY <2>1, <2>3, <2>4 DEF DocumentInv, EndedPaging, Paging
<1>6. CASE OpenOut \/ WriteDocument \/ Report
  <2>1. /\ history' = history /\ latest' = latest /\ captures' = captures
        /\ phase \in Sorted /\ phase' \notin Paging \cup {"sort"}
    BY <1>6 DEF OpenOut, WriteDocument, Report, serviceVars, Sorted, Paging
  <2>2. EndedPaging'
    BY <2>1 DEF EndedPaging
  <2>3. Held(captures)' /\ InOrder(captures)'
    BY <2>1, HeldKept DEF DocumentInv, InOrder
  <2>4. Document' = Document
    BY <2>1 DEF Document, Count
  <2>5. CASE OpenOut
    <3>1. phase' = "open" /\ out'.is = "partial"
      BY <2>5 DEF OpenOut
    <3> QED BY <2>1, <2>2, <2>3, <3>1 DEF DocumentInv
  <2>6. CASE WriteDocument
    <3>1. phase' = "written" /\ out' = [is |-> "whole", doc |-> Document]
      BY <2>6 DEF WriteDocument
    <3> QED BY <2>1, <2>2, <2>3, <2>4, <3>1 DEF DocumentInv
  <2>7. CASE Report
    <3>1. phase = "written" /\ out' = out /\ phase' \in {"aborted", "reported"}
      BY <2>7 DEF Report
    <3>2. out.is = "whole" /\ out.doc = Document
      BY <3>1 DEF DocumentInv
    <3>3. out'.is = "whole" /\ out'.doc = Document'
      <4>1. out'.is = "whole" /\ out'.doc = Document
        BY <3>1, <3>2
      <4> QED BY <2>4, <4>1
    <3> QED BY <2>1, <2>2, <2>3, <3>1, <3>3 DEF DocumentInv
  <2> QED BY <1>6, <2>5, <2>6, <2>7
<1> QED BY <1>1, <1>2, <1>3, <1>4, <1>5, <1>6, <1>7 DEF Next, Tool, Answer

\* The window, by the places of the chain.
LEMMA WindowPlaces ==
  ASSUME IsChain(history), NEW k \in 0..Len(history)
  PROVE  /\ Window(k) \in Seq(Transaction)
         /\ \A p \in 1..Len(Window(k)) :
              /\ First(history) + p \in 1..k
              /\ Window(k)[p] = history[First(history) + p]
              /\ InWindow(history[First(history) + p])
         /\ \A p \in Nat \ {0} :
              First(history) + p \in 1..k /\ InWindow(history[First(history) + p])
                => p <= Len(Window(k))
<1> DEFINE first == First(history)
           last == Cardinality({i \in 1..k : InWindow(history[i])})
           window == SubSeq(history, first + 1, last)
<1>1. /\ first \in Nat /\ k \in Nat /\ k <= Len(history) /\ Len(history) \in Nat
      /\ \A i \in 1..Len(history) : history[i] \in Transaction
  <2>1. first \in 0..Len(history)
    BY FirstFacts
  <2> QED BY <2>1, ChainTypes
<1>2. /\ last \in 0..k
      /\ \A i \in 1..k : i <= last <=> InWindow(history[i])
  BY WindowFacts
<1>3. Window(k) = window
  BY DEF Window
<1> HIDE DEF first, last
<1>4. /\ window \in Seq(Transaction)
      /\ Len(window) = IF first + 1 <= last THEN last - (first + 1) + 1 ELSE 0
      /\ \A p \in 1..(last - (first + 1) + 1) : window[p] = history[(first + 1) + p - 1]
  <2>1. \A i \in (first + 1)..last : history[i] \in Transaction
    BY <1>1, <1>2
  <2>2. first + 1 \in Int /\ last \in Int
    BY <1>1, <1>2
  <2> QED BY <2>1, <2>2, SubSeqProperties
<1> HIDE DEF window
<1>5. ASSUME NEW p \in 1..Len(window)
      PROVE  first + p \in 1..k /\ window[p] = history[first + p] /\ InWindow(history[first + p])
  <2>1. /\ p \in 1..(last - (first + 1) + 1) /\ (first + 1) + p - 1 = first + p
        /\ first + p \in 1..k /\ first + p <= last
    BY <1>1, <1>2, <1>4
  <2> QED BY <1>2, <1>4, <2>1
<1>6. ASSUME NEW p \in Nat \ {0}, first + p \in 1..k, InWindow(history[first + p])
      PROVE  p <= Len(window)
  <2>1. first + p <= last
    BY <1>2, <1>6
  <2> QED BY <1>1, <1>2, <1>4, <2>1
<1> QED BY <1>3, <1>4, <1>5, <1>6 DEF first

\* What is held is the beginning of the window in the end, and holds what of
\* it was known when the latest ledger was reported.
LEMMA HeldIsWindow ==
  ASSUME IsChain(history), Held(captures), latest \in Nat
  PROVE  LET total  == Len(captures)
             window == Window(Len(history))
         IN /\ ToSet(captures) = ToSet(SubSeq(window, 1, total))
            /\ \/ total = MaxTx
               \/ {t \in ToSet(window) : t.ledger <= latest} \subseteq ToSet(captures)
<1> DEFINE first == First(history)
           n == Len(history)
           total == Len(captures)
           window == Window(n)
<1>1. first \in Nat /\ n \in Nat
  <2>1. first \in 0..n
    BY FirstFacts
  <2> QED BY <2>1, ChainTypes
<1>2. total \in Nat /\ captures \in Seq(Transaction)
  BY LenProperties DEF Held
<1>3. /\ total = 0 \/ first + total <= n
      /\ ToSet(captures) = {history[first + p] : p \in 1..total}
      /\ \A p \in 1..total : InWindow(history[first + p])
      /\ Complete(total)
  BY DEF Held
<1>4. /\ window \in Seq(Transaction)
      /\ \A p \in 1..Len(window) :
           first + p \in 1..n /\ window[p] = history[first + p] /\ InWindow(history[first + p])
      /\ \A p \in Nat \ {0} :
           first + p \in 1..n /\ InWindow(history[first + p]) => p <= Len(window)
  <2>1. n \in 0..n
    BY <1>1
  <2> QED BY <2>1, WindowPlaces
<1>5. Len(window) \in Nat
  BY <1>4, LenProperties
<1>6. Complete(total) =>
        \/ total = MaxTx
        \/ \A i \in 1..n : i > first + total =>
             ~(history[i].ledger <= latest) \/ ~InWindow(history[i])
  BY DEF Complete
<1> HIDE DEF first, n, total, window
<1>7. \A p \in 1..total : p \in 1..Len(window) /\ window[p] = history[first + p]
  <2> SUFFICES ASSUME NEW p \in 1..total
               PROVE  p \in 1..Len(window) /\ window[p] = history[first + p]
    OBVIOUS
  <2>1. p \in Nat \ {0} /\ first + p \in 1..n
    BY <1>1, <1>2, <1>3
  <2>2. p \in 1..Len(window)
    BY <1>3, <1>4, <1>5, <2>1
  <2> QED BY <1>4, <2>2
<1>8. ToSet(captures) = ToSet(SubSeq(window, 1, total))
  <2> DEFINE front == SubSeq(window, 1, total)
  <2>1. \A p \in 1..total : window[p] \in Transaction
    BY <1>4, <1>7, ElementOfSeq
  <2>2. /\ front \in Seq(Transaction) /\ Len(front) = total
        /\ \A p \in 1..total : front[p] = window[p]
    BY <1>2, <2>1, FrontOf
  <2> HIDE DEF front
  <2>3. \A e : e \in ToSet(front) <=> \E p \in 1..total : front[p] = e
    BY <2>2, ToSetMember
  <2>4. \A p \in 1..total : front[p] = history[first + p]
    BY <1>7, <2>2
  <2>5. ToSet(captures) = ToSet(front)
    BY <1>3, <2>3, <2>4
  <2> QED BY <2>5 DEF front
<1>9. ASSUME total # MaxTx, NEW t \in ToSet(window), t.ledger <= latest
      PROVE  t \in ToSet(captures)
  <2>1. PICK p \in 1..Len(window) : window[p] = t
    BY <1>4, ToSetMember
  <2>2. first + p \in 1..n /\ t = history[first + p] /\ InWindow(history[first + p])
    BY <1>4, <2>1
  <2>3. ~(first + p > first + total)
    BY <1>3, <1>6, <1>9, <2>2
  <2>4. p \in 1..total
    BY <1>1, <1>2, <1>5, <2>3
  <2> QED BY <1>3, <2>2, <2>4
<1> QED BY <1>8, <1>9 DEF window, total, n

\* No more transactions are counted as successful and as failed than there are.
LEMMA CountsFit ==
  ASSUME captures \in Seq(Transaction)
  PROVE  Count("SUCCESS") + Count("FAILED") <= Len(captures)
<1> DEFINE Of(status) == {i \in DOMAIN captures : captures[i].status = status}
           n == Len(captures)
<1>1. n \in Nat /\ DOMAIN captures = 1..n
  BY LenProperties
<1>2. /\ Count("SUCCESS") = Cardinality(Of("SUCCESS"))
      /\ Count("FAILED") = Cardinality(Of("FAILED"))
  BY DEF Count
<1>3. /\ Of("SUCCESS") \cap Of("FAILED") = {}
      /\ Of("SUCCESS") \subseteq 1..n /\ Of("FAILED") \subseteq 1..n
      /\ Of("SUCCESS") \cup Of("FAILED") \subseteq 1..n
  BY <1>1
<1> HIDE DEF Of, n
<1>4. IsFiniteSet(1..n) /\ Cardinality(1..n) = n
  BY <1>1, UpToSize
<1>5. IsFiniteSet(Of("SUCCESS")) /\ IsFiniteSet(Of("FAILED"))
  BY <1>3, <1>4, FS_Subset
<1>6. Cardinality(Of("SUCCESS") \cup Of("FAILED")) <= n
  BY <1>3, <1>4, FS_Subset
<1>7. Cardinality(Of("SUCCESS") \cup Of("FAILED")) =
        Cardinality(Of("SUCCESS")) + Cardinality(Of("FAILED")) - Cardinality({})
  BY <1>3, <1>5, FS_Union
<1>8. /\ Cardinality({}) = 0
      /\ Cardinality(Of("SUCCESS")) \in Nat /\ Cardinality(Of("FAILED")) \in Nat
  BY <1>5, FS_EmptySet, FS_CardinalityType
<1> QED BY <1>2, <1>6, <1>7, <1>8 DEF n

LEMMA DocumentGives == CaptureInv /\ DocumentInv => DocumentComplete
<1> SUFFICES ASSUME CaptureInv, DocumentInv PROVE DocumentComplete
  OBVIOUS
<1> DEFINE doc == Document
           listed == ToSet(doc.transactions)
           total == Len(doc.transactions)
           window == Window(Len(history))
           known == {t \in ToSet(window) : t.ledger <= doc.latest_ledger_at_capture}
<1>1. ASSUME out.is # "old"
      PROVE  /\ listed = ToSet(SubSeq(window, 1, total))
             /\ total = MaxTx \/ known \subseteq listed
             /\ Cardinality(listed) = total /\ total = doc.counts.total
             /\ doc.counts.success + doc.counts.failed <= total
             /\ InOrder(doc.transactions)
             /\ doc.ledgers = {t.ledger : t \in listed}
             /\ {s.tx_hash : s \in ToSet(RecordedSet(doc))} = {t.hash : t \in listed}
  <2>1. Held(captures) /\ InOrder(captures)
    BY <1>1 DEF DocumentInv
  <2>2. /\ doc.transactions = captures /\ doc.latest_ledger_at_capture = latest
        /\ doc.counts.total = Len(captures)
        /\ doc.counts.success = Count("SUCCESS") /\ doc.counts.failed = Count("FAILED")
        /\ doc.ledgers = {captures[i].ledger : i \in DOMAIN captures}
    BY DEF Document
  <2>3. /\ captures \in Seq(Transaction)
        /\ \A p, q \in DOMAIN captures : captures[p] = captures[q] => p = q
    BY <2>1 DEF Held
  <2> HIDE DEF doc
  <2>4. /\ listed = ToSet(SubSeq(window, 1, total))
        /\ total = MaxTx \/ known \subseteq listed
    <3>1. latest \in Nat /\ IsChain(history)
      BY DEF CaptureInv, LatestInv
    <3> QED BY <2>1, <2>2, <3>1, HeldIsWindow
  <2>5. Cardinality(listed) = total
    BY <2>2, <2>3, InjectiveSize
  <2>6. doc.counts.success + doc.counts.failed <= total
    BY <2>2, <2>3, CountsFit
  <2>7. doc.ledgers = {t.ledger : t \in listed}
    BY <2>2 DEF ToSet
  <2>8. {s.tx_hash : s \in ToSet(RecordedSet(doc))} = {t.hash : t \in listed}
    <3> DEFINE loaded == RecordedSet(doc)
    <3>1. /\ DOMAIN loaded = DOMAIN captures
          /\ \A i \in DOMAIN captures : loaded[i].tx_hash = captures[i].hash
      BY <2>2 DEF RecordedSet
    <3> HIDE DEF loaded
    <3>2. /\ {s.tx_hash : s \in ToSet(loaded)} = {loaded[i].tx_hash : i \in DOMAIN loaded}
          /\ {t.hash : t \in listed} = {captures[i].hash : i \in DOMAIN captures}
      BY <2>2 DEF ToSet
    <3>3. {loaded[i].tx_hash : i \in DOMAIN loaded}
            = {captures[i].hash : i \in DOMAIN captures}
      BY <3>1
    <3> QED BY <3>2, <3>3 DEF loaded
  <2> QED BY <2>1, <2>2, <2>4, <2>5, <2>6, <2>7, <2>8
<1>2. phase \in {"latest", "page", "sort"} => out.is = "old"
  BY DEF DocumentInv, Paging
<1>3. /\ out.is = "whole" => out.doc = Document
      /\ phase \in {"written", "reported"} => out.is = "whole"
  BY DEF DocumentInv
<1>4. out.is # "old" => CompleteDocument(Document)
  BY <1>1 DEF CompleteDocument
<1> QED BY <1>2, <1>3, <1>4 DEF DocumentComplete

\* The script opens its file only for the beginning of the window, up to the
\* ledger reported first or as long as was asked for, each transaction once
\* and in order, whatever the service did while it was captured; and whatever
\* breaks off the script, a whole file holds that.
THEOREM DocumentsComplete == Spec => []DocumentComplete
<1>1. Spec => []CaptureInv
  BY CaptureStarts, CaptureSteps, PTL DEF Spec
<1>2. Spec => []DocumentInv
  BY <1>1, DocumentStarts, DocumentSteps, PTL DEF Spec
<1> QED BY <1>1, <1>2, DocumentGives, PTL

-----------------------------------------------------------------------------
\* The words of a capture document, written and read.

\* Dividing by a byte at a time, which is how a word is taken apart.
LEMMA Division ==
  ASSUME NEW v \in Nat
  PROVE  /\ v \div 256 \in Nat /\ v % 256 \in 0..255
         /\ v = 256 * (v \div 256) + (v % 256)
         /\ v \div 65536 = (v \div 256) \div 256
         /\ v \div 16777216 = (v \div 65536) \div 256
BY SMT

\* A word that was written is read back, below the bound of what is told apart.
LEMMA WordRight ==
  ASSUME NEW v \in Nat, v < Huge
  PROVE  Word(WordBytes(v)) = v
<1>0. PICK a, b, c, d : /\ a = (v \div 16777216) % 256 /\ b = (v \div 65536) % 256
                        /\ c = (v \div 256) % 256 /\ d = v % 256
  BY SMT
<1>1. PICK q1 : q1 = v \div 256
  OBVIOUS
<1>2. q1 \in Nat /\ d \in 0..255 /\ v = 256 * q1 + d
  BY <1>0, <1>1, Division, SMT
<1>3. PICK q2 : q2 = q1 \div 256
  OBVIOUS
<1>4. q2 = v \div 65536
  BY <1>1, <1>3, Division, SMT
<1>5. q2 \in Nat /\ c \in 0..255 /\ q1 = 256 * q2 + c
  BY <1>0, <1>1, <1>2, <1>3, Division, SMT
<1>6. PICK q3 : q3 = q2 \div 256
  OBVIOUS
<1>7. q3 = v \div 16777216
  BY <1>4, <1>6, Division, SMT
<1>8. q3 \in Nat /\ b \in 0..255 /\ q2 = 256 * q3 + b
  BY <1>0, <1>4, <1>5, <1>6, Division, SMT
<1>9. q3 \in 0..127
  BY <1>2, <1>5, <1>8, SMT DEF Huge
<1>10. a = q3
  BY <1>0, <1>7, <1>9, SMT
<1>11. /\ a \in 0..127 /\ b \in 0..255 /\ c \in 0..255 /\ d \in 0..255
       /\ v = a * 16777216 + b * 65536 + c * 256 + d
  BY <1>2, <1>5, <1>8, <1>9, <1>10, SMT
<1>12. PICK w : w = WordBytes(v)
  OBVIOUS
<1>13. w[1] = a /\ w[2] = b /\ w[3] = c /\ w[4] = d
  BY <1>0, <1>12, SMT DEF WordBytes
<1>14. ~(a > 127)
  BY <1>11, SMT
<1>15. Word(w) = w[1] * 16777216 + w[2] * 65536 + w[3] * 256 + w[4]
  BY <1>13, <1>14, SMT DEF Word
<1> QED BY <1>11, <1>12, <1>13, <1>15, SMT

\* Four bytes are a list of bytes.
LEMMA FourBytes ==
  ASSUME NEW a \in Byte, NEW b \in Byte, NEW c \in Byte, NEW d \in Byte
  PROVE  <<a, b, c, d>> \in Seq(Byte) /\ Len(<<a, b, c, d>>) = 4
OBVIOUS

\* A word is four bytes.
LEMMA WordLength ==
  ASSUME NEW v \in Nat
  PROVE  WordBytes(v) \in Seq(Byte) /\ Len(WordBytes(v)) = 4
<1>1. PICK a, b, c, d : /\ a = (v \div 16777216) % 256 /\ b = (v \div 65536) % 256
                        /\ c = (v \div 256) % 256 /\ d = v % 256
  BY SMT
<1>2. \A u \in Nat : u % 256 \in Byte
  BY SMT DEF Byte
<1>3. v \div 16777216 \in Nat /\ v \div 65536 \in Nat /\ v \div 256 \in Nat
  BY SMT
<1>4. a \in Byte /\ b \in Byte /\ c \in Byte /\ d \in Byte
  BY <1>1, <1>2, <1>3, SMT
<1>5. WordBytes(v) = <<a, b, c, d>>
  BY <1>1, SMT DEF WordBytes
<1> QED BY <1>4, <1>5, FourBytes

\* Four bytes that are read as a word are what is written for it.
LEMMA WordBack ==
  ASSUME NEW w \in Seq(Byte), Len(w) = 4
  PROVE  /\ Word(w) \in Nat /\ Word(w) <= Huge
         /\ Word(w) < Huge => WordBytes(Word(w)) = w
<1>1. PICK a, b, c, d : a = w[1] /\ b = w[2] /\ c = w[3] /\ d = w[4]
  OBVIOUS
<1>2. a \in Byte /\ b \in Byte /\ c \in Byte /\ d \in Byte
  <2>1. 1 \in 1..Len(w) /\ 2 \in 1..Len(w) /\ 3 \in 1..Len(w) /\ 4 \in 1..Len(w)
    OBVIOUS
  <2> QED BY <1>1, <2>1, ElementOfSeq
<1>3. w = <<a, b, c, d>>
  <2>1. PICK u : u = <<a, b, c, d>>
    OBVIOUS
  <2>2. u \in Seq(Byte) /\ Len(u) = 4 /\ u[1] = a /\ u[2] = b /\ u[3] = c /\ u[4] = d
    BY <1>2, <2>1
  <2>3. \A i \in 1..Len(w) : w[i] = u[i]
    <3>1. \A i \in 1..4 : i = 1 \/ i = 2 \/ i = 3 \/ i = 4
      OBVIOUS
    <3> QED BY <1>1, <2>2, <3>1
  <2> QED BY <2>1, <2>2, <2>3, SeqEqual
<1>4. a \in 0..255 /\ b \in 0..255 /\ c \in 0..255 /\ d \in 0..255
  BY <1>2, SMT DEF Byte
<1>5. CASE a > 127
  <2>1. Word(w) = Huge
    BY <1>1, <1>5, SMT DEF Word
  <2>2. Huge \in Nat /\ Huge <= Huge /\ ~(Huge < Huge)
    BY SMT DEF Huge
  <2> QED BY <2>1, <2>2
<1>6. CASE a \in 0..127
  <2>1. PICK v : v = a * 16777216 + b * 65536 + c * 256 + d
    OBVIOUS
  <2>2. ~(a > 127)
    BY <1>6, SMT
  <2>3. Word(w) = v
    BY <1>1, <2>1, <2>2, SMT DEF Word
  <2>4. v \in Nat /\ v <= Huge
    BY <1>4, <1>6, <2>1, SMT DEF Huge
  <2>5. /\ (v \div 16777216) % 256 = a /\ (v \div 65536) % 256 = b
        /\ (v \div 256) % 256 = c /\ v % 256 = d
    <3>1. PICK q1, q2 : q2 = 256 * a + b /\ q1 = 256 * q2 + c
      OBVIOUS
    <3>2. q2 \in Nat /\ q1 \in Nat /\ v = 256 * q1 + d /\ v \in Nat
      BY <1>4, <1>6, <2>1, <3>1, SMT
    <3>0. ASSUME NEW q \in Nat, NEW r \in 0..255
          PROVE  (256 * q + r) \div 256 = q /\ (256 * q + r) % 256 = r
      BY SMT
    <3>3. v \div 256 = q1 /\ v % 256 = d
      <4>1. (256 * q1 + d) \div 256 = q1 /\ (256 * q1 + d) % 256 = d
        BY <1>4, <3>0, <3>2, ZenonT(40)
      <4>2. v = 256 * q1 + d
        BY <3>2
      <4> QED BY <4>1, <4>2, Zenon
    <3>4. q1 \div 256 = q2 /\ q1 % 256 = c
      <4>1. (256 * q2 + c) \div 256 = q2 /\ (256 * q2 + c) % 256 = c
        BY <1>4, <3>0, <3>2, ZenonT(40)
      <4> QED BY <3>1, <4>1, Zenon
    <3>5. q2 \div 256 = a /\ q2 % 256 = b
      <4>1. a \in Nat
        BY <1>6
      <4>2. (256 * a + b) \div 256 = a /\ (256 * a + b) % 256 = b
        <5>1. b \in 0..255
          BY <1>4
        <5> QED BY <4>1, <5>1, SMT
      <4> QED BY <3>1, <4>2, Zenon
    <3>6. v \div 65536 = q2
      BY <3>2, <3>3, <3>4, Division, SMT
    <3>7. v \div 16777216 = a
      BY <3>2, <3>5, <3>6, Division, SMT
    <3>8. a % 256 = a
      BY <1>6, SMT
    <3> QED BY <3>3, <3>4, <3>5, <3>6, <3>7, <3>8
  <2>6. WordBytes(v) = <<a, b, c, d>>
    BY <2>5, SMT DEF WordBytes
  <2> QED BY <1>3, <2>3, <2>4, <2>6
<1>7. a > 127 \/ a \in 0..127
  BY <1>4, SMT
<1> QED BY <1>5, <1>6, <1>7

-----------------------------------------------------------------------------
\* What is written, and the reads that take it.  A read is right if it delivers
\* the value whose bytes come next in the buffer.

\* The numbers of the format are below the bound of what is told apart.
LEMMA Sizes ==
  /\ Huge \in Nat
  /\ MAGIC \in Nat /\ MAGIC < Huge
  /\ VERSION \in Nat /\ VERSION < Huge
  /\ \A v \in 0..255 : v \in Nat /\ v < Huge
<1>1. VERSION \in 0..255
  BY DEF VERSION
<1>2. Huge \in Nat /\ MAGIC \in Nat /\ MAGIC < Huge /\ \A v \in 0..255 : v \in Nat /\ v < Huge
  BY SMT DEF Huge, MAGIC
<1> QED BY <1>1, <1>2

\* Padding fills up to three bytes.
LEMMA PaddingBytes ==
  ASSUME NEW n \in Nat, NEW zero \in Byte
  PROVE  /\ Pad(n) \in 0..3
         /\ [i \in 1..Pad(n) |-> zero] \in Seq(Byte)
         /\ Len([i \in 1..Pad(n) |-> zero]) = Pad(n)
<1>1. Pad(n) \in 0..3
  BY SMT DEF Pad
<1> QED BY <1>1

\* Lists put together are lists of bytes.
LEMMA Together ==
  ASSUME NEW x \in Seq(Byte), NEW y \in Seq(Byte)
  PROVE  x \o y \in Seq(Byte) /\ Len(x \o y) = Len(x) + Len(y) /\ Len(x) \in Nat /\ Len(y) \in Nat
BY ConcatProperties, LenProperties

\* What write_opaque writes: the bytes and their padding.
LEMMA OpaqueBytes ==
  ASSUME NEW x \in Seq(Byte), NEW zero \in Byte
  PROVE  /\ WriteOpaque(x, zero) \in Seq(Byte)
         /\ Len(WriteOpaque(x, zero)) = Len(x) + Pad(Len(x))
         /\ Len(x) \in Nat /\ Pad(Len(x)) \in 0..3
<1>1. Len(x) \in Nat
  BY LenProperties
<1>2. PICK pad : pad = [i \in 1..Pad(Len(x)) |-> zero]
  OBVIOUS
<1>3. pad \in Seq(Byte) /\ Len(pad) = Pad(Len(x)) /\ Pad(Len(x)) \in 0..3
  BY <1>1, <1>2, PaddingBytes
<1>4. WriteOpaque(x, zero) = x \o pad
  BY <1>2 DEF WriteOpaque
<1> QED BY <1>1, <1>3, <1>4, Together

\* What write_string writes: a length, the bytes and their padding.
LEMMA StringBytes ==
  ASSUME NEW x \in Seq(Byte), NEW zero \in Byte
  PROVE  /\ WriteString(x, zero) \in Seq(Byte)
         /\ Len(WriteString(x, zero)) = 4 + Len(WriteOpaque(x, zero))
<1>1. Len(x) \in Nat
  BY LenProperties
<1>2. PICK w, o : w = WordBytes(Len(x)) /\ o = WriteOpaque(x, zero)
  OBVIOUS
<1>3. w \in Seq(Byte) /\ Len(w) = 4 /\ o \in Seq(Byte)
  BY <1>1, <1>2, WordLength, OpaqueBytes
<1>4. WriteString(x, zero) = w \o o
  BY <1>2 DEF WriteString
<1>5. w \o o \in Seq(Byte) /\ Len(w \o o) = Len(w) + Len(o)
  BY <1>3, Together
<1> QED BY <1>2, <1>3, <1>4, <1>5

\* The fields of a capture key.
LEMMA KeyFields ==
  ASSUME NEW k \in CaptureKey
  PROVE  /\ k.field_1 \in String /\ k.field_1 \in Seq(Byte)
         /\ k.field_2 \in String /\ k.field_2 \in Seq(Byte)
         /\ k.key_type \in LedgerKeyType /\ k.key_type \in 0..255 /\ k.key_type \in Nat
         /\ k = [key_type |-> k.key_type, field_1 |-> k.field_1, field_2 |-> k.field_2]
<1>1. /\ k.field_1 \in String /\ k.field_2 \in String /\ k.key_type \in LedgerKeyType
      /\ k = [key_type |-> k.key_type, field_1 |-> k.field_1, field_2 |-> k.field_2]
  BY DEF CaptureKey
<1>2. k.field_1 \in Seq(Byte) /\ k.field_2 \in Seq(Byte)
  BY <1>1 DEF String
<1>3. k.key_type \in 0..255 /\ k.key_type \in Nat
  BY <1>1, SMT DEF LedgerKeyType, Account, TrustLine, ContractData, ContractCode,
                   ContractTtl, OtherKey
<1> QED BY <1>1, <1>2, <1>3

\* The three parts of a written key.
LEMMA KeyBytes ==
  ASSUME NEW k \in CaptureKey, NEW zero \in Byte
  PROVE  \E w, s, t \in Seq(Byte) :
           /\ w = WordBytes(k.key_type) /\ Len(w) = 4
           /\ s = WriteString(k.field_1, zero) /\ t = WriteString(k.field_2, zero)
           /\ WriteCaptureKey(k, zero) = (w \o s) \o t
           /\ w \o s \in Seq(Byte) /\ Len(w \o s) = 4 + Len(s)
           /\ WriteCaptureKey(k, zero) \in Seq(Byte)
           /\ Len(WriteCaptureKey(k, zero)) = 4 + Len(s) + Len(t)
<1>1. PICK w, s, t : /\ w = WordBytes(k.key_type) /\ s = WriteString(k.field_1, zero)
                     /\ t = WriteString(k.field_2, zero)
  OBVIOUS
<1>2. w \in Seq(Byte) /\ Len(w) = 4
  BY <1>1, KeyFields, WordLength
<1>3. s \in Seq(Byte) /\ t \in Seq(Byte)
  BY <1>1, KeyFields, StringBytes
<1>4. WriteCaptureKey(k, zero) = (w \o s) \o t
  BY <1>1 DEF WriteCaptureKey
<1>5. w \o s \in Seq(Byte) /\ Len(w \o s) = 4 + Len(s)
  <2>1. w \o s \in Seq(Byte) /\ Len(w \o s) = Len(w) + Len(s)
    BY <1>2, <1>3, ConcatProperties
  <2> QED BY <1>2, <2>1
<1>6. (w \o s) \o t \in Seq(Byte) /\ Len((w \o s) \o t) = 4 + Len(s) + Len(t)
  <2>1. PICK ws : ws = w \o s
    OBVIOUS
  <2> QED BY <1>3, <1>5, <2>1, ConcatProperties, ZenonT(40)
<1> QED BY <1>1, <1>2, <1>3, <1>4, <1>5, <1>6

-----------------------------------------------------------------------------
\* Behind the first p bytes of b come the bytes x, as far as b goes.
Agrees(b, p, x) ==
  /\ p \in Nat /\ p <= Len(b) /\ p + Len(x) < Huge
  /\ \A i \in 1..Len(x) : p + i <= Len(b) => b[p + i] = x[i]

\* A read at p takes exactly the bytes x for v, or finds that they are not all
\* there.
Delivers(read, b, p, x, v) ==
  read = IF p + Len(x) <= Len(b) THEN Ok(v, p + Len(x)) ELSE Fail("Overrun")

\* If two lists follow one another in a buffer, each stands where it should.
LEMMA AgreesConcat ==
  ASSUME NEW b \in Seq(Byte), NEW x \in Seq(Byte), NEW y \in Seq(Byte), NEW p,
         Agrees(b, p, x \o y)
  PROVE  /\ Agrees(b, p, x)
         /\ p + Len(x) <= Len(b) => Agrees(b, p + Len(x), y)
<1>1. PICK z, m, n : z = x \o y /\ m = Len(x) /\ n = Len(y)
  OBVIOUS
<1>2. /\ m \in Nat /\ n \in Nat /\ Len(z) = m + n /\ Len(b) \in Nat
      /\ \A i \in 1..(m + n) : z[i] = IF i <= m THEN x[i] ELSE y[i - m]
  BY <1>1, LenProperties, ConcatProperties
<1>3. /\ p \in Nat /\ p <= Len(b) /\ p + (m + n) < Huge /\ Huge \in Nat
      /\ \A i \in 1..(m + n) : p + i <= Len(b) => b[p + i] = z[i]
  BY <1>1, <1>2, Sizes DEF Agrees
<1>4. Agrees(b, p, x)
  <2>1. p + m < Huge
    BY <1>2, <1>3
  <2>2. ASSUME NEW i \in 1..m, p + i <= Len(b) PROVE b[p + i] = x[i]
    <3>1. i \in 1..(m + n) /\ i <= m
      BY <1>2
    <3> QED BY <1>2, <1>3, <2>2, <3>1
  <2> QED BY <1>1, <1>3, <2>1, <2>2 DEF Agrees
<1>5. ASSUME p + m <= Len(b) PROVE Agrees(b, p + m, y)
  <2>1. p + m \in Nat /\ (p + m) + n < Huge
    BY <1>2, <1>3
  <2>2. ASSUME NEW i \in 1..n, (p + m) + i <= Len(b) PROVE b[(p + m) + i] = y[i]
    <3>1. PICK j : j = m + i
      OBVIOUS
    <3>2. j \in 1..(m + n) /\ ~(j <= m) /\ j - m = i /\ p + j = (p + m) + i
      BY <1>2, <1>3, <3>1
    <3>3. b[p + j] = z[j]
      BY <1>3, <2>2, <3>2
    <3>4. z[j] = y[j - m]
      BY <1>2, <3>2
    <3> QED BY <3>2, <3>3, <3>4
  <2> QED BY <1>1, <1>5, <2>1, <2>2 DEF Agrees
<1> QED BY <1>1, <1>4, <1>5

\* Two reads one after the other.
LEMMA DeliversConcat ==
  ASSUME NEW b \in Seq(Byte), NEW x \in Seq(Byte), NEW y \in Seq(Byte), NEW p \in Nat,
         NEW first, NEW v, Delivers(first, b, p, x, v),
         NEW second, NEW u, p + Len(x) <= Len(b) => Delivers(second, b, p + Len(x), y, u)
  PROVE  Delivers(IF first.error # NoError THEN first ELSE second, b, p, x \o y, u)
<1>1. /\ Len(x \o y) = Len(x) + Len(y)
      /\ Len(x) \in Nat /\ Len(y) \in Nat /\ Len(b) \in Nat
  BY Together, LenProperties
<1>2. (p + Len(x)) + Len(y) = p + Len(x \o y)
  BY <1>1
<1>3. CASE p + Len(x) <= Len(b)
  <2>1. first.error = NoError
    BY <1>3 DEF Delivers, Ok
  <2>2. Delivers(second, b, p, x \o y, u)
    BY <1>2, <1>3 DEF Delivers
  <2> QED BY <2>1, <2>2
<1>4. CASE ~(p + Len(x) <= Len(b))
  <2>1. first = Fail("Overrun")
    BY <1>4 DEF Delivers
  <2>2. first.error # NoError
    BY <2>1 DEF Fail, NoError
  <2>3. ~(p + Len(x \o y) <= Len(b))
    BY <1>1, <1>4
  <2> QED BY <2>1, <2>2, <2>3 DEF Delivers
<1> QED BY <1>3, <1>4

\* A read whose value is turned into another one.
LEMMA DeliversAs ==
  ASSUME NEW b, NEW x, NEW p, NEW first, NEW v, Delivers(first, b, p, x, v), NEW u
  PROVE  Delivers(IF first.error # NoError THEN first ELSE Ok(u, first.pos), b, p, x, u)
BY DEF Delivers, Ok, Fail, NoError

\* Reading n bytes takes the n that are there.
LEMMA ReadNRight ==
  ASSUME NEW b \in Seq(Byte), NEW x \in Seq(Byte), NEW p, Agrees(b, p, x)
  PROVE  Delivers(ReadN(b, p, Len(x)), b, p, x, x)
<1>1. Len(x) \in Nat /\ Len(b) \in Nat /\ p \in Nat
  BY LenProperties DEF Agrees
<1>2. CASE p + Len(x) <= Len(b)
  <2>1. SubSeq(b, p + 1, p + Len(x)) = x
    <3>1. \A i \in (p + 1)..(p + Len(x)) : b[i] \in Byte
      BY <1>1, <1>2, ElementOfSeq
    <3>2. PICK s : s = SubSeq(b, p + 1, p + Len(x))
      OBVIOUS
    <3>3. s \in Seq(Byte) /\ Len(s) = Len(x) /\ \A i \in 1..Len(x) : s[i] = b[p + i]
      <4>1. p + 1 \in Int /\ p + Len(x) \in Int
        BY <1>1
      <4>2. /\ s \in Seq(Byte)
            /\ Len(s) = IF p + 1 <= p + Len(x) THEN (p + Len(x)) - (p + 1) + 1 ELSE 0
            /\ \A i \in 1..((p + Len(x)) - (p + 1) + 1) : s[i] = b[(p + 1) + i - 1]
        BY <3>1, <3>2, <4>1, SubSeqProperties
      <4>3. /\ (IF p + 1 <= p + Len(x) THEN (p + Len(x)) - (p + 1) + 1 ELSE 0) = Len(x)
            /\ (p + Len(x)) - (p + 1) + 1 = Len(x)
            /\ \A i \in 1..Len(x) : (p + 1) + i - 1 = p + i
        BY <1>1
      <4> QED BY <4>2, <4>3
    <3>4. \A i \in 1..Len(x) : s[i] = x[i]
      <4>1. \A i \in 1..Len(x) : p + i <= Len(b)
        BY <1>1, <1>2
      <4> QED BY <3>3, <4>1 DEF Agrees
    <3>5. s = x
      BY <3>3, <3>4, SeqEqual
    <3> QED BY <3>2, <3>5
  <2>2. ~(Len(x) > Len(b) - p)
    BY <1>1, <1>2
  <2> QED BY <1>2, <2>1, <2>2 DEF ReadN, Delivers
<1>3. CASE ~(p + Len(x) <= Len(b))
  <2>1. Len(x) > Len(b) - p
    BY <1>1, <1>3
  <2> QED BY <1>3, <2>1 DEF ReadN, Delivers
<1> QED BY <1>2, <1>3

\* read_u32 takes the word that was written.
LEMMA ReadU32Right ==
  ASSUME NEW b \in Seq(Byte), NEW v \in Nat, v < Huge, NEW p, Agrees(b, p, WordBytes(v))
  PROVE  Delivers(ReadU32(b, p), b, p, WordBytes(v), v)
<1>1. PICK w : w = WordBytes(v)
  OBVIOUS
<1>2. w \in Seq(Byte) /\ Len(w) = 4 /\ Word(w) = v
  BY <1>1, WordLength, WordRight
<1>3. PICK first : first = ReadN(b, p, 4)
  OBVIOUS
<1>4. Delivers(first, b, p, w, w)
  BY <1>1, <1>2, <1>3, ReadNRight
<1>5. ReadU32(b, p) = IF first.error # NoError THEN first ELSE Ok(Word(first.value), first.pos)
  BY <1>3 DEF ReadU32, Then
<1> QED BY <1>1, <1>2, <1>4, <1>5 DEF Delivers, Ok, Fail, NoError

\* read_opaque takes what write_opaque wrote, padding included.
LEMMA ReadOpaqueRight ==
  ASSUME NEW b \in Seq(Byte), NEW x \in Seq(Byte), NEW zero \in Byte, NEW p,
         Agrees(b, p, WriteOpaque(x, zero))
  PROVE  Delivers(ReadOpaque(b, p, Len(x)), b, p, WriteOpaque(x, zero), x)
<1>1. PICK pad : pad = [i \in 1..Pad(Len(x)) |-> zero]
  OBVIOUS
<1>2. Len(x) \in Nat /\ p \in Nat
  BY LenProperties DEF Agrees
<1>3. pad \in Seq(Byte) /\ Len(pad) = Pad(Len(x)) /\ WriteOpaque(x, zero) = x \o pad
  BY <1>1, <1>2, PaddingBytes DEF WriteOpaque
<1>4. Agrees(b, p, x) /\ (p + Len(x) <= Len(b) => Agrees(b, p + Len(x), pad))
  BY <1>3, AgreesConcat
<1>5. PICK first : first = ReadN(b, p, Len(x))
  OBVIOUS
<1>6. Delivers(first, b, p, x, x)
  BY <1>4, <1>5, ReadNRight
<1>7. PICK inner : inner = ReadN(b, first.pos, Pad(Len(x)))
  OBVIOUS
<1>8. PICK second : second = IF inner.error # NoError THEN inner ELSE Ok(first.value, inner.pos)
  OBVIOUS
<1>9. ReadOpaque(b, p, Len(x)) = IF first.error # NoError THEN first ELSE second
  BY <1>5, <1>7, <1>8 DEF ReadOpaque, Then
<1>10. ASSUME p + Len(x) <= Len(b) PROVE Delivers(second, b, p + Len(x), pad, x)
  <2>1. first.value = x /\ first.pos = p + Len(x)
    BY <1>6, <1>10 DEF Delivers, Ok
  <2>2. Delivers(inner, b, p + Len(x), pad, pad)
    <3>1. Agrees(b, p + Len(x), pad)
      BY <1>4, <1>10
    <3>2. Delivers(ReadN(b, p + Len(x), Len(pad)), b, p + Len(x), pad, pad)
      BY <1>3, <3>1, ReadNRight
    <3> QED BY <1>3, <1>7, <2>1, <3>2
  <2> QED BY <1>8, <2>1, <2>2, DeliversAs
<1>11. Delivers(IF first.error # NoError THEN first ELSE second, b, p, x \o pad, x)
  BY <1>2, <1>3, <1>6, <1>10, DeliversConcat
<1> QED BY <1>3, <1>9, <1>11

\* read_string takes what write_string wrote.
LEMMA ReadStringRight ==
  ASSUME NEW b \in Seq(Byte), NEW x \in String, NEW zero \in Byte, NEW p,
         Agrees(b, p, WriteString(x, zero))
  PROVE  Delivers(ReadString(b, p), b, p, WriteString(x, zero), x)
<1>1. x \in Seq(Byte) /\ ValidUtf8(x)
  BY DEF String
<1>2. Len(x) \in Nat /\ p \in Nat
  BY <1>1, LenProperties DEF Agrees
<1>3. PICK w, o : w = WordBytes(Len(x)) /\ o = WriteOpaque(x, zero)
  OBVIOUS
<1>4. w \in Seq(Byte) /\ Len(w) = 4 /\ o \in Seq(Byte) /\ WriteString(x, zero) = w \o o
  BY <1>1, <1>2, <1>3, WordLength, OpaqueBytes DEF WriteString
<1>5. Agrees(b, p, w) /\ (p + Len(w) <= Len(b) => Agrees(b, p + Len(w), o))
  <2>1. Agrees(b, p, w \o o)
    BY <1>4
  <2> QED BY <1>4, <2>1, AgreesConcat
<1>6. Len(x) < Huge
  <2>1. p + Len(w \o o) < Huge
    BY <1>4 DEF Agrees
  <2>2. Len(w \o o) = Len(w) + Len(o)
    BY <1>4, Together
  <2>3. Len(o) = Len(x) + Pad(Len(x)) /\ Pad(Len(x)) \in 0..3
    BY <1>1, <1>3, OpaqueBytes
  <2> QED BY <1>2, <1>4, <2>1, <2>2, <2>3, Sizes, SMTT(30)
<1>7. PICK first : first = ReadU32(b, p)
  OBVIOUS
<1>8. Delivers(first, b, p, w, Len(x))
  BY <1>2, <1>3, <1>5, <1>6, <1>7, ReadU32Right
<1>9. PICK second : second = ReadOpaque(b, first.pos, first.value)
  OBVIOUS
<1>10. ASSUME p + Len(w) <= Len(b) PROVE Delivers(second, b, p + Len(w), o, x)
  <2>1. first.value = Len(x) /\ first.pos = p + Len(w)
    BY <1>8, <1>10 DEF Delivers, Ok
  <2>2. Agrees(b, p + Len(w), WriteOpaque(x, zero))
    BY <1>3, <1>5, <1>10
  <2>3. Delivers(ReadOpaque(b, p + Len(w), Len(x)), b, p + Len(w), WriteOpaque(x, zero), x)
    BY <1>1, <2>2, ReadOpaqueRight
  <2> QED BY <1>3, <1>9, <2>1, <2>3
<1>11. PICK bytes : bytes = IF first.error # NoError THEN first ELSE second
  OBVIOUS
<1>12. Delivers(bytes, b, p, w \o o, x)
  BY <1>2, <1>4, <1>8, <1>10, <1>11, DeliversConcat
<1>13. ReadBytes(b, p) = bytes
  BY <1>7, <1>9, <1>11 DEF ReadBytes, Then
<1>14. /\ ReadString(b, p) = IF bytes.error # NoError THEN bytes
                             ELSE IF ValidUtf8(bytes.value) THEN Ok(bytes.value, bytes.pos)
                             ELSE Fail("InvalidUtf8")
  BY <1>13 DEF ReadString, Then
<1>15. ReadString(b, p) = bytes
  <2>1. CASE p + Len(w \o o) <= Len(b)
    <3>1. bytes = Ok(x, p + Len(w \o o))
      BY <1>12, <2>1 DEF Delivers
    <3>2. bytes.error = NoError /\ bytes.value = x /\ bytes = Ok(x, bytes.pos)
      BY <3>1 DEF Ok
    <3> QED BY <1>1, <1>14, <3>2
  <2>2. CASE ~(p + Len(w \o o) <= Len(b))
    <3>1. bytes = Fail("Overrun")
      BY <1>12, <2>2 DEF Delivers
    <3>2. bytes.error # NoError
      BY <3>1 DEF Fail, NoError
    <3> QED BY <1>14, <3>2
  <2> QED BY <2>1, <2>2
<1> QED BY <1>4, <1>12, <1>15

\* CaptureKey::read takes what CaptureKey::write wrote.
LEMMA ReadCaptureKeyRight ==
  ASSUME NEW b \in Seq(Byte), NEW k \in CaptureKey, NEW zero \in Byte, NEW p,
         Agrees(b, p, WriteCaptureKey(k, zero))
  PROVE  Delivers(ReadCaptureKey(b, p), b, p, WriteCaptureKey(k, zero), k)
<1>1. /\ k.field_1 \in String /\ k.field_2 \in String
      /\ k.key_type \in LedgerKeyType /\ k.key_type \in Nat /\ k.key_type < Huge
      /\ k = [key_type |-> k.key_type, field_1 |-> k.field_1, field_2 |-> k.field_2]
  BY KeyFields, Sizes
<1>2. PICK w, s, t \in Seq(Byte) :
        /\ w = WordBytes(k.key_type) /\ Len(w) = 4
        /\ s = WriteString(k.field_1, zero) /\ t = WriteString(k.field_2, zero)
        /\ WriteCaptureKey(k, zero) = (w \o s) \o t
  <2>1. PICK w, s, t \in Seq(Byte) :
          /\ w = WordBytes(k.key_type) /\ Len(w) = 4
          /\ s = WriteString(k.field_1, zero) /\ t = WriteString(k.field_2, zero)
          /\ WriteCaptureKey(k, zero) = (w \o s) \o t
          /\ w \o s \in Seq(Byte) /\ Len(w \o s) = 4 + Len(s)
          /\ WriteCaptureKey(k, zero) \in Seq(Byte)
          /\ Len(WriteCaptureKey(k, zero)) = 4 + Len(s) + Len(t)
    BY KeyBytes
  <2> QED BY <2>1
<1>3. PICK st : st = s \o t
  OBVIOUS
<1>4. st \in Seq(Byte) /\ WriteCaptureKey(k, zero) = w \o st
  <2>1. (w \o s) \o t = w \o (s \o t)
    BY ConcatAssociative
  <2>2. s \o t \in Seq(Byte)
    BY Together
  <2> QED BY <1>2, <1>3, <2>1, <2>2
<1>5. Agrees(b, p, w) /\ (p + Len(w) <= Len(b) => Agrees(b, p + Len(w), st)) /\ p \in Nat
  <2>1. Agrees(b, p, w \o st)
    BY <1>4
  <2>2. p \in Nat
    BY <2>1 DEF Agrees
  <2> QED BY <1>4, <2>1, <2>2, AgreesConcat
<1>6. PICK first : first = ReadU32(b, p)
  OBVIOUS
<1>7. Delivers(first, b, p, w, k.key_type)
  BY <1>1, <1>2, <1>5, <1>6, ReadU32Right
<1>8. PICK one : one = ReadString(b, first.pos)
  OBVIOUS
<1>9. PICK two : two = ReadString(b, one.pos)
  OBVIOUS
<1>10. PICK last : last = IF two.error # NoError THEN two
                          ELSE Ok([key_type |-> first.value, field_1 |-> one.value,
                                   field_2 |-> two.value], two.pos)
  OBVIOUS
<1>11. PICK second : second = IF first.value \notin LedgerKeyType THEN Fail("UnknownKeyType")
                              ELSE IF one.error # NoError THEN one ELSE last
  OBVIOUS
<1>12. ReadCaptureKey(b, p) = IF first.error # NoError THEN first ELSE second
  BY <1>6, <1>8, <1>9, <1>10, <1>11 DEF ReadCaptureKey, Then
<1>13. ASSUME p + Len(w) <= Len(b) PROVE Delivers(second, b, p + Len(w), st, k)
  <2>1. PICK q : q = p + Len(w)
    OBVIOUS
  <2>2. first.value = k.key_type /\ first.pos = q /\ q \in Nat
    BY <1>2, <1>5, <1>7, <1>13, <2>1 DEF Delivers, Ok
  <2>3. Agrees(b, q, s) /\ (q + Len(s) <= Len(b) => Agrees(b, q + Len(s), t))
    <3>1. Agrees(b, q, s \o t)
      BY <1>3, <1>5, <1>13, <2>1
    <3> QED BY <3>1, AgreesConcat
  <2>4. Delivers(one, b, q, s, k.field_1)
    <3>1. Delivers(ReadString(b, q), b, q, s, k.field_1)
      BY <1>1, <1>2, <2>3, ReadStringRight
    <3> QED BY <1>8, <2>2, <3>1
  <2>5. ASSUME q + Len(s) <= Len(b) PROVE Delivers(last, b, q + Len(s), t, k)
    <3>1. one.value = k.field_1 /\ one.pos = q + Len(s)
      BY <2>4, <2>5 DEF Delivers, Ok
    <3>2. Delivers(ReadString(b, q + Len(s)), b, q + Len(s), t, k.field_2)
      BY <1>1, <1>2, <2>3, <2>5, ReadStringRight
    <3>3. Delivers(two, b, q + Len(s), t, k.field_2)
      BY <1>9, <3>1, <3>2
    <3>4. CASE q + Len(s) + Len(t) <= Len(b)
      <4>1. two = Ok(k.field_2, q + Len(s) + Len(t))
        BY <3>3, <3>4 DEF Delivers
      <4>2. last = Ok(k, q + Len(s) + Len(t))
        BY <1>1, <1>10, <2>2, <3>1, <4>1 DEF Ok
      <4> QED BY <3>4, <4>2 DEF Delivers
    <3>5. CASE ~(q + Len(s) + Len(t) <= Len(b))
      <4>1. two = Fail("Overrun")
        BY <3>3, <3>5 DEF Delivers
      <4>2. last = Fail("Overrun")
        BY <1>10, <4>1 DEF Fail, NoError
      <4> QED BY <3>5, <4>2 DEF Delivers
    <3> QED BY <3>4, <3>5
  <2>6. PICK rest : rest = IF one.error # NoError THEN one ELSE last
    OBVIOUS
  <2>7. Delivers(rest, b, q, s \o t, k)
    BY <2>2, <2>4, <2>5, <2>6, DeliversConcat
  <2>8. second = rest
    BY <1>1, <1>11, <2>2, <2>6
  <2> QED BY <1>3, <2>1, <2>7, <2>8
<1>14. p \in Nat /\ Delivers(first, b, p, w, k.key_type)
  BY <1>5, <1>7
<1>15. Delivers(IF first.error # NoError THEN first ELSE second, b, p, w \o st, k)
  BY <1>4, <1>13, <1>14, DeliversConcat
<1> QED BY <1>4, <1>12, <1>15

-----------------------------------------------------------------------------
\* What a capture is written as, part by part.

\* Keys, and records, one after the other.
KeyWriter(zero) == [k \in CaptureKey |-> WriteCaptureKey(k, zero)]
KeysBytes(list, zero) == Joined(KeyWriter(zero), list)
RecordWriter(zero) == [r \in CaptureRecord |-> WriteRecord(r, zero)]
RecordsBytes(list, zero) == Joined(RecordWriter(zero), list)

\* What stands in front of a record's keys, and of a document's records.
HeadBytes(rec, zero) == WriteOpaque(rec.tx_hash, zero) \o WriteString(rec.source_account, zero)

\* The three words that are carried along, and the header with them and a count.
Words(cap) == (cap.from_ledger \o cap.to_ledger) \o cap.checkpoint_count
HeaderBytes(cap, w) == WordBytes(MAGIC) \o (WordBytes(VERSION) \o (Words(cap) \o w))

\* write_vec writes the number of the keys and then the keys, none of which is empty.
LEMMA KeysAreWritten ==
  ASSUME NEW list \in Seq(CaptureKey), NEW zero \in Byte
  PROVE  /\ KeysBytes(list, zero) \in Seq(Byte)
         /\ Len(list) <= Len(KeysBytes(list, zero))
         /\ KeysBytes(<<>>, zero) = <<>>
         /\ WriteKeys(list, zero) = WordBytes(Len(list)) \o KeysBytes(list, zero)
         /\ WriteKeys(list, zero) \in Seq(Byte)
         /\ Len(WriteKeys(list, zero)) = 4 + Len(KeysBytes(list, zero))
<1>1. PICK f : f = KeyWriter(zero)
  OBVIOUS
<1>2. \A k \in CaptureKey : /\ WriteCaptureKey(k, zero) \in Seq(Byte)
                            /\ Len(WriteCaptureKey(k, zero)) > 0
  <2> SUFFICES ASSUME NEW k \in CaptureKey
               PROVE  /\ WriteCaptureKey(k, zero) \in Seq(Byte)
                      /\ Len(WriteCaptureKey(k, zero)) > 0
    OBVIOUS
  <2>1. PICK w, s, t \in Seq(Byte) :
          /\ w = WordBytes(k.key_type) /\ Len(w) = 4
          /\ s = WriteString(k.field_1, zero) /\ t = WriteString(k.field_2, zero)
          /\ WriteCaptureKey(k, zero) = (w \o s) \o t
          /\ w \o s \in Seq(Byte) /\ Len(w \o s) = 4 + Len(s)
          /\ WriteCaptureKey(k, zero) \in Seq(Byte)
          /\ Len(WriteCaptureKey(k, zero)) = 4 + Len(s) + Len(t)
    BY KeyBytes
  <2>2. Len(s) \in Nat /\ Len(t) \in Nat
    BY LenProperties
  <2> QED BY <2>1, <2>2
<1>3. /\ Takes(f, CaptureKey, Seq(Byte))
      /\ \A k \in CaptureKey : f[k] = WriteCaptureKey(k, zero) /\ Len(f[k]) > 0
  BY <1>1, <1>2 DEF KeyWriter, Takes
<1>4. Joined(f, list) \in Seq(Byte) /\ Len(list) <= Len(Joined(f, list))
  BY <1>3, JoinedLength
<1>5. Joined(f, <<>>) = <<>>
  BY JoinedEmpty
<1>6. Mapped(f, list) = [i \in DOMAIN list |-> WriteCaptureKey(list[i], zero)]
  <2>1. \A i \in DOMAIN list : list[i] \in CaptureKey
    BY LenProperties, ElementOfSeq
  <2> QED BY <1>3, <2>1 DEF Mapped
<1>7. WriteKeys(list, zero) = WordBytes(Len(list)) \o KeysBytes(list, zero)
  BY <1>1, <1>6 DEF WriteKeys, KeysBytes, Joined
<1>8. Len(list) \in Nat
  BY LenProperties
<1>9. WordBytes(Len(list)) \in Seq(Byte) /\ Len(WordBytes(Len(list))) = 4
  BY <1>8, WordLength
<1>10. KeysBytes(list, zero) \in Seq(Byte) /\ Len(list) <= Len(KeysBytes(list, zero))
       /\ KeysBytes(<<>>, zero) = <<>>
  BY <1>1, <1>4, <1>5 DEF KeysBytes
<1>11. /\ WriteKeys(list, zero) \in Seq(Byte)
       /\ Len(WriteKeys(list, zero)) = 4 + Len(KeysBytes(list, zero))
  BY <1>7, <1>9, <1>10, Together
<1> QED BY <1>7, <1>10, <1>11

\* A key more at either end of a list is its bytes more at that end.
LEMMA KeysGrow ==
  ASSUME NEW list \in Seq(CaptureKey), NEW k \in CaptureKey, NEW zero \in Byte
  PROVE  /\ KeysBytes(Append(list, k), zero) = KeysBytes(list, zero) \o WriteCaptureKey(k, zero)
         /\ KeysBytes(Cons(k, list), zero) = WriteCaptureKey(k, zero) \o KeysBytes(list, zero)
         /\ WriteCaptureKey(k, zero) \in Seq(Byte)
<1>1. PICK f : f = KeyWriter(zero)
  OBVIOUS
<1>2. \A j \in CaptureKey : WriteCaptureKey(j, zero) \in Seq(Byte)
  BY KeyBytes
<1>3. Takes(f, CaptureKey, Seq(Byte)) /\ f[k] = WriteCaptureKey(k, zero)
  BY <1>1, <1>2 DEF KeyWriter, Takes
<1>4. PICK S, T : S = CaptureKey /\ T = Byte
  OBVIOUS
<1>5. Takes(f, S, Seq(T)) /\ list \in Seq(S) /\ k \in S
  BY <1>3, <1>4
<1>6. Joined(f, Append(list, k)) = Joined(f, list) \o f[k]
  BY <1>5, JoinedAppend
<1>7. Joined(f, Cons(k, list)) = f[k] \o Joined(f, list)
  BY <1>5, JoinedCons
<1> QED BY <1>1, <1>2, <1>3, <1>6, <1>7 DEF KeysBytes

\* The fields of a capture record.
LEMMA RecordFields ==
  ASSUME NEW rec \in CaptureRecord
  PROVE  /\ rec.tx_hash \in Seq(Byte) /\ Len(rec.tx_hash) = 32
         /\ rec.source_account \in String /\ rec.source_account \in Seq(Byte)
         /\ rec.read_only \in Seq(CaptureKey) /\ rec.read_write \in Seq(CaptureKey)
         /\ rec = [tx_hash |-> rec.tx_hash, source_account |-> rec.source_account,
                   read_only |-> rec.read_only, read_write |-> rec.read_write]
<1>1. /\ rec.tx_hash \in Fixed(32) /\ rec.source_account \in String
      /\ rec.read_only \in Seq(CaptureKey) /\ rec.read_write \in Seq(CaptureKey)
      /\ rec = [tx_hash |-> rec.tx_hash, source_account |-> rec.source_account,
                read_only |-> rec.read_only, read_write |-> rec.read_write]
  BY DEF CaptureRecord
<1>2. rec.tx_hash \in Seq(Byte) /\ Len(rec.tx_hash) = 32
  BY <1>1 DEF Fixed
<1>3. rec.source_account \in Seq(Byte)
  BY <1>1 DEF String
<1> QED BY <1>1, <1>2, <1>3

\* A record is written as its head and its two arrays.
LEMMA RecordIsWritten ==
  ASSUME NEW rec \in CaptureRecord, NEW zero \in Byte
  PROVE  /\ HeadBytes(rec, zero) \in Seq(Byte) /\ Len(HeadBytes(rec, zero)) > 0
         /\ WriteRecord(rec, zero)
              = (HeadBytes(rec, zero) \o WriteKeys(rec.read_only, zero))
                  \o WriteKeys(rec.read_write, zero)
         /\ WriteRecord(rec, zero) \in Seq(Byte) /\ Len(WriteRecord(rec, zero)) > 0
<1>1. PICK o, s, a, c :
        /\ o = WriteOpaque(rec.tx_hash, zero) /\ s = WriteString(rec.source_account, zero)
        /\ a = WriteKeys(rec.read_only, zero) /\ c = WriteKeys(rec.read_write, zero)
  OBVIOUS
<1>2. /\ rec.tx_hash \in Seq(Byte) /\ rec.source_account \in Seq(Byte)
      /\ rec.read_only \in Seq(CaptureKey) /\ rec.read_write \in Seq(CaptureKey)
  BY RecordFields
<1>3. o \in Seq(Byte)
  BY <1>1, <1>2, OpaqueBytes
<1>4. s \in Seq(Byte) /\ Len(s) = 4 + Len(WriteOpaque(rec.source_account, zero))
  BY <1>1, <1>2, StringBytes
<1>5. a \in Seq(Byte) /\ c \in Seq(Byte)
  BY <1>1, <1>2, KeysAreWritten
<1>6. Len(s) > 0
  <2>1. WriteOpaque(rec.source_account, zero) \in Seq(Byte)
    BY <1>2, OpaqueBytes
  <2>2. Len(WriteOpaque(rec.source_account, zero)) \in Nat
    BY <2>1, LenProperties
  <2> QED BY <1>4, <2>2
<1>7. HeadBytes(rec, zero) = o \o s
  BY <1>1 DEF HeadBytes
<1>8. PICK h : h = o \o s
  OBVIOUS
<1>9. h \in Seq(Byte) /\ Len(h) > 0 /\ Len(h) \in Nat
  <2>1. h \in Seq(Byte) /\ Len(h) = Len(o) + Len(s) /\ Len(o) \in Nat /\ Len(s) \in Nat
    BY <1>3, <1>4, <1>8, Together
  <2> QED BY <1>6, <2>1
<1>10. WriteRecord(rec, zero) = (h \o a) \o c
  BY <1>1, <1>8 DEF WriteRecord
<1>11. PICK ha : ha = h \o a
  OBVIOUS
<1>12. ha \in Seq(Byte) /\ Len(ha) > 0 /\ Len(ha) \in Nat
  <2>1. ha \in Seq(Byte) /\ Len(ha) = Len(h) + Len(a) /\ Len(a) \in Nat
    BY <1>5, <1>9, <1>11, Together
  <2> QED BY <1>9, <2>1
<1>13. ha \o c \in Seq(Byte) /\ Len(ha \o c) > 0
  <2>1. ha \o c \in Seq(Byte) /\ Len(ha \o c) = Len(ha) + Len(c) /\ Len(c) \in Nat
    BY <1>5, <1>12, Together
  <2> QED BY <1>12, <2>1
<1> QED BY <1>1, <1>7, <1>8, <1>9, <1>10, <1>11, <1>13

\* The records of a capture are written one after the other, and none is empty.
LEMMA RecordsAreWritten ==
  ASSUME NEW list \in Seq(CaptureRecord), NEW zero \in Byte
  PROVE  /\ RecordsBytes(list, zero) \in Seq(Byte)
         /\ Len(list) <= Len(RecordsBytes(list, zero))
         /\ RecordsBytes(<<>>, zero) = <<>>
         /\ FlattenSeq([i \in DOMAIN list |-> WriteRecord(list[i], zero)])
              = RecordsBytes(list, zero)
<1>1. PICK f : f = RecordWriter(zero)
  OBVIOUS
<1>2. \A r \in CaptureRecord : /\ WriteRecord(r, zero) \in Seq(Byte)
                               /\ Len(WriteRecord(r, zero)) > 0
  BY RecordIsWritten
<1>3. /\ Takes(f, CaptureRecord, Seq(Byte))
      /\ \A r \in CaptureRecord : f[r] = WriteRecord(r, zero) /\ Len(f[r]) > 0
  BY <1>1, <1>2 DEF RecordWriter, Takes
<1>4. Joined(f, list) \in Seq(Byte) /\ Len(list) <= Len(Joined(f, list))
  BY <1>3, JoinedLength
<1>5. Joined(f, <<>>) = <<>>
  BY JoinedEmpty
<1>6. Mapped(f, list) = [i \in DOMAIN list |-> WriteRecord(list[i], zero)]
  <2>1. \A i \in DOMAIN list : list[i] \in CaptureRecord
    BY LenProperties, ElementOfSeq
  <2> QED BY <1>3, <2>1 DEF Mapped
<1>7. FlattenSeq([i \in DOMAIN list |-> WriteRecord(list[i], zero)]) = RecordsBytes(list, zero)
  BY <1>1, <1>6 DEF RecordsBytes, Joined
<1> QED BY <1>1, <1>4, <1>5, <1>7 DEF RecordsBytes

\* A record more at either end of a list is its bytes more at that end.
LEMMA RecordsGrow ==
  ASSUME NEW list \in Seq(CaptureRecord), NEW r \in CaptureRecord, NEW zero \in Byte
  PROVE  /\ RecordsBytes(Append(list, r), zero) = RecordsBytes(list, zero) \o WriteRecord(r, zero)
         /\ RecordsBytes(Cons(r, list), zero) = WriteRecord(r, zero) \o RecordsBytes(list, zero)
         /\ WriteRecord(r, zero) \in Seq(Byte)
<1>1. PICK f : f = RecordWriter(zero)
  OBVIOUS
<1>2. \A j \in CaptureRecord : WriteRecord(j, zero) \in Seq(Byte)
  BY RecordIsWritten
<1>3. Takes(f, CaptureRecord, Seq(Byte)) /\ f[r] = WriteRecord(r, zero)
  BY <1>1, <1>2 DEF RecordWriter, Takes
<1>4. PICK S, T : S = CaptureRecord /\ T = Byte
  OBVIOUS
<1>5. Takes(f, S, Seq(T)) /\ list \in Seq(S) /\ r \in S
  BY <1>3, <1>4
<1>6. Joined(f, Append(list, r)) = Joined(f, list) \o f[r]
  BY <1>5, JoinedAppend
<1>7. Joined(f, Cons(r, list)) = f[r] \o Joined(f, list)
  BY <1>5, JoinedCons
<1> QED BY <1>1, <1>2, <1>3, <1>6, <1>7 DEF RecordsBytes

-----------------------------------------------------------------------------
\* Said in a word of its own: lists of bytes can be put together in any order.
IsBytes(x) == x \in Seq(Byte)

\* It does not matter how lists of bytes are put together.
LEMMA Regroup ==
  ASSUME NEW x, NEW y, NEW z, IsBytes(x), IsBytes(y), IsBytes(z)
  PROVE  (x \o y) \o z = x \o (y \o z) /\ IsBytes(x \o y)
BY ConcatAssociative, Together, SMTT(30) DEF IsBytes

AllBytes(m, v, x, y, z, w) ==
  IsBytes(m) /\ IsBytes(v) /\ IsBytes(x) /\ IsBytes(y) /\ IsBytes(z) /\ IsBytes(w)

\* Six lists one after the other, grouped in two ways.
FromTheLeft(m, v, x, y, z, w) == ((((m \o v) \o x) \o y) \o z) \o w
AsAHeader(m, v, x, y, z, w) == m \o (v \o (((x \o y) \o z) \o w))

\* The header is written from the left, and read part by part.
LEMMA Regrouped ==
  ASSUME NEW m, NEW v, NEW x, NEW y, NEW z, NEW w,
         AllBytes(m, v, x, y, z, w)
  PROVE  FromTheLeft(m, v, x, y, z, w) = AsAHeader(m, v, x, y, z, w)
<1>0. IsBytes(m) /\ IsBytes(v) /\ IsBytes(x) /\ IsBytes(y) /\ IsBytes(z) /\ IsBytes(w)
  BY DEF AllBytes
<1>1. PICK mv, xy, xyz, r : mv = m \o v /\ xy = x \o y /\ xyz = xy \o z /\ r = xyz \o w
  OBVIOUS
<1>2. IsBytes(mv) /\ IsBytes(xy)
  BY <1>0, <1>1, Regroup
<1>3. IsBytes(xyz)
  BY <1>0, <1>1, <1>2, Regroup
<1>4. IsBytes(r)
  BY <1>0, <1>1, <1>3, Regroup
<1>5. (mv \o x) \o y = mv \o (x \o y)
  BY <1>0, <1>2, Regroup
<1>6. (mv \o xy) \o z = mv \o (xy \o z)
  BY <1>0, <1>2, Regroup
<1>7. (mv \o xyz) \o w = mv \o (xyz \o w)
  BY <1>0, <1>2, <1>3, Regroup
<1>8. (m \o v) \o r = m \o (v \o r)
  BY <1>0, <1>4, Regroup
<1> QED BY <1>1, <1>5, <1>6, <1>7, <1>8 DEF FromTheLeft, AsAHeader

\* The fields of a header are typed.
IsHeader(cap) ==
  /\ cap.from_ledger \in Fixed(4) /\ cap.to_ledger \in Fixed(4)
  /\ cap.checkpoint_count \in Fixed(4)

\* A header has 24 bytes, 12 of which are carried along.
LEMMA HeaderIsWritten ==
  ASSUME NEW cap, IsHeader(cap), NEW w \in Seq(Byte), Len(w) = 4
  PROVE  /\ Words(cap) \in Seq(Byte) /\ Len(Words(cap)) = 12
         /\ HeaderBytes(cap, w) \in Seq(Byte) /\ Len(HeaderBytes(cap, w)) = 24
<1>1. PICK x, y, z : x = cap.from_ledger /\ y = cap.to_ledger /\ z = cap.checkpoint_count
  OBVIOUS
<1>2. /\ x \in Seq(Byte) /\ y \in Seq(Byte) /\ z \in Seq(Byte)
      /\ Len(x) = 4 /\ Len(y) = 4 /\ Len(z) = 4
  BY <1>1 DEF IsHeader, Fixed
<1>3. PICK xy, xyz : xy = x \o y /\ xyz = xy \o z
  OBVIOUS
<1>4. xy \in Seq(Byte) /\ Len(xy) = 8
  <2>1. xy \in Seq(Byte) /\ Len(xy) = Len(x) + Len(y)
    BY <1>2, <1>3, Together
  <2> QED BY <1>2, <2>1
<1>5. xyz \in Seq(Byte) /\ Len(xyz) = 12
  <2>1. xyz \in Seq(Byte) /\ Len(xyz) = Len(xy) + Len(z)
    BY <1>2, <1>3, <1>4, Together
  <2> QED BY <1>2, <1>4, <2>1
<1>6. Words(cap) = xyz
  BY <1>1, <1>3 DEF Words
<1>7. PICK m, v : m = WordBytes(MAGIC) /\ v = WordBytes(VERSION)
  OBVIOUS
<1>8. m \in Seq(Byte) /\ v \in Seq(Byte) /\ Len(m) = 4 /\ Len(v) = 4
  BY <1>7, Sizes, WordLength
<1>9. PICK r, vr : r = xyz \o w /\ vr = v \o r
  OBVIOUS
<1>10. r \in Seq(Byte) /\ Len(r) = 16
  <2>1. r \in Seq(Byte) /\ Len(r) = Len(xyz) + Len(w)
    BY <1>5, <1>9, Together
  <2> QED BY <1>5, <2>1
<1>11. vr \in Seq(Byte) /\ Len(vr) = 20
  <2>1. vr \in Seq(Byte) /\ Len(vr) = Len(v) + Len(r)
    BY <1>8, <1>9, <1>10, Together
  <2> QED BY <1>8, <1>10, <2>1
<1>12. m \o vr \in Seq(Byte) /\ Len(m \o vr) = 24
  <2>1. m \o vr \in Seq(Byte) /\ Len(m \o vr) = Len(m) + Len(vr)
    BY <1>8, <1>11, Together
  <2> QED BY <1>8, <1>11, <2>1
<1>13. HeaderBytes(cap, w) = m \o vr
  BY <1>6, <1>7, <1>9 DEF HeaderBytes
<1> QED BY <1>5, <1>6, <1>12, <1>13

\* A capture is written as its header and its records.
LEMMA CaptureIsWritten ==
  ASSUME NEW cap, IsHeader(cap), cap.records \in Seq(CaptureRecord), NEW zero \in Byte
  PROVE  /\ EncodeCapture(cap, zero)
              = HeaderBytes(cap, WordBytes(Len(cap.records))) \o RecordsBytes(cap.records, zero)
         /\ Len(cap.records) \in Nat
<1>1. PICK x, y, z : x = cap.from_ledger /\ y = cap.to_ledger /\ z = cap.checkpoint_count
  OBVIOUS
<1>2. x \in Seq(Byte) /\ y \in Seq(Byte) /\ z \in Seq(Byte)
  BY <1>1 DEF IsHeader, Fixed
<1>3. PICK m, v, w : /\ m = WordBytes(MAGIC) /\ v = WordBytes(VERSION)
                     /\ w = WordBytes(Len(cap.records))
  OBVIOUS
<1>4. Len(cap.records) \in Nat
  BY LenProperties
<1>5. m \in Seq(Byte) /\ v \in Seq(Byte) /\ w \in Seq(Byte)
  BY <1>3, <1>4, Sizes, WordLength
<1>6. ((((m \o v) \o x) \o y) \o z) \o w = m \o (v \o (((x \o y) \o z) \o w))
  <2>1. AllBytes(m, v, x, y, z, w)
    BY <1>2, <1>5 DEF AllBytes, IsBytes
  <2>2. FromTheLeft(m, v, x, y, z, w) = AsAHeader(m, v, x, y, z, w)
    BY <2>1, Regrouped
  <2> QED BY <2>2 DEF FromTheLeft, AsAHeader
<1>7. HeaderBytes(cap, w) = m \o (v \o (((x \o y) \o z) \o w))
  BY <1>1, <1>3 DEF HeaderBytes, Words
<1>8. EncodeCapture(cap, zero)
        = (((((m \o v) \o x) \o y) \o z) \o w)
            \o FlattenSeq([i \in DOMAIN cap.records |-> WriteRecord(cap.records[i], zero)])
  BY <1>1, <1>3 DEF EncodeCapture
<1>9. FlattenSeq([i \in DOMAIN cap.records |-> WriteRecord(cap.records[i], zero)])
        = RecordsBytes(cap.records, zero)
  BY RecordsAreWritten
<1> QED BY <1>3, <1>4, <1>6, <1>7, <1>8, <1>9

\* A value is carried over from a read that succeeds.
LEMMA DeliversNext ==
  ASSUME NEW b \in Seq(Byte), NEW x \in Seq(Byte), NEW p, NEW read, NEW v,
         Delivers(read, b, p, x, v), p + Len(x) <= Len(b)
  PROVE  read.error = NoError /\ read.value = v /\ read.pos = p + Len(x)
BY DEF Delivers, Ok

\* A value is put together when the last read succeeds.
LEMMA DeliversLast ==
  ASSUME NEW b, NEW x, NEW p, NEW read, NEW v, Delivers(read, b, p, x, v),
         NEW last, NEW u,
         read.error # NoError => last = read,
         p + Len(x) <= Len(b) => last = Ok(u, read.pos)
  PROVE  Delivers(last, b, p, x, u)
<1>1. CASE p + Len(x) <= Len(b)
  <2>1. read.pos = p + Len(x)
    BY <1>1 DEF Delivers, Ok
  <2> QED BY <1>1, <2>1 DEF Delivers
<1>2. CASE ~(p + Len(x) <= Len(b))
  <2>1. read = Fail("Overrun")
    BY <1>2 DEF Delivers
  <2>2. read.error # NoError
    BY <2>1 DEF Fail, NoError
  <2> QED BY <1>2, <2>1, <2>2 DEF Delivers
<1> QED BY <1>1, <1>2

\* The fields in front of the keys are read as they were written.
LEMMA ReadRecordHeadRight ==
  ASSUME NEW b \in Seq(Byte), NEW rec \in CaptureRecord, NEW zero \in Byte, NEW p,
         Agrees(b, p, HeadBytes(rec, zero))
  PROVE  Delivers(ReadRecordHead(b, p), b, p, HeadBytes(rec, zero),
                  [tx_hash |-> rec.tx_hash, source_account |-> rec.source_account])
<1>1. PICK x, a : x = rec.tx_hash /\ a = rec.source_account
  OBVIOUS
<1>2. x \in Seq(Byte) /\ Len(x) = 32 /\ a \in String /\ a \in Seq(Byte)
  BY <1>1, RecordFields
<1>3. PICK o, s : o = WriteOpaque(x, zero) /\ s = WriteString(a, zero)
  OBVIOUS
<1>4. o \in Seq(Byte) /\ s \in Seq(Byte) /\ HeadBytes(rec, zero) = o \o s
  BY <1>1, <1>2, <1>3, OpaqueBytes, StringBytes DEF HeadBytes
<1>5. Agrees(b, p, o \o s) /\ p \in Nat
  BY <1>4 DEF Agrees
<1>6. Agrees(b, p, o) /\ (p + Len(o) <= Len(b) => Agrees(b, p + Len(o), s))
  BY <1>4, <1>5, AgreesConcat
<1>7. PICK first : first = ReadOpaque(b, p, 32)
  OBVIOUS
<1>8. Delivers(first, b, p, o, x)
  <2>1. Delivers(ReadOpaque(b, p, Len(x)), b, p, WriteOpaque(x, zero), x)
    BY <1>2, <1>3, <1>6, ReadOpaqueRight
  <2> QED BY <1>2, <1>3, <1>7, <2>1
<1>9. PICK one : one = ReadString(b, first.pos)
  OBVIOUS
<1>10. PICK second : second = IF one.error # NoError THEN one
                              ELSE Ok([tx_hash |-> first.value, source_account |-> one.value], one.pos)
  OBVIOUS
<1>11. ReadRecordHead(b, p) = IF first.error # NoError THEN first ELSE second
  BY <1>7, <1>9, <1>10 DEF ReadRecordHead, Then
<1>12. PICK v : v = [tx_hash |-> x, source_account |-> a]
  OBVIOUS
<1>13. ASSUME p + Len(o) <= Len(b) PROVE Delivers(second, b, p + Len(o), s, v)
  <2>1. first.value = x /\ first.pos = p + Len(o)
    BY <1>4, <1>8, <1>13, DeliversNext
  <2>2. Delivers(one, b, p + Len(o), s, a)
    <3>1. Delivers(ReadString(b, p + Len(o)), b, p + Len(o), WriteString(a, zero), a)
      BY <1>2, <1>3, <1>6, <1>13, ReadStringRight
    <3> QED BY <1>3, <1>9, <2>1, <3>1
  <2>3. p + Len(o) + Len(s) <= Len(b) => second = Ok(v, one.pos)
    <3> SUFFICES ASSUME p + Len(o) + Len(s) <= Len(b) PROVE second = Ok(v, one.pos)
      OBVIOUS
    <3>1. one.error = NoError /\ one.value = a
      BY <1>4, <2>2, DeliversNext
    <3> QED BY <1>10, <1>12, <2>1, <3>1
  <2>4. one.error # NoError => second = one
    BY <1>10
  <2> QED BY <2>2, <2>3, <2>4, DeliversLast
<1>14. Delivers(IF first.error # NoError THEN first ELSE second, b, p, o \o s, v)
  BY <1>4, <1>5, <1>8, <1>13, DeliversConcat
<1> QED BY <1>1, <1>4, <1>11, <1>12, <1>14

\* The parts of three words.
LEMMA WordsSplit ==
  ASSUME NEW cap, IsHeader(cap)
  PROVE  /\ SubSeq(Words(cap), 1, 4) = cap.from_ledger
         /\ SubSeq(Words(cap), 5, 8) = cap.to_ledger
         /\ SubSeq(Words(cap), 9, 12) = cap.checkpoint_count
<1>1. PICK x, y, z : x = cap.from_ledger /\ y = cap.to_ledger /\ z = cap.checkpoint_count
  OBVIOUS
<1>2. /\ x \in Seq(Byte) /\ y \in Seq(Byte) /\ z \in Seq(Byte)
      /\ Len(x) = 4 /\ Len(y) = 4 /\ Len(z) = 4
  BY <1>1 DEF IsHeader, Fixed
<1>3. PICK xy, all : xy = x \o y /\ all = xy \o z
  OBVIOUS
<1>4. xy \in Seq(Byte) /\ Len(xy) = 8 /\ \A i \in 1..8 : xy[i] = IF i <= 4 THEN x[i] ELSE y[i - 4]
  <2>1. /\ xy \in Seq(Byte) /\ Len(xy) = Len(x) + Len(y)
        /\ \A i \in 1..(Len(x) + Len(y)) : xy[i] = IF i <= Len(x) THEN x[i] ELSE y[i - Len(x)]
    BY <1>2, <1>3, ConcatProperties
  <2> QED BY <1>2, <2>1
<1>5. all \in Seq(Byte) /\ Len(all) = 12 /\ \A i \in 1..12 : all[i] = IF i <= 8 THEN xy[i] ELSE z[i - 8]
  <2>1. /\ all \in Seq(Byte) /\ Len(all) = Len(xy) + Len(z)
        /\ \A i \in 1..(Len(xy) + Len(z)) : all[i] = IF i <= Len(xy) THEN xy[i] ELSE z[i - Len(xy)]
    BY <1>2, <1>3, <1>4, ConcatProperties
  <2> QED BY <1>2, <1>4, <2>1
<1>6. ASSUME NEW m \in {0, 4, 8}, NEW u \in Seq(Byte), Len(u) = 4,
             \A i \in 1..4 : all[m + i] = u[i]
      PROVE  SubSeq(all, m + 1, m + 4) = u
  <2>1. PICK s : s = SubSeq(all, m + 1, m + 4)
    OBVIOUS
  <2>2. \A i \in (m + 1)..(m + 4) : all[i] \in Byte
    <3>1. \A i \in (m + 1)..(m + 4) : i \in 1..Len(all)
      BY <1>5
    <3> QED BY <1>5, <3>1, ElementOfSeq
  <2>3. /\ s \in Seq(Byte)
        /\ Len(s) = IF m + 1 <= m + 4 THEN (m + 4) - (m + 1) + 1 ELSE 0
        /\ \A i \in 1..((m + 4) - (m + 1) + 1) : s[i] = all[(m + 1) + i - 1]
    <3>1. m + 1 \in Int /\ m + 4 \in Int
      OBVIOUS
    <3> QED BY <2>1, <2>2, <3>1, SubSeqProperties
  <2>4. /\ (IF m + 1 <= m + 4 THEN (m + 4) - (m + 1) + 1 ELSE 0) = 4
        /\ (m + 4) - (m + 1) + 1 = 4 /\ \A i \in 1..4 : (m + 1) + i - 1 = m + i
    OBVIOUS
  <2>5. Len(s) = 4 /\ \A i \in 1..4 : s[i] = u[i]
    BY <1>6, <2>3, <2>4
  <2>6. s = u
    BY <1>6, <2>3, <2>5, SeqEqual
  <2> QED BY <2>1, <2>6
<1>7. /\ \A i \in 1..4 : all[0 + i] = x[i]
      /\ \A i \in 1..4 : all[4 + i] = y[i]
      /\ \A i \in 1..4 : all[8 + i] = z[i]
  <2>1. ASSUME NEW i \in 1..4 PROVE all[0 + i] = x[i] /\ all[4 + i] = y[i] /\ all[8 + i] = z[i]
    <3>1. PICK j, k : j = 4 + i /\ k = 8 + i
      OBVIOUS
    <3>2. /\ i \in 1..12 /\ j \in 1..12 /\ k \in 1..12 /\ i \in 1..8 /\ j \in 1..8
          /\ i <= 8 /\ j <= 8 /\ ~(k <= 8) /\ i <= 4 /\ ~(j <= 4) /\ j - 4 = i /\ k - 8 = i
          /\ 0 + i = i
      BY <3>1
    <3>3. all[i] = xy[i] /\ all[j] = xy[j] /\ all[k] = z[k - 8]
      BY <1>5, <3>2
    <3>4. xy[i] = x[i] /\ xy[j] = y[j - 4]
      BY <1>4, <3>2
    <3> QED BY <3>1, <3>2, <3>3, <3>4
  <2> QED BY <2>1
<1>8. SubSeq(all, 0 + 1, 0 + 4) = x /\ SubSeq(all, 4 + 1, 4 + 4) = y /\ SubSeq(all, 8 + 1, 8 + 4) = z
  BY <1>2, <1>6, <1>7
<1>9. SubSeq(all, 1, 4) = x /\ SubSeq(all, 5, 8) = y /\ SubSeq(all, 9, 12) = z
  <2>1. 0 + 1 = 1 /\ 0 + 4 = 4 /\ 4 + 1 = 5 /\ 4 + 4 = 8 /\ 8 + 1 = 9 /\ 8 + 4 = 12
    OBVIOUS
  <2> QED BY <1>8, <2>1
<1>10. Words(cap) = all
  BY <1>1, <1>3 DEF Words
<1> QED BY <1>1, <1>9, <1>10

\* What reading a header returns.
HeaderOf(cap, n) ==
  [from_ledger |-> cap.from_ledger, to_ledger |-> cap.to_ledger,
   checkpoint_count |-> cap.checkpoint_count, count |-> n]

\* The header is read as it was written.
LEMMA ReadHeaderRight ==
  ASSUME NEW b \in Seq(Byte), NEW cap, IsHeader(cap), NEW n \in Nat, n < Huge, NEW p,
         Agrees(b, p, HeaderBytes(cap, WordBytes(n)))
  PROVE  Delivers(ReadHeader(b, p), b, p, HeaderBytes(cap, WordBytes(n)), HeaderOf(cap, n))
<1>1. PICK m, v, d, w : /\ m = WordBytes(MAGIC) /\ v = WordBytes(VERSION)
                        /\ d = Words(cap) /\ w = WordBytes(n)
  OBVIOUS
<1>2. /\ m \in Seq(Byte) /\ v \in Seq(Byte) /\ w \in Seq(Byte) /\ d \in Seq(Byte)
      /\ Len(d) = 12 /\ Len(w) = 4
  <2>1. m \in Seq(Byte) /\ v \in Seq(Byte) /\ w \in Seq(Byte) /\ Len(w) = 4
    BY <1>1, Sizes, WordLength
  <2>2. d \in Seq(Byte) /\ Len(d) = 12
    BY <1>1, <2>1, HeaderIsWritten
  <2> QED BY <2>1, <2>2
<1>3. PICK dw, vdw : dw = d \o w /\ vdw = v \o dw
  OBVIOUS
<1>4. dw \in Seq(Byte)
  BY <1>2, <1>3, Together
<1>5. vdw \in Seq(Byte)
  BY <1>2, <1>3, <1>4, Together
<1>6. HeaderBytes(cap, WordBytes(n)) = m \o vdw
  BY <1>1, <1>3 DEF HeaderBytes
<1>7. p \in Nat /\ Agrees(b, p, m \o vdw)
  BY <1>6 DEF Agrees
<1>8. Agrees(b, p, m) /\ (p + Len(m) <= Len(b) => Agrees(b, p + Len(m), vdw))
  BY <1>2, <1>5, <1>7, AgreesConcat
<1>9. PICK r1 : r1 = ReadU32(b, p)
  OBVIOUS
<1>10. PICK r2 : r2 = ReadU32(b, r1.pos)
  OBVIOUS
<1>11. PICK r3 : r3 = ReadN(b, r2.pos, 12)
  OBVIOUS
<1>12. PICK r4 : r4 = ReadU32(b, r3.pos)
  OBVIOUS
<1>13. PICK s4 : s4 = IF r4.error # NoError THEN r4
                      ELSE Ok([from_ledger      |-> SubSeq(r3.value, 1, 4),
                               to_ledger        |-> SubSeq(r3.value, 5, 8),
                               checkpoint_count |-> SubSeq(r3.value, 9, 12),
                               count            |-> r4.value], r4.pos)
  OBVIOUS
<1>14. PICK s3 : s3 = IF r3.error # NoError THEN r3 ELSE s4
  OBVIOUS
<1>15. PICK s2 : s2 = IF r2.value # VERSION THEN Fail("UnsupportedVersion") ELSE s3
  OBVIOUS
<1>16. PICK t2 : t2 = IF r2.error # NoError THEN r2 ELSE s2
  OBVIOUS
<1>17. PICK s1 : s1 = IF r1.value # MAGIC THEN Fail("BadMagic") ELSE t2
  OBVIOUS
<1>18. ReadHeader(b, p) = IF r1.error # NoError THEN r1 ELSE s1
  BY <1>9, <1>10, <1>11, <1>12, <1>13, <1>14, <1>15, <1>16, <1>17 DEF ReadHeader, Then
<1>19. PICK h : h = HeaderOf(cap, n)
  OBVIOUS
<1>20. Delivers(r1, b, p, m, MAGIC)
  BY <1>1, <1>8, <1>9, Sizes, ReadU32Right
<1>21. ASSUME p + Len(m) <= Len(b) PROVE Delivers(s1, b, p + Len(m), vdw, h)
  <2>1. PICK q : q = p + Len(m)
    OBVIOUS
  <2>2. r1.value = MAGIC /\ r1.pos = q /\ q \in Nat
    <3>1. r1.value = MAGIC /\ r1.pos = p + Len(m)
      BY <1>2, <1>20, <1>21, DeliversNext
    <3>2. Len(m) \in Nat
      BY <1>2, LenProperties
    <3> QED BY <1>7, <2>1, <3>1, <3>2
  <2>3. Agrees(b, q, v) /\ (q + Len(v) <= Len(b) => Agrees(b, q + Len(v), dw))
    <3>1. Agrees(b, q, v \o dw)
      BY <1>3, <1>8, <1>21, <2>1
    <3> QED BY <1>2, <1>4, <3>1, AgreesConcat
  <2>4. Delivers(r2, b, q, v, VERSION)
    BY <1>1, <1>10, <2>2, <2>3, Sizes, ReadU32Right
  <2>5. ASSUME q + Len(v) <= Len(b) PROVE Delivers(s2, b, q + Len(v), dw, h)
    <3>1. PICK r : r = q + Len(v)
      OBVIOUS
    <3>2. r2.value = VERSION /\ r2.pos = r /\ r \in Nat
      <4>1. r2.value = VERSION /\ r2.pos = q + Len(v)
        BY <1>2, <2>4, <2>5, DeliversNext
      <4>2. Len(v) \in Nat
        BY <1>2, LenProperties
      <4> QED BY <2>2, <3>1, <4>1, <4>2
    <3>3. Agrees(b, r, d) /\ (r + Len(d) <= Len(b) => Agrees(b, r + Len(d), w))
      <4>1. Agrees(b, r, d \o w)
        BY <1>3, <2>3, <2>5, <3>1
      <4> QED BY <1>2, <4>1, AgreesConcat
    <3>4. Delivers(r3, b, r, d, d)
      <4>1. Delivers(ReadN(b, r, Len(d)), b, r, d, d)
        BY <1>2, <3>3, ReadNRight
      <4> QED BY <1>2, <1>11, <3>2, <4>1
    <3>5. ASSUME r + Len(d) <= Len(b) PROVE Delivers(s4, b, r + Len(d), w, h)
      <4>1. r3.value = d /\ r3.pos = r + Len(d)
        BY <3>4, <3>5 DEF Delivers, Ok
      <4>2. Delivers(r4, b, r + Len(d), w, n)
        <5>1. Delivers(ReadU32(b, r + Len(d)), b, r + Len(d), w, n)
          BY <1>1, <3>3, <3>5, ReadU32Right
        <5> QED BY <1>12, <4>1, <5>1
      <4>3. r + Len(d) + Len(w) <= Len(b) => s4 = Ok(h, r4.pos)
        <5> SUFFICES ASSUME r + Len(d) + Len(w) <= Len(b) PROVE s4 = Ok(h, r4.pos)
          OBVIOUS
        <5>1. r4.error = NoError /\ r4.value = n
          BY <4>2 DEF Delivers, Ok
        <5>2. /\ SubSeq(r3.value, 1, 4) = cap.from_ledger
              /\ SubSeq(r3.value, 5, 8) = cap.to_ledger
              /\ SubSeq(r3.value, 9, 12) = cap.checkpoint_count
          BY <1>1, <4>1, WordsSplit
        <5> QED BY <1>13, <1>19, <5>1, <5>2 DEF HeaderOf
      <4>4. r4.error # NoError => s4 = r4
        BY <1>13
      <4> QED BY <4>2, <4>3, <4>4, DeliversLast
    <3>6. Delivers(s3, b, r, d \o w, h)
      BY <1>2, <1>14, <3>2, <3>4, <3>5, DeliversConcat
    <3>7. s2 = s3
      BY <1>15, <3>2
    <3> QED BY <1>3, <3>1, <3>6, <3>7
  <2>6. Delivers(t2, b, q, v \o dw, h)
    BY <1>2, <1>4, <1>16, <2>2, <2>4, <2>5, DeliversConcat
  <2>7. s1 = t2
    BY <1>17, <2>2
  <2> QED BY <1>3, <2>1, <2>6, <2>7
<1>22. Delivers(IF r1.error # NoError THEN r1 ELSE s1, b, p, m \o vdw, h)
  BY <1>2, <1>5, <1>7, <1>20, <1>21, DeliversConcat
<1> QED BY <1>6, <1>18, <1>19, <1>22

-----------------------------------------------------------------------------
\* The other direction: what a read accepts is what is written for its value,
\* except where the padding is, which is not looked at.

\* The bytes of b behind the first p, up to the q-th, are those of z, except
\* where z and o differ.
Covers(b, p, q, z, o) ==
  /\ p \in Nat /\ q \in Nat /\ q <= Len(b)
  /\ z \in Seq(Byte) /\ o \in Seq(Byte)
  /\ p + Len(z) = q /\ Len(o) = Len(z)
  /\ \A i \in 1..Len(z) : b[p + i] # z[i] => o[i] # z[i]

\* Two pieces of a buffer that follow one another are one piece.
LEMMA CoversConcat ==
  ASSUME NEW b, NEW p, NEW q, NEW r, NEW z, NEW o, NEW y, NEW u,
         Covers(b, p, q, z, o), Covers(b, q, r, y, u)
  PROVE  Covers(b, p, r, z \o y, o \o u)
<1>1. PICK m, n, zy, ou : m = Len(z) /\ n = Len(y) /\ zy = z \o y /\ ou = o \o u
  OBVIOUS
<1>2. /\ p \in Nat /\ q \in Nat /\ r \in Nat /\ r <= Len(b)
      /\ z \in Seq(Byte) /\ o \in Seq(Byte) /\ y \in Seq(Byte) /\ u \in Seq(Byte)
      /\ p + m = q /\ Len(o) = m /\ q + n = r /\ Len(u) = n
  BY <1>1 DEF Covers
<1>3. m \in Nat /\ n \in Nat
  BY <1>1, <1>2, LenProperties
<1>4. /\ zy \in Seq(Byte) /\ Len(zy) = m + n
      /\ \A i \in 1..(m + n) : zy[i] = IF i <= m THEN z[i] ELSE y[i - m]
  <2>1. /\ zy \in Seq(Byte) /\ Len(zy) = Len(z) + Len(y)
        /\ \A i \in 1..(Len(z) + Len(y)) : zy[i] = IF i <= Len(z) THEN z[i] ELSE y[i - Len(z)]
    BY <1>1, <1>2, ConcatProperties
  <2> QED BY <1>1, <2>1
<1>5. /\ ou \in Seq(Byte) /\ Len(ou) = m + n
      /\ \A i \in 1..(m + n) : ou[i] = IF i <= m THEN o[i] ELSE u[i - m]
  <2>1. /\ ou \in Seq(Byte) /\ Len(ou) = Len(o) + Len(u)
        /\ \A i \in 1..(Len(o) + Len(u)) : ou[i] = IF i <= Len(o) THEN o[i] ELSE u[i - Len(o)]
    BY <1>1, <1>2, ConcatProperties
  <2> QED BY <1>2, <2>1
<1>6. ASSUME NEW i \in 1..(m + n), b[p + i] # zy[i] PROVE ou[i] # zy[i]
  <2>1. CASE i <= m
    <3>1. i \in 1..m
      BY <1>3, <2>1
    <3>2. b[p + i] # z[i] => o[i] # z[i]
      BY <1>1, <3>1 DEF Covers
    <3> QED BY <1>4, <1>5, <1>6, <2>1, <3>2
  <2>2. CASE ~(i <= m)
    <3>1. PICK j : j = i - m
      OBVIOUS
    <3>2. j \in 1..n /\ q + j = p + i
      BY <1>2, <1>3, <2>2, <3>1
    <3>3. b[q + j] # y[j] => u[j] # y[j]
      BY <1>1, <3>2 DEF Covers
    <3>4. zy[i] = y[j] /\ ou[i] = u[j]
      BY <1>4, <1>5, <2>2, <3>1
    <3> QED BY <1>6, <3>2, <3>3, <3>4
  <2> QED BY <2>1, <2>2
<1>7. p + (m + n) = r
  BY <1>2, <1>3
<1> QED BY <1>1, <1>2, <1>4, <1>5, <1>6, <1>7 DEF Covers

\* At a place of b.
Place(b, p) == b \in Seq(Byte) /\ p \in Nat /\ p <= Len(b)

\* What a read of n bytes returns is what stood there.
LEMMA ReadNSound ==
  ASSUME NEW b, NEW p, Place(b, p), NEW n \in Nat,
         NEW r, r = ReadN(b, p, n), r.error = NoError
  PROVE  /\ r.value \in Seq(Byte) /\ Len(r.value) = n
         /\ Place(b, r.pos) /\ r.pos = p + n /\ n <= Len(b)
         /\ Covers(b, p, r.pos, r.value, r.value)
<1>1. b \in Seq(Byte) /\ p \in Nat /\ p <= Len(b) /\ Len(b) \in Nat
  BY LenProperties DEF Place
<1>2. ~(n > Len(b) - p)
  BY DEF ReadN, Fail, NoError
<1>3. p + n <= Len(b) /\ n <= Len(b)
  BY <1>1, <1>2
<1>4. PICK s : s = SubSeq(b, p + 1, p + n)
  OBVIOUS
<1>5. r.value = s /\ r.pos = p + n
  BY <1>2, <1>4 DEF ReadN, Ok
<1>6. s \in Seq(Byte) /\ Len(s) = n /\ \A i \in 1..n : s[i] = b[p + i]
  <2>1. \A i \in (p + 1)..(p + n) : b[i] \in Byte
    BY <1>1, <1>3, ElementOfSeq
  <2>2. p + 1 \in Int /\ p + n \in Int
    BY <1>1
  <2>3. /\ s \in Seq(Byte)
        /\ Len(s) = IF p + 1 <= p + n THEN (p + n) - (p + 1) + 1 ELSE 0
        /\ \A i \in 1..((p + n) - (p + 1) + 1) : s[i] = b[(p + 1) + i - 1]
    BY <1>4, <2>1, <2>2, SubSeqProperties
  <2>4. /\ (IF p + 1 <= p + n THEN (p + n) - (p + 1) + 1 ELSE 0) = n
        /\ (p + n) - (p + 1) + 1 = n
        /\ \A i \in 1..n : (p + 1) + i - 1 = p + i
    BY <1>1
  <2> QED BY <2>3, <2>4
<1>7. p + n \in Nat
  BY <1>1
<1> QED BY <1>1, <1>3, <1>5, <1>6, <1>7 DEF Covers, Place

\* What read_u32 returns is the word that stood there, whoever wrote it.
LEMMA ReadU32Sound ==
  ASSUME NEW b, NEW p, Place(b, p), NEW r, r = ReadU32(b, p), r.error = NoError
  PROVE  /\ Place(b, r.pos) /\ r.pos = p + 4
         /\ r.value \in Nat /\ r.value <= Huge
         /\ \E w \in Seq(Byte) : /\ Len(w) = 4 /\ Word(w) = r.value
                                 /\ Covers(b, p, r.pos, w, w)
<1>1. PICK f : f = ReadN(b, p, 4)
  OBVIOUS
<1>2. r = IF f.error # NoError THEN f ELSE Ok(Word(f.value), f.pos)
  BY <1>1 DEF ReadU32, Then
<1>3. f.error = NoError
  BY <1>2
<1>4. /\ f.value \in Seq(Byte) /\ Len(f.value) = 4
      /\ Place(b, f.pos) /\ f.pos = p + 4
      /\ Covers(b, p, f.pos, f.value, f.value)
  <2>1. PICK n : n = 4
    OBVIOUS
  <2>2. n \in Nat /\ f = ReadN(b, p, n)
    BY <1>1, <2>1
  <2>3. /\ f.value \in Seq(Byte) /\ Len(f.value) = n
        /\ Place(b, f.pos) /\ f.pos = p + n
        /\ Covers(b, p, f.pos, f.value, f.value)
    BY <1>3, <2>2, ReadNSound
  <2> QED BY <2>1, <2>3
<1>5. r.value = Word(f.value) /\ r.pos = f.pos
  BY <1>2, <1>3 DEF Ok
<1>6. Word(f.value) \in Nat /\ Word(f.value) <= Huge
  BY <1>4, WordBack
<1> QED BY <1>4, <1>5, <1>6

\* What read_opaque accepts is what write_opaque writes, padding apart.
LEMMA ReadOpaqueSound ==
  ASSUME NEW b, NEW p, Place(b, p), NEW n \in Nat,
         NEW r, r = ReadOpaque(b, p, n), r.error = NoError
  PROVE  /\ r.value \in Seq(Byte) /\ Len(r.value) = n /\ n <= Len(b)
         /\ Place(b, r.pos)
         /\ Covers(b, p, r.pos, WriteOpaque(r.value, 0), WriteOpaque(r.value, 1))
<1>1. PICK f : f = ReadN(b, p, n)
  OBVIOUS
<1>2. PICK g : g = ReadN(b, f.pos, Pad(n))
  OBVIOUS
<1>3. r = IF f.error # NoError THEN f
          ELSE IF g.error # NoError THEN g ELSE Ok(f.value, g.pos)
  BY <1>1, <1>2 DEF ReadOpaque, Then
<1>4. f.error = NoError
  BY <1>3
<1>5. g.error = NoError /\ r.value = f.value /\ r.pos = g.pos
  BY <1>3, <1>4 DEF Ok
<1>6. /\ f.value \in Seq(Byte) /\ Len(f.value) = n /\ Place(b, f.pos) /\ n <= Len(b)
      /\ Covers(b, p, f.pos, f.value, f.value)
  BY <1>1, <1>4, ReadNSound
<1>7. 0 \in Byte /\ 1 \in Byte
  BY SMT DEF Byte
<1>8. Pad(n) \in Nat
  <2>1. Pad(n) \in 0..3
    BY <1>7, PaddingBytes
  <2> QED BY <2>1
<1>9. /\ Place(b, g.pos) /\ Len(g.value) = Pad(n)
      /\ Covers(b, f.pos, g.pos, g.value, g.value)
  BY <1>2, <1>5, <1>6, <1>8, ReadNSound
<1>10. PICK y, u : y = [i \in 1..Pad(n) |-> 0] /\ u = [i \in 1..Pad(n) |-> 1]
  OBVIOUS
<1>11. Covers(b, f.pos, g.pos, y, u)
  <2>1. y \in Seq(Byte) /\ Len(y) = Pad(n)
    BY <1>7, <1>10, PaddingBytes
  <2>2. u \in Seq(Byte) /\ Len(u) = Pad(n)
    BY <1>7, <1>10, PaddingBytes
  <2>3. \A i \in 1..Pad(n) : u[i] # y[i]
    BY <1>10
  <2>4. /\ f.pos \in Nat /\ g.pos \in Nat /\ g.pos <= Len(b) /\ f.pos + Pad(n) = g.pos
    BY <1>9 DEF Covers
  <2> QED BY <2>1, <2>2, <2>3, <2>4 DEF Covers
<1>12. Covers(b, p, g.pos, f.value \o y, f.value \o u)
  BY <1>6, <1>11, CoversConcat
<1>13. WriteOpaque(f.value, 0) = f.value \o y /\ WriteOpaque(f.value, 1) = f.value \o u
  BY <1>6, <1>10 DEF WriteOpaque
<1> QED BY <1>5, <1>6, <1>9, <1>12, <1>13

\* What read_string accepts is what write_string writes, padding apart.
LEMMA ReadStringSound ==
  ASSUME NEW b, NEW p, Place(b, p), Len(b) < Huge, NEW r, r = ReadString(b, p), r.error = NoError
  PROVE  /\ r.value \in String /\ Place(b, r.pos)
         /\ Covers(b, p, r.pos, WriteString(r.value, 0), WriteString(r.value, 1))
<1>1. PICK f : f = ReadU32(b, p)
  OBVIOUS
<1>2. PICK g : g = ReadOpaque(b, f.pos, f.value)
  OBVIOUS
<1>3. PICK h : h = IF f.error # NoError THEN f ELSE g
  OBVIOUS
<1>4. r = IF h.error # NoError THEN h
          ELSE IF ValidUtf8(h.value) THEN Ok(h.value, h.pos) ELSE Fail("InvalidUtf8")
  BY <1>1, <1>2, <1>3 DEF ReadString, ReadBytes, Then
<1>5. h.error = NoError
  BY <1>4
<1>6. f.error = NoError /\ h = g
  BY <1>3, <1>5
<1>7. ValidUtf8(g.value) /\ r.value = g.value /\ r.pos = g.pos
  <2>1. ValidUtf8(h.value)
    BY <1>4, <1>5 DEF Fail, NoError
  <2> QED BY <1>4, <1>5, <1>6, <2>1 DEF Ok
<1>8. /\ Place(b, f.pos) /\ f.value \in Nat
      /\ \E w \in Seq(Byte) : Len(w) = 4 /\ Word(w) = f.value /\ Covers(b, p, f.pos, w, w)
  BY <1>1, <1>6, ReadU32Sound
<1>9. PICK w \in Seq(Byte) : Len(w) = 4 /\ Word(w) = f.value /\ Covers(b, p, f.pos, w, w)
  BY <1>8
<1>10. /\ g.value \in Seq(Byte) /\ Len(g.value) = f.value /\ f.value <= Len(b) /\ Place(b, g.pos)
       /\ Covers(b, f.pos, g.pos, WriteOpaque(g.value, 0), WriteOpaque(g.value, 1))
  BY <1>2, <1>5, <1>6, <1>8, ReadOpaqueSound
<1>11. w = WordBytes(Len(g.value))
  <2>1. Len(b) \in Nat
    BY LenProperties DEF Place
  <2>2. Word(w) < Huge
    <3>1. Word(w) = f.value /\ f.value \in Nat /\ f.value <= Len(b) /\ Len(b) < Huge
      BY <1>8, <1>9, <1>10
    <3> QED BY <2>1, <3>1, Sizes
  <2> QED BY <1>9, <1>10, <2>2, WordBack
<1>12. Covers(b, p, g.pos, w \o WriteOpaque(g.value, 0), w \o WriteOpaque(g.value, 1))
  BY <1>9, <1>10, CoversConcat
<1>13. WriteString(g.value, 0) = w \o WriteOpaque(g.value, 0)
       /\ WriteString(g.value, 1) = w \o WriteOpaque(g.value, 1)
  BY <1>11 DEF WriteString
<1> QED BY <1>7, <1>10, <1>12, <1>13 DEF String

\* What CaptureKey::read accepts is what CaptureKey::write writes, padding apart.
LEMMA ReadCaptureKeySound ==
  ASSUME NEW b, NEW p, Place(b, p), Len(b) < Huge,
         NEW r, r = ReadCaptureKey(b, p), r.error = NoError
  PROVE  /\ r.value \in CaptureKey /\ Place(b, r.pos) /\ r.pos > p
         /\ Covers(b, p, r.pos, WriteCaptureKey(r.value, 0), WriteCaptureKey(r.value, 1))
<1>1. PICK f : f = ReadU32(b, p)
  OBVIOUS
<1>2. PICK g : g = ReadString(b, f.pos)
  OBVIOUS
<1>3. PICK h : h = ReadString(b, g.pos)
  OBVIOUS
<1>4. PICK k : k = [key_type |-> f.value, field_1 |-> g.value, field_2 |-> h.value]
  OBVIOUS
<1>5. PICK t : t = IF f.value \notin LedgerKeyType THEN Fail("UnknownKeyType")
                   ELSE IF g.error # NoError THEN g
                   ELSE IF h.error # NoError THEN h ELSE Ok(k, h.pos)
  OBVIOUS
<1>6. r = IF f.error # NoError THEN f ELSE t
  BY <1>1, <1>2, <1>3, <1>4, <1>5 DEF ReadCaptureKey, Then
<1>7. f.error = NoError /\ r = t
  BY <1>6
<1>8. f.value \in LedgerKeyType
  BY <1>5, <1>7 DEF Fail, NoError
<1>9. g.error = NoError /\ h.error = NoError
  BY <1>5, <1>7, <1>8
<1>10. r.value = k /\ r.pos = h.pos
  BY <1>5, <1>7, <1>8, <1>9 DEF Ok
<1>11. /\ Place(b, f.pos) /\ f.pos = p + 4
       /\ \E w \in Seq(Byte) : Len(w) = 4 /\ Word(w) = f.value /\ Covers(b, p, f.pos, w, w)
  BY <1>1, <1>7, ReadU32Sound
<1>12. PICK w \in Seq(Byte) : Len(w) = 4 /\ Word(w) = f.value /\ Covers(b, p, f.pos, w, w)
  BY <1>11
<1>13. /\ g.value \in String /\ Place(b, g.pos)
       /\ Covers(b, f.pos, g.pos, WriteString(g.value, 0), WriteString(g.value, 1))
  BY <1>2, <1>9, <1>11, ReadStringSound
<1>14. /\ h.value \in String /\ Place(b, h.pos)
       /\ Covers(b, g.pos, h.pos, WriteString(h.value, 0), WriteString(h.value, 1))
  BY <1>3, <1>9, <1>13, ReadStringSound
<1>15. k \in CaptureKey
  BY <1>4, <1>8, <1>13, <1>14 DEF CaptureKey
<1>16. w = WordBytes(k.key_type)
  <2>1. k.key_type \in 0..255
    BY <1>15, KeyFields
  <2>2. Word(w) < Huge /\ Word(w) = k.key_type
    BY <1>4, <1>12, <2>1, Sizes
  <2> QED BY <1>12, <2>2, WordBack
<1>17. PICK s, y, u, v : /\ s = WriteString(g.value, 0) /\ y = WriteString(g.value, 1)
                         /\ u = WriteString(h.value, 0) /\ v = WriteString(h.value, 1)
  OBVIOUS
<1>18. Covers(b, p, g.pos, w \o s, w \o y)
  BY <1>12, <1>13, <1>17, CoversConcat
<1>19. Covers(b, p, h.pos, (w \o s) \o u, (w \o y) \o v)
  BY <1>14, <1>17, <1>18, CoversConcat
<1>20. WriteCaptureKey(k, 0) = (w \o s) \o u /\ WriteCaptureKey(k, 1) = (w \o y) \o v
  BY <1>4, <1>16, <1>17 DEF WriteCaptureKey
<1>21. h.pos > p
  <2>1. /\ p \in Nat /\ f.pos \in Nat /\ g.pos \in Nat /\ h.pos \in Nat
        /\ f.pos + Len(s) = g.pos /\ g.pos + Len(u) = h.pos
        /\ s \in Seq(Byte) /\ u \in Seq(Byte)
    BY <1>12, <1>13, <1>14, <1>17 DEF Covers
  <2>2. Len(s) \in Nat /\ Len(u) \in Nat
    BY <2>1, LenProperties
  <2> QED BY <1>11, <2>1, <2>2
<1> QED BY <1>10, <1>14, <1>15, <1>19, <1>20, <1>21

\* What is accepted as a record's head is what is written for it, padding apart.
LEMMA ReadRecordHeadSound ==
  ASSUME NEW b, NEW p, Place(b, p), Len(b) < Huge,
         NEW r, r = ReadRecordHead(b, p), r.error = NoError
  PROVE  /\ r.value.tx_hash \in Fixed(32) /\ r.value.source_account \in String
         /\ Place(b, r.pos)
         /\ Covers(b, p, r.pos, HeadBytes(r.value, 0), HeadBytes(r.value, 1))
<1>1. PICK n : n = 32
  OBVIOUS
<1>2. PICK f : f = ReadOpaque(b, p, n)
  OBVIOUS
<1>3. PICK g : g = ReadString(b, f.pos)
  OBVIOUS
<1>4. PICK v : v = [tx_hash |-> f.value, source_account |-> g.value]
  OBVIOUS
<1>5. r = IF f.error # NoError THEN f ELSE IF g.error # NoError THEN g ELSE Ok(v, g.pos)
  BY <1>1, <1>2, <1>3, <1>4 DEF ReadRecordHead, Then
<1>6. f.error = NoError /\ g.error = NoError
  BY <1>5
<1>7. r.value = v /\ r.pos = g.pos
  BY <1>5, <1>6 DEF Ok
<1>8. /\ f.value \in Seq(Byte) /\ Len(f.value) = n /\ Place(b, f.pos)
      /\ Covers(b, p, f.pos, WriteOpaque(f.value, 0), WriteOpaque(f.value, 1))
  <2>1. n \in Nat
    BY <1>1
  <2> QED BY <1>2, <1>6, <2>1, ReadOpaqueSound
<1>9. /\ g.value \in String /\ Place(b, g.pos)
      /\ Covers(b, f.pos, g.pos, WriteString(g.value, 0), WriteString(g.value, 1))
  BY <1>3, <1>6, <1>8, ReadStringSound
<1>10. Covers(b, p, g.pos, WriteOpaque(f.value, 0) \o WriteString(g.value, 0),
                           WriteOpaque(f.value, 1) \o WriteString(g.value, 1))
  BY <1>8, <1>9, CoversConcat
<1>11. v.tx_hash = f.value /\ v.source_account = g.value
  BY <1>4
<1>12. /\ HeadBytes(v, 0) = WriteOpaque(f.value, 0) \o WriteString(g.value, 0)
       /\ HeadBytes(v, 1) = WriteOpaque(f.value, 1) \o WriteString(g.value, 1)
  BY <1>11 DEF HeadBytes
<1>13. f.value \in Fixed(32)
  BY <1>1, <1>8 DEF Fixed
<1> QED BY <1>7, <1>9, <1>10, <1>11, <1>12, <1>13

\* Twelve bytes are three words.
LEMMA ThreeWords ==
  ASSUME NEW d \in Seq(Byte), Len(d) = 12
  PROVE  /\ SubSeq(d, 1, 4) \in Fixed(4) /\ SubSeq(d, 5, 8) \in Fixed(4)
         /\ SubSeq(d, 9, 12) \in Fixed(4)
         /\ (SubSeq(d, 1, 4) \o SubSeq(d, 5, 8)) \o SubSeq(d, 9, 12) = d
<1>1. ASSUME NEW m \in {1, 5, 9} PROVE SubSeq(d, m, m + 3) \in Fixed(4)
  <2>1. \A i \in m..(m + 3) : d[i] \in Byte
    <3>1. \A i \in m..(m + 3) : i \in 1..Len(d)
      OBVIOUS
    <3> QED BY <3>1, ElementOfSeq
  <2>2. m \in Int /\ m + 3 \in Int
    OBVIOUS
  <2>3. /\ SubSeq(d, m, m + 3) \in Seq(Byte)
        /\ Len(SubSeq(d, m, m + 3)) = IF m <= m + 3 THEN (m + 3) - m + 1 ELSE 0
    BY <2>1, <2>2, SubSeqProperties
  <2>4. (IF m <= m + 3 THEN (m + 3) - m + 1 ELSE 0) = 4
    OBVIOUS
  <2> QED BY <2>3, <2>4 DEF Fixed
<1>2. SubSeq(d, 1, 1 + 3) \in Fixed(4) /\ SubSeq(d, 5, 5 + 3) \in Fixed(4) /\ SubSeq(d, 9, 9 + 3) \in Fixed(4)
  BY <1>1
<1>3. SubSeq(d, 1, 4) \in Fixed(4) /\ SubSeq(d, 5, 8) \in Fixed(4) /\ SubSeq(d, 9, 12) \in Fixed(4)
  <2>1. 1 + 3 = 4 /\ 5 + 3 = 8 /\ 9 + 3 = 12
    OBVIOUS
  <2> QED BY <1>2, <2>1
<1>4. ASSUME NEW k \in 0..12, NEW n \in k..12
      PROVE  SubSeq(d, 1, k) \o SubSeq(d, k + 1, n) = SubSeq(d, 1, n)
  <2>1. 1 \in 1..(Len(d) + 1) /\ k \in (1 - 1)..Len(d) /\ n \in k..Len(d)
    OBVIOUS
  <2> QED BY <2>1, ConcatAdjacentSubSeq
<1>5. SubSeq(d, 1, 4) \o SubSeq(d, 5, 8) = SubSeq(d, 1, 8)
  <2>1. 4 \in 0..12 /\ 8 \in 4..12 /\ 4 + 1 = 5
    OBVIOUS
  <2>2. SubSeq(d, 1, 4) \o SubSeq(d, 4 + 1, 8) = SubSeq(d, 1, 8)
    BY <1>4, <2>1
  <2> QED BY <2>1, <2>2
<1>6. SubSeq(d, 1, 8) \o SubSeq(d, 9, 12) = SubSeq(d, 1, 12)
  <2>1. 8 \in 0..12 /\ 12 \in 8..12 /\ 8 + 1 = 9
    OBVIOUS
  <2>2. SubSeq(d, 1, 8) \o SubSeq(d, 8 + 1, 12) = SubSeq(d, 1, 12)
    BY <1>4, <2>1
  <2> QED BY <2>1, <2>2
<1>7. SubSeq(d, 1, 12) = d
  <2>1. SubSeq(d, 1, Len(d)) = d
    BY SubSeqFull
  <2> QED BY <2>1
<1> QED BY <1>3, <1>5, <1>6, <1>7

\* What is accepted as a header is what is written for it.
LEMMA ReadHeaderSound ==
  ASSUME NEW b, NEW p, Place(b, p), NEW r, r = ReadHeader(b, p), r.error = NoError
  PROVE  /\ IsHeader(r.value) /\ r.value.count \in Nat /\ r.value.count <= Huge
         /\ Place(b, r.pos)
         /\ \E w \in Seq(Byte) :
              /\ Len(w) = 4 /\ Word(w) = r.value.count
              /\ Covers(b, p, r.pos, HeaderBytes(r.value, w), HeaderBytes(r.value, w))
<1>0. PICK n : n = 12
  OBVIOUS
<1>1. PICK r1 : r1 = ReadU32(b, p)
  OBVIOUS
<1>2. PICK r2 : r2 = ReadU32(b, r1.pos)
  OBVIOUS
<1>3. PICK r3 : r3 = ReadN(b, r2.pos, n)
  OBVIOUS
<1>4. PICK r4 : r4 = ReadU32(b, r3.pos)
  OBVIOUS
<1>5. PICK h : h = [from_ledger      |-> SubSeq(r3.value, 1, 4),
                    to_ledger        |-> SubSeq(r3.value, 5, 8),
                    checkpoint_count |-> SubSeq(r3.value, 9, 12),
                    count            |-> r4.value]
  OBVIOUS
<1>6. PICK s3 : s3 = IF r3.error # NoError THEN r3
                     ELSE IF r4.error # NoError THEN r4 ELSE Ok(h, r4.pos)
  OBVIOUS
<1>7. PICK s2 : s2 = IF r2.error # NoError THEN r2
                     ELSE IF r2.value # VERSION THEN Fail("UnsupportedVersion") ELSE s3
  OBVIOUS
<1>8. PICK s1 : s1 = IF r1.value # MAGIC THEN Fail("BadMagic") ELSE s2
  OBVIOUS
<1>9. r = IF r1.error # NoError THEN r1 ELSE s1
  BY <1>0, <1>1, <1>2, <1>3, <1>4, <1>5, <1>6, <1>7, <1>8 DEF ReadHeader, Then
<1>10. r1.error = NoError /\ r = s1
  BY <1>9
<1>11. r1.value = MAGIC /\ r = s2
  BY <1>8, <1>10 DEF Fail, NoError
<1>12. r2.error = NoError
  BY <1>7, <1>11
<1>13. r2.value = VERSION /\ r = s3
  BY <1>7, <1>11, <1>12 DEF Fail, NoError
<1>14. r3.error = NoError /\ r4.error = NoError
  BY <1>6, <1>13
<1>15. r.value = h /\ r.pos = r4.pos
  BY <1>6, <1>13, <1>14 DEF Ok
<1>16. /\ Place(b, r1.pos)
       /\ \E w \in Seq(Byte) : Len(w) = 4 /\ Word(w) = r1.value /\ Covers(b, p, r1.pos, w, w)
  BY <1>1, <1>10, ReadU32Sound
<1>17. PICK m \in Seq(Byte) : Len(m) = 4 /\ Word(m) = r1.value /\ Covers(b, p, r1.pos, m, m)
  BY <1>16
<1>18. /\ Place(b, r2.pos)
       /\ \E w \in Seq(Byte) : Len(w) = 4 /\ Word(w) = r2.value /\ Covers(b, r1.pos, r2.pos, w, w)
  BY <1>2, <1>12, <1>16, ReadU32Sound
<1>19. PICK v \in Seq(Byte) : Len(v) = 4 /\ Word(v) = r2.value /\ Covers(b, r1.pos, r2.pos, v, v)
  BY <1>18
<1>20. /\ r3.value \in Seq(Byte) /\ Len(r3.value) = n /\ Place(b, r3.pos)
       /\ Covers(b, r2.pos, r3.pos, r3.value, r3.value)
  <2>1. n \in Nat
    BY <1>0
  <2> QED BY <1>3, <1>14, <1>18, <2>1, ReadNSound
<1>21. /\ Place(b, r4.pos) /\ r4.value \in Nat /\ r4.value <= Huge
       /\ \E w \in Seq(Byte) : Len(w) = 4 /\ Word(w) = r4.value /\ Covers(b, r3.pos, r4.pos, w, w)
  BY <1>4, <1>14, <1>20, ReadU32Sound
<1>22. PICK w \in Seq(Byte) : Len(w) = 4 /\ Word(w) = r4.value /\ Covers(b, r3.pos, r4.pos, w, w)
  BY <1>21
<1>23. m = WordBytes(MAGIC)
  BY <1>11, <1>17, Sizes, WordBack
<1>24. v = WordBytes(VERSION)
  BY <1>13, <1>19, Sizes, WordBack
<1>25. IsHeader(h) /\ Words(h) = r3.value /\ h.count = r4.value
  <2>1. Len(r3.value) = 12
    BY <1>0, <1>20
  <2>2. /\ SubSeq(r3.value, 1, 4) \in Fixed(4) /\ SubSeq(r3.value, 5, 8) \in Fixed(4)
        /\ SubSeq(r3.value, 9, 12) \in Fixed(4)
        /\ (SubSeq(r3.value, 1, 4) \o SubSeq(r3.value, 5, 8)) \o SubSeq(r3.value, 9, 12) = r3.value
    BY <1>20, <2>1, ThreeWords
  <2>3. /\ h.from_ledger = SubSeq(r3.value, 1, 4) /\ h.to_ledger = SubSeq(r3.value, 5, 8)
        /\ h.checkpoint_count = SubSeq(r3.value, 9, 12) /\ h.count = r4.value
    BY <1>5
  <2> QED BY <2>2, <2>3 DEF IsHeader, Words
<1>26. Covers(b, r2.pos, r4.pos, r3.value \o w, r3.value \o w)
  BY <1>20, <1>22, CoversConcat
<1>27. Covers(b, r1.pos, r4.pos, v \o (r3.value \o w), v \o (r3.value \o w))
  BY <1>19, <1>26, CoversConcat
<1>28. Covers(b, p, r4.pos, m \o (v \o (r3.value \o w)), m \o (v \o (r3.value \o w)))
  BY <1>17, <1>27, CoversConcat
<1>29. HeaderBytes(h, w) = m \o (v \o (r3.value \o w))
  BY <1>23, <1>24, <1>25 DEF HeaderBytes
<1> QED BY <1>15, <1>21, <1>22, <1>25, <1>28, <1>29

-----------------------------------------------------------------------------
\* The invariant of the decoder: the bytes in front of its position are those
\* written for what it has read, whatever the document.

\* The arrays of a record, which are also the parts in which they are read.
Arrays == {"read_only", "read_write"}

\* The header and the records of cap are what stands in front of q, and its
\* count is n records more.
CoversRecords(b, q, cap, n) ==
  \E w \in Seq(Byte), h \in Nat :
    /\ Len(w) = 4 /\ Word(w) = n + Len(cap.records)
    /\ Covers(b, 0, h, HeaderBytes(cap, w), HeaderBytes(cap, w))
    /\ Covers(b, h, q, RecordsBytes(cap.records, 0), RecordsBytes(cap.records, 1))

\* What a record has in front of an array of keys.
BeforeArray(rec, which, zero) ==
  IF which = "read_only" THEN HeadBytes(rec, zero)
  ELSE HeadBytes(rec, zero) \o WriteKeys(rec.read_only, zero)

\* From s to q there are the fields of a record up to the keys read so far, and
\* the count of the array is n keys more.
CoversArray(b, s, q, which, rec, n) ==
  \E w \in Seq(Byte), m \in Nat :
    /\ Len(w) = 4 /\ Word(w) = n + Len(rec[which])
    /\ Covers(b, s, m, BeforeArray(rec, which, 0), BeforeArray(rec, which, 1))
    /\ Covers(b, m, q, w \o KeysBytes(rec[which], 0), w \o KeysBytes(rec[which], 1))

\* What is in front of the position is what is written for what was read: the
\* header, the completed records and, inside a record, its fields so far.  The
\* counts say how much is to come.
ConsumedInv ==
  /\ document \in Documents /\ Place(document.buf, pos)
  /\ part \in {"header", "record", "read_only", "read_write", "done", "failed"}
  /\ records \in Nat /\ keys \in Nat
  /\ part = "header" => pos = 0
  /\ part \in Arrays \cup {"record", "done"} => capture \in ArchiveCapture
  /\ part = "done" => records = 0
  /\ part \in {"record", "done"} => CoversRecords(document.buf, pos, capture, records)
  /\ part \in Arrays =>
       /\ records > 0 /\ record \in CaptureRecord
       /\ part = "read_only" => record.read_write = <<>>
       /\ \E s \in Nat : /\ CoversRecords(document.buf, s, capture, records)
                         /\ CoversArray(document.buf, s, pos, part, record, keys)

\* Both paddings are bytes.
LEMMA ZeroAndOne == 0 \in Byte /\ 1 \in Byte
BY SMT DEF Byte

\* Nothing stands between a place and itself.
LEMMA CoversNothing ==
  ASSUME NEW b, NEW p, Place(b, p)
  PROVE  Covers(b, p, p, <<>>, <<>>)
<1>1. <<>> \in Seq(Byte) /\ Len(<<>>) = 0
  BY EmptySeq
<1> QED BY <1>1 DEF Covers, Place

\* A key is put behind those of its array.
Puts(new, rec, which, k) == new = [rec EXCEPT ![which] = Append(@, k)]

\* What read_vec's push does to a record.
LEMMA PutKey ==
  ASSUME NEW rec \in CaptureRecord, NEW which \in Arrays, NEW k \in CaptureKey,
         NEW new, Puts(new, rec, which, k)
  PROVE  /\ new \in CaptureRecord /\ rec[which] \in Seq(CaptureKey)
         /\ new[which] = Append(rec[which], k)
         /\ new.tx_hash = rec.tx_hash /\ new.source_account = rec.source_account
         /\ which = "read_only" => new.read_write = rec.read_write
         /\ which = "read_write" => new.read_only = rec.read_only
<1>1. /\ rec.read_only \in Seq(CaptureKey) /\ rec.read_write \in Seq(CaptureKey)
      /\ Append(rec.read_only, k) \in Seq(CaptureKey)
      /\ Append(rec.read_write, k) \in Seq(CaptureKey)
  BY RecordFields, AppendProperties
<1>2. CASE which = "read_only"
  BY <1>1, <1>2 DEF CaptureRecord, Puts
<1>3. CASE which = "read_write"
  BY <1>1, <1>3 DEF CaptureRecord, Puts
<1> QED BY <1>2, <1>3 DEF Arrays

\* The fields of a capture.
LEMMA CaptureFields ==
  ASSUME NEW cap \in ArchiveCapture
  PROVE  /\ IsHeader(cap) /\ cap.records \in Seq(CaptureRecord)
         /\ cap = [from_ledger |-> cap.from_ledger, to_ledger |-> cap.to_ledger,
                   checkpoint_count |-> cap.checkpoint_count, records |-> cap.records]
BY DEF ArchiveCapture, IsHeader

\* A record is put behind those of its capture.
LEMMA PutRecord ==
  ASSUME NEW cap \in ArchiveCapture, NEW rec \in CaptureRecord,
         NEW new, new = [cap EXCEPT !.records = Append(@, rec)]
  PROVE  /\ new \in ArchiveCapture /\ new.records = Append(cap.records, rec)
         /\ new.from_ledger = cap.from_ledger /\ new.to_ledger = cap.to_ledger
         /\ new.checkpoint_count = cap.checkpoint_count
<1>1. cap.records \in Seq(CaptureRecord) /\ Append(cap.records, rec) \in Seq(CaptureRecord)
  BY CaptureFields, AppendProperties
<1> QED BY <1>1 DEF ArchiveCapture

\* A header is written the same for every capture that has it.
LEMMA SameHeader ==
  ASSUME NEW a, NEW c, a.from_ledger = c.from_ledger, a.to_ledger = c.to_ledger,
         a.checkpoint_count = c.checkpoint_count
  PROVE  (\A w : HeaderBytes(a, w) = HeaderBytes(c, w)) /\ (IsHeader(a) => IsHeader(c))
BY DEF HeaderBytes, Words, IsHeader

\* One key more.
LEMMA ArrayGrows ==
  ASSUME NEW b, NEW s, NEW p, NEW q, NEW which \in Arrays, NEW rec \in CaptureRecord,
         NEW n \in Nat, n > 0, CoversArray(b, s, p, which, rec, n),
         NEW k \in CaptureKey, Covers(b, p, q, WriteCaptureKey(k, 0), WriteCaptureKey(k, 1)),
         NEW new, Puts(new, rec, which, k)
  PROVE  CoversArray(b, s, q, which, new, n - 1)
<1>1. PICK w \in Seq(Byte), m \in Nat :
        /\ Len(w) = 4 /\ Word(w) = n + Len(rec[which])
        /\ Covers(b, s, m, BeforeArray(rec, which, 0), BeforeArray(rec, which, 1))
        /\ Covers(b, m, p, w \o KeysBytes(rec[which], 0), w \o KeysBytes(rec[which], 1))
  BY DEF CoversArray
<1>2. PICK list : list = rec[which]
  OBVIOUS
<1>3. /\ list \in Seq(CaptureKey) /\ new[which] = Append(list, k)
      /\ new.tx_hash = rec.tx_hash /\ new.source_account = rec.source_account
      /\ which = "read_write" => new.read_only = rec.read_only
  BY <1>2, PutKey
<1>4. PICK kz, ko, z, o : /\ kz = KeysBytes(list, 0) /\ ko = KeysBytes(list, 1)
                          /\ z = WriteCaptureKey(k, 0) /\ o = WriteCaptureKey(k, 1)
  OBVIOUS
<1>5. Covers(b, m, q, (w \o kz) \o z, (w \o ko) \o o)
  BY <1>1, <1>2, <1>4, CoversConcat
<1>6. IsBytes(w) /\ IsBytes(kz) /\ IsBytes(ko) /\ IsBytes(z) /\ IsBytes(o)
  <2>1. kz \in Seq(Byte) /\ ko \in Seq(Byte)
    BY <1>3, <1>4, ZeroAndOne, KeysAreWritten
  <2>2. z \in Seq(Byte) /\ o \in Seq(Byte)
    BY <1>4 DEF Covers
  <2> QED BY <2>1, <2>2 DEF IsBytes
<1>7. (w \o kz) \o z = w \o (kz \o z) /\ (w \o ko) \o o = w \o (ko \o o)
  BY <1>6, Regroup, SMTT(30)
<1>8. KeysBytes(new[which], 0) = kz \o z /\ KeysBytes(new[which], 1) = ko \o o
  BY <1>3, <1>4, ZeroAndOne, KeysGrow
<1>9. Word(w) = (n - 1) + Len(new[which])
  <2>1. Len(Append(list, k)) = Len(list) + 1 /\ Len(list) \in Nat
    BY <1>3, AppendProperties, LenProperties
  <2> QED BY <1>1, <1>2, <1>3, <2>1
<1>10. /\ BeforeArray(new, which, 0) = BeforeArray(rec, which, 0)
       /\ BeforeArray(new, which, 1) = BeforeArray(rec, which, 1)
  <2>1. which # "read_only" => new.read_only = rec.read_only
    BY <1>3 DEF Arrays
  <2> QED BY <1>3, <2>1 DEF BeforeArray, HeadBytes
<1> QED BY <1>1, <1>5, <1>7, <1>8, <1>9, <1>10 DEF CoversArray

\* An array that has all its keys is a written one.
LEMMA ArrayEnds ==
  ASSUME NEW b, Len(b) < Huge, NEW s, NEW p, Place(b, p), NEW which \in Arrays,
         NEW rec \in CaptureRecord, CoversArray(b, s, p, which, rec, 0)
  PROVE  Covers(b, s, p, BeforeArray(rec, which, 0) \o WriteKeys(rec[which], 0),
                         BeforeArray(rec, which, 1) \o WriteKeys(rec[which], 1))
<1>1. PICK w \in Seq(Byte), m \in Nat :
        /\ Len(w) = 4 /\ Word(w) = 0 + Len(rec[which])
        /\ Covers(b, s, m, BeforeArray(rec, which, 0), BeforeArray(rec, which, 1))
        /\ Covers(b, m, p, w \o KeysBytes(rec[which], 0), w \o KeysBytes(rec[which], 1))
  BY DEF CoversArray
<1>2. PICK list : list = rec[which]
  OBVIOUS
<1>3. list \in Seq(CaptureKey) /\ Len(list) \in Nat
  <2>1. list \in Seq(CaptureKey)
    BY <1>2, RecordFields DEF Arrays
  <2> QED BY <2>1, LenProperties
<1>4. PICK kz : kz = KeysBytes(list, 0)
  OBVIOUS
<1>5. kz \in Seq(Byte) /\ Len(list) <= Len(kz) /\ Len(kz) \in Nat
  <2>1. kz \in Seq(Byte) /\ Len(list) <= Len(kz)
    BY <1>3, <1>4, ZeroAndOne, KeysAreWritten
  <2> QED BY <2>1, LenProperties
<1>6. w = WordBytes(Len(list))
  <2>1. m + Len(w \o kz) = p /\ p <= Len(b) /\ Len(b) \in Nat /\ p \in Nat
    BY <1>1, <1>2, <1>4, LenProperties DEF Covers, Place
  <2>2. Len(w \o kz) = Len(w) + Len(kz)
    BY <1>5, Together
  <2>3. Len(list) <= Len(b)
    BY <1>1, <1>3, <1>5, <2>1, <2>2
  <2>4. Word(w) < Huge /\ Word(w) = Len(list)
    BY <1>1, <1>2, <1>3, <2>1, <2>3, Sizes
  <2> QED BY <1>1, <2>4, WordBack
<1>7. /\ WriteKeys(list, 0) = w \o KeysBytes(list, 0)
      /\ WriteKeys(list, 1) = w \o KeysBytes(list, 1)
  BY <1>3, <1>6, ZeroAndOne, KeysAreWritten
<1>8. Covers(b, m, p, WriteKeys(list, 0), WriteKeys(list, 1))
  BY <1>1, <1>2, <1>7
<1> QED BY <1>1, <1>2, <1>8, CoversConcat

\* What is assumed of a document.
LEMMA DocumentIs ==
  ASSUME NEW d \in Documents
  PROVE  /\ d.buf \in Seq(Byte) /\ Len(d.buf) < Huge /\ Len(d.buf) \in Nat
         /\ d.capture \in ArchiveCapture /\ Len(EncodeCapture(d.capture, 0)) < Huge
         /\ d.damage = "none" => d.buf = EncodeCapture(d.capture, 0)
         /\ d.damage = "cut" => IsStrictPrefix(d.buf, EncodeCapture(d.capture, 0))
         /\ d.damage = "tail" => IsPrefix(EncodeCapture(d.capture, 0), d.buf)
<1>1. /\ d.buf \in Seq(Byte) /\ Len(d.buf) < Huge
      /\ d.capture \in ArchiveCapture /\ Len(EncodeCapture(d.capture, 0)) < Huge
      /\ d.damage = "none" => d.buf = EncodeCapture(d.capture, 0)
      /\ d.damage = "cut" => IsStrictPrefix(d.buf, EncodeCapture(d.capture, 0))
      /\ d.damage = "tail" => IsPrefix(EncodeCapture(d.capture, 0), d.buf)
  BY DocumentsAssumption
<1> QED BY <1>1, LenProperties

\* Nothing is consumed at first.
LEMMA ConsumedInit == ReplayInit => ConsumedInv
<1> SUFFICES ASSUME ReplayInit PROVE ConsumedInv
  OBVIOUS
<1>1. Place(document.buf, 0)
  BY DocumentIs DEF ReplayInit, Place
<1> QED BY <1>1 DEF ReplayInit, ConsumedInv, Arrays

\* A failed read gives up what was consumed.
LEMMA ConsumedFail ==
  ASSUME ConsumedInv, NEW read, FailWith(read)
  PROVE  ConsumedInv'
BY DEF ConsumedInv, FailWith, Arrays

\* The header is consumed as what is written for it.
LEMMA ConsumedHeader ==
  ASSUME ConsumedInv, TakeHeader
  PROVE  ConsumedInv'
<1>1. PICK b, read : b = document.buf /\ read = ReadHeader(b, pos)
  OBVIOUS
<1>2. CASE FailWith(read)
  BY <1>2, ConsumedFail
<1>3. CASE ~FailWith(read)
  <2>1. /\ part = "header" /\ read.error = NoError /\ part' = "record" /\ pos' = read.pos
        /\ document' = document
        /\ capture' = [from_ledger |-> read.value.from_ledger,
                       to_ledger |-> read.value.to_ledger,
                       checkpoint_count |-> read.value.checkpoint_count,
                       records |-> <<>>]
        /\ records' = read.value.count /\ keys' = keys
    BY <1>1, <1>3 DEF TakeHeader, Succeed
  <2>2. Place(b, pos) /\ pos = 0 /\ document \in Documents /\ keys \in Nat
    BY <1>1, <2>1 DEF ConsumedInv
  <2>3. /\ IsHeader(read.value) /\ read.value.count \in Nat
        /\ Place(b, read.pos)
        /\ \E w \in Seq(Byte) :
             /\ Len(w) = 4 /\ Word(w) = read.value.count
             /\ Covers(b, pos, read.pos, HeaderBytes(read.value, w), HeaderBytes(read.value, w))
    BY <1>1, <2>1, <2>2, ReadHeaderSound
  <2>4. PICK w \in Seq(Byte) :
          /\ Len(w) = 4 /\ Word(w) = read.value.count
          /\ Covers(b, pos, read.pos, HeaderBytes(read.value, w), HeaderBytes(read.value, w))
    BY <2>3
  <2>5. PICK cap : cap = capture'
    OBVIOUS
  <2>6. /\ cap.from_ledger = read.value.from_ledger /\ cap.to_ledger = read.value.to_ledger
        /\ cap.checkpoint_count = read.value.checkpoint_count /\ cap.records = <<>>
    BY <2>1, <2>5
  <2>7. IsHeader(cap) /\ HeaderBytes(cap, w) = HeaderBytes(read.value, w)
    BY <2>3, <2>6 DEF IsHeader, HeaderBytes, Words
  <2>8. cap \in ArchiveCapture
    <3>1. <<>> \in Seq(CaptureRecord)
      BY EmptySeq
    <3> QED BY <2>1, <2>3, <2>5, <3>1 DEF ArchiveCapture, IsHeader
  <2>9. CoversRecords(b, read.pos, cap, read.value.count)
    <3>1. RecordsBytes(<<>>, 0) = <<>> /\ RecordsBytes(<<>>, 1) = <<>>
      <4>1. <<>> \in Seq(CaptureRecord)
        BY EmptySeq
      <4> QED BY <4>1, ZeroAndOne, RecordsAreWritten
    <3>2. Covers(b, read.pos, read.pos, <<>>, <<>>)
      BY <2>3, CoversNothing
    <3>3. read.pos \in Nat /\ Len(<<>>) = 0 /\ read.value.count + 0 = read.value.count
      BY <2>3, EmptySeq DEF Place
    <3>4. Covers(b, 0, read.pos, HeaderBytes(cap, w), HeaderBytes(cap, w))
      BY <2>2, <2>4, <2>7
    <3>5. Word(w) = read.value.count + Len(cap.records)
      BY <2>4, <2>6, <3>3
    <3> QED BY <2>4, <2>6, <3>1, <3>2, <3>3, <3>4, <3>5 DEF CoversRecords
  <2> QED BY <1>1, <2>1, <2>2, <2>3, <2>5, <2>8, <2>9 DEF ConsumedInv, Arrays
<1> QED BY <1>2, <1>3

\* The count of an array has been read, and no keys.
LEMMA ArrayBegins ==
  ASSUME NEW b, NEW s, NEW m, NEW p, Place(b, m), NEW which \in Arrays,
         NEW rec \in CaptureRecord, rec[which] = <<>>,
         Covers(b, s, m, BeforeArray(rec, which, 0), BeforeArray(rec, which, 1)),
         NEW n \in Nat,
         \E w \in Seq(Byte) : Len(w) = 4 /\ Word(w) = n /\ Covers(b, m, p, w, w)
  PROVE  CoversArray(b, s, p, which, rec, n)
<1>1. PICK w \in Seq(Byte) : Len(w) = 4 /\ Word(w) = n /\ Covers(b, m, p, w, w)
  OBVIOUS
<1>2. KeysBytes(<<>>, 0) = <<>> /\ KeysBytes(<<>>, 1) = <<>>
  <2>1. <<>> \in Seq(CaptureKey)
    BY EmptySeq
  <2> QED BY <2>1, ZeroAndOne, KeysAreWritten
<1>3. w \o <<>> = w
  BY ConcatEmptySeq
<1>4. Word(w) = n + Len(rec[which])
  <2>1. Len(<<>>) = 0
    BY EmptySeq
  <2> QED BY <1>1, <2>1
<1>5. m \in Nat
  BY DEF Place
<1> QED BY <1>1, <1>2, <1>3, <1>4, <1>5 DEF CoversArray

\* The head of a record and the count of its first array are consumed in order.
LEMMA ConsumedRecordHead ==
  ASSUME ConsumedInv, TakeRecordHead
  PROVE  ConsumedInv'
<1>1. PICK b, head : b = document.buf /\ head = ReadRecordHead(b, pos)
  OBVIOUS
<1>2. PICK count : count = ReadU32(b, head.pos)
  OBVIOUS
<1>3. PICK read : read = IF head.error # NoError THEN head ELSE count
  OBVIOUS
<1>4. Then(head, LAMBDA v, p : ReadU32(b, p)) = read
  BY <1>2, <1>3 DEF Then
<1>5. /\ part = "record" /\ records > 0
      /\ \/ FailWith(read)
         \/ /\ Succeed(read, "read_only")
            /\ record' = [NoRecord EXCEPT !.tx_hash = head.value.tx_hash,
                                          !.source_account = head.value.source_account]
            /\ keys' = read.value
            /\ UNCHANGED <<capture, records>>
  BY <1>1, <1>2, <1>3 DEF TakeRecordHead, Then
<1>6. CASE FailWith(read)
  BY <1>6, ConsumedFail
<1>7. CASE ~FailWith(read)
  <2>1. /\ read.error = NoError /\ part' = "read_only" /\ pos' = read.pos
        /\ document' = document /\ capture' = capture /\ records' = records
        /\ record' = [NoRecord EXCEPT !.tx_hash = head.value.tx_hash,
                                      !.source_account = head.value.source_account]
        /\ keys' = read.value
    BY <1>5, <1>7 DEF Succeed
  <2>2. head.error = NoError /\ read = count
    BY <1>3, <2>1
  <2>3. /\ Place(b, pos) /\ document \in Documents /\ Len(b) < Huge
        /\ capture \in ArchiveCapture /\ records \in Nat
        /\ CoversRecords(b, pos, capture, records)
    BY <1>1, <1>5, DocumentIs DEF ConsumedInv
  <2>4. /\ head.value.tx_hash \in Fixed(32) /\ head.value.source_account \in String
        /\ Place(b, head.pos)
        /\ Covers(b, pos, head.pos, HeadBytes(head.value, 0), HeadBytes(head.value, 1))
    BY <1>1, <2>2, <2>3, ReadRecordHeadSound
  <2>5. /\ Place(b, count.pos) /\ count.value \in Nat
        /\ \E w \in Seq(Byte) : /\ Len(w) = 4 /\ Word(w) = count.value
                                /\ Covers(b, head.pos, count.pos, w, w)
    BY <1>2, <2>1, <2>2, <2>4, ReadU32Sound
  <2>6. PICK rec : rec = record'
    OBVIOUS
  <2>7. rec = [tx_hash |-> head.value.tx_hash, source_account |-> head.value.source_account,
               read_only |-> <<>>, read_write |-> <<>>]
    BY <2>1, <2>6 DEF NoRecord
  <2>8. rec \in CaptureRecord
    <3>1. <<>> \in Seq(CaptureKey)
      BY EmptySeq
    <3> QED BY <2>4, <2>7, <3>1 DEF CaptureRecord
  <2>9. CoversArray(b, pos, count.pos, "read_only", rec, count.value)
    <3>1. PICK which : which = "read_only"
      OBVIOUS
    <3>2. which \in Arrays /\ rec[which] = <<>>
      BY <2>7, <3>1 DEF Arrays
    <3>3. /\ BeforeArray(rec, which, 0) = HeadBytes(head.value, 0)
          /\ BeforeArray(rec, which, 1) = HeadBytes(head.value, 1)
      <4>1. rec.tx_hash = head.value.tx_hash /\ rec.source_account = head.value.source_account
        BY <2>7
      <4> QED BY <3>1, <4>1 DEF BeforeArray, HeadBytes
    <3>4. Covers(b, pos, head.pos, BeforeArray(rec, which, 0), BeforeArray(rec, which, 1))
      BY <2>4, <3>3
    <3>5. CoversArray(b, pos, count.pos, which, rec, count.value)
      BY <2>4, <2>5, <2>8, <3>2, <3>4, ArrayBegins
    <3> QED BY <3>1, <3>5
  <2>10. pos \in Nat
    BY <2>3 DEF Place
  <2>11. /\ document' \in Documents /\ Place(document'.buf, pos')
         /\ records' \in Nat /\ keys' \in Nat /\ records' > 0
         /\ capture' \in ArchiveCapture /\ rec.read_write = <<>>
    BY <1>1, <1>5, <2>1, <2>2, <2>3, <2>5, <2>7
  <2> QED BY <1>1, <1>5, <2>1, <2>2, <2>3, <2>6, <2>8, <2>9, <2>10, <2>11 DEF ConsumedInv, Arrays
<1> QED BY <1>6, <1>7

\* A key is consumed behind those of its array.
LEMMA ConsumedKey ==
  ASSUME ConsumedInv, TakeKey
  PROVE  ConsumedInv'
<1>1. PICK b, read : b = document.buf /\ read = ReadCaptureKey(b, pos)
  OBVIOUS
<1>2. CASE FailWith(read)
  BY <1>2, ConsumedFail
<1>3. CASE ~FailWith(read)
  <2>1. /\ part \in Arrays /\ keys > 0 /\ read.error = NoError /\ part' = part /\ pos' = read.pos
        /\ document' = document /\ capture' = capture /\ records' = records
        /\ record' = [record EXCEPT ![part] = Append(@, read.value)]
        /\ keys' = keys - 1
    BY <1>1, <1>3 DEF TakeKey, Succeed, Arrays
  <2>2. /\ Place(b, pos) /\ document \in Documents /\ Len(b) < Huge
        /\ capture \in ArchiveCapture /\ records \in Nat /\ records > 0 /\ keys \in Nat
        /\ record \in CaptureRecord /\ (part = "read_only" => record.read_write = <<>>)
        /\ \E s \in Nat : /\ CoversRecords(b, s, capture, records)
                          /\ CoversArray(b, s, pos, part, record, keys)
    BY <1>1, <2>1, DocumentIs DEF ConsumedInv
  <2>3. PICK s \in Nat : /\ CoversRecords(b, s, capture, records)
                         /\ CoversArray(b, s, pos, part, record, keys)
    BY <2>2
  <2>4. /\ read.value \in CaptureKey /\ Place(b, read.pos)
        /\ Covers(b, pos, read.pos, WriteCaptureKey(read.value, 0), WriteCaptureKey(read.value, 1))
    BY <1>1, <2>1, <2>2, ReadCaptureKeySound
  <2>5. PICK rec, which, k, n : rec = record' /\ which = part /\ k = read.value /\ n = keys - 1
    OBVIOUS
  <2>6. Puts(rec, record, which, k) /\ which \in Arrays /\ k \in CaptureKey
    BY <2>1, <2>4, <2>5 DEF Puts
  <2>7. rec \in CaptureRecord /\ (which = "read_only" => rec.read_write = record.read_write)
    <3>1. record \in CaptureRecord
      BY <2>2
    <3> QED BY <2>6, <3>1, PutKey
  <2>8. CoversArray(b, s, read.pos, which, rec, keys - 1)
    <3>1. CoversArray(b, s, pos, which, record, keys)
      BY <2>3, <2>5
    <3>2. Covers(b, pos, read.pos, WriteCaptureKey(k, 0), WriteCaptureKey(k, 1))
      BY <2>4, <2>5
    <3> QED BY <2>1, <2>2, <2>6, <3>1, <3>2, ArrayGrows
  <2>9. n \in Nat
    BY <2>1, <2>2, <2>5
  <2>10. /\ document' \in Documents /\ Place(document'.buf, pos')
         /\ records' \in Nat /\ keys' \in Nat /\ records' > 0
         /\ capture' \in ArchiveCapture /\ record' \in CaptureRecord
         /\ (part' = "read_only" => record'.read_write = <<>>)
    BY <1>1, <2>1, <2>2, <2>4, <2>5, <2>7, <2>9
  <2>11. /\ CoversRecords(document'.buf, s, capture', records')
         /\ CoversArray(document'.buf, s, pos', part', record', keys')
    BY <1>1, <2>1, <2>3, <2>5, <2>8
  <2> QED BY <2>1, <2>10, <2>11 DEF ConsumedInv, Arrays
<1> QED BY <1>2, <1>3

\* The second array of a record begins where the first one ends.
LEMMA ConsumedReadWrite ==
  ASSUME ConsumedInv, StartReadWrite
  PROVE  ConsumedInv'
<1>1. PICK b, read : b = document.buf /\ read = ReadU32(b, pos)
  OBVIOUS
<1>2. CASE FailWith(read)
  BY <1>2, ConsumedFail
<1>3. CASE ~FailWith(read)
  <2>1. /\ part = "read_only" /\ keys = 0 /\ read.error = NoError /\ part' = "read_write"
        /\ pos' = read.pos /\ document' = document /\ capture' = capture
        /\ records' = records /\ record' = record /\ keys' = read.value
    BY <1>1, <1>3 DEF StartReadWrite, Succeed
  <2>2. /\ Place(b, pos) /\ document \in Documents /\ Len(b) < Huge
        /\ capture \in ArchiveCapture /\ records \in Nat /\ records > 0
        /\ record \in CaptureRecord /\ record.read_write = <<>>
        /\ \E s \in Nat : /\ CoversRecords(b, s, capture, records)
                          /\ CoversArray(b, s, pos, "read_only", record, 0)
    BY <1>1, <2>1, DocumentIs DEF ConsumedInv, Arrays
  <2>3. PICK s \in Nat : /\ CoversRecords(b, s, capture, records)
                         /\ CoversArray(b, s, pos, "read_only", record, 0)
    BY <2>2
  <2>4. PICK ro, rw : ro = "read_only" /\ rw = "read_write"
    OBVIOUS
  <2>5. ro \in Arrays /\ rw \in Arrays /\ record[rw] = <<>> /\ record[ro] = record.read_only
    BY <2>2, <2>4 DEF Arrays
  <2>6. Covers(b, s, pos, BeforeArray(record, ro, 0) \o WriteKeys(record[ro], 0),
                          BeforeArray(record, ro, 1) \o WriteKeys(record[ro], 1))
    BY <2>2, <2>3, <2>4, <2>5, ArrayEnds
  <2>7. Covers(b, s, pos, BeforeArray(record, rw, 0), BeforeArray(record, rw, 1))
    <3>1. /\ BeforeArray(record, rw, 0) = BeforeArray(record, ro, 0) \o WriteKeys(record[ro], 0)
          /\ BeforeArray(record, rw, 1) = BeforeArray(record, ro, 1) \o WriteKeys(record[ro], 1)
      BY <2>4, <2>5 DEF BeforeArray
    <3> QED BY <2>6, <3>1
  <2>8. /\ Place(b, read.pos) /\ read.value \in Nat
        /\ \E w \in Seq(Byte) : /\ Len(w) = 4 /\ Word(w) = read.value
                                /\ Covers(b, pos, read.pos, w, w)
    BY <1>1, <2>1, <2>2, ReadU32Sound
  <2>9. CoversArray(b, s, read.pos, rw, record, read.value)
    BY <2>2, <2>5, <2>7, <2>8, ArrayBegins
  <2>10. /\ document' \in Documents /\ Place(document'.buf, pos')
         /\ records' \in Nat /\ keys' \in Nat /\ records' > 0
         /\ capture' \in ArchiveCapture /\ record' \in CaptureRecord
         /\ CoversRecords(document'.buf, s, capture', records')
         /\ CoversArray(document'.buf, s, pos', part', record', keys')
    BY <1>1, <2>1, <2>2, <2>3, <2>4, <2>8, <2>9
  <2> QED BY <2>1, <2>10 DEF ConsumedInv, Arrays
<1> QED BY <1>2, <1>3

\* A record that has both its arrays is consumed to its end.
LEMMA ConsumedPush ==
  ASSUME ConsumedInv, PushRecord
  PROVE  ConsumedInv'
<1>1. PICK b : b = document.buf
  OBVIOUS
<1>2. /\ part = "read_write" /\ keys = 0 /\ part' = "record"
      /\ capture' = [capture EXCEPT !.records = Append(@, record)]
      /\ records' = records - 1
      /\ document' = document /\ pos' = pos /\ keys' = keys
  BY DEF PushRecord
<1>3. /\ Place(b, pos) /\ document \in Documents /\ Len(b) < Huge
      /\ capture \in ArchiveCapture /\ records \in Nat /\ records > 0
      /\ record \in CaptureRecord
      /\ \E s \in Nat : /\ CoversRecords(b, s, capture, records)
                        /\ CoversArray(b, s, pos, "read_write", record, 0)
  BY <1>1, <1>2, DocumentIs DEF ConsumedInv, Arrays
<1>4. PICK s \in Nat : /\ CoversRecords(b, s, capture, records)
                       /\ CoversArray(b, s, pos, "read_write", record, 0)
  BY <1>3
<1>5. PICK rw, z, o : /\ rw = "read_write"
                      /\ z = WriteRecord(record, 0) /\ o = WriteRecord(record, 1)
  OBVIOUS
<1>6. Covers(b, s, pos, z, o)
  <2>1. rw \in Arrays /\ record[rw] = record.read_write
    BY <1>5 DEF Arrays
  <2>2. Covers(b, s, pos, BeforeArray(record, rw, 0) \o WriteKeys(record[rw], 0),
                          BeforeArray(record, rw, 1) \o WriteKeys(record[rw], 1))
    BY <1>3, <1>4, <1>5, <2>1, ArrayEnds
  <2>3. /\ BeforeArray(record, rw, 0) = HeadBytes(record, 0) \o WriteKeys(record.read_only, 0)
        /\ BeforeArray(record, rw, 1) = HeadBytes(record, 1) \o WriteKeys(record.read_only, 1)
    BY <1>5 DEF BeforeArray
  <2>4. /\ z = (HeadBytes(record, 0) \o WriteKeys(record.read_only, 0))
                 \o WriteKeys(record.read_write, 0)
        /\ o = (HeadBytes(record, 1) \o WriteKeys(record.read_only, 1))
                 \o WriteKeys(record.read_write, 1)
    BY <1>3, <1>5, ZeroAndOne, RecordIsWritten
  <2> QED BY <2>1, <2>2, <2>3, <2>4
<1>7. PICK cap : cap = capture'
  OBVIOUS
<1>8. /\ cap \in ArchiveCapture /\ cap.records = Append(capture.records, record)
      /\ cap.from_ledger = capture.from_ledger /\ cap.to_ledger = capture.to_ledger
      /\ cap.checkpoint_count = capture.checkpoint_count
  BY <1>2, <1>3, <1>7, PutRecord
<1>9. CoversRecords(b, pos, cap, records - 1)
  <2>1. PICK w \in Seq(Byte), h \in Nat :
          /\ Len(w) = 4 /\ Word(w) = records + Len(capture.records)
          /\ Covers(b, 0, h, HeaderBytes(capture, w), HeaderBytes(capture, w))
          /\ Covers(b, h, s, RecordsBytes(capture.records, 0), RecordsBytes(capture.records, 1))
    BY <1>4 DEF CoversRecords
  <2>2. Covers(b, h, pos, RecordsBytes(capture.records, 0) \o z,
                          RecordsBytes(capture.records, 1) \o o)
    BY <1>6, <2>1, CoversConcat
  <2>3. capture.records \in Seq(CaptureRecord)
    BY <1>3, CaptureFields
  <2>4. /\ RecordsBytes(cap.records, 0) = RecordsBytes(capture.records, 0) \o z
        /\ RecordsBytes(cap.records, 1) = RecordsBytes(capture.records, 1) \o o
    BY <1>3, <1>5, <1>8, <2>3, ZeroAndOne, RecordsGrow
  <2>5. Word(w) = (records - 1) + Len(cap.records)
    <3>1. Len(Append(capture.records, record)) = Len(capture.records) + 1
          /\ Len(capture.records) \in Nat
      BY <1>3, <2>3, AppendProperties, LenProperties
    <3> QED BY <1>3, <1>8, <2>1, <3>1
  <2>6. HeaderBytes(cap, w) = HeaderBytes(capture, w)
    BY <1>8 DEF HeaderBytes, Words
  <2> QED BY <2>1, <2>2, <2>4, <2>5, <2>6 DEF CoversRecords
<1>10. /\ document' \in Documents /\ Place(document'.buf, pos')
       /\ records' \in Nat /\ keys' \in Nat /\ capture' \in ArchiveCapture
       /\ CoversRecords(document'.buf, pos', capture', records')
  BY <1>1, <1>2, <1>3, <1>7, <1>8, <1>9
<1> QED BY <1>2, <1>10 DEF ConsumedInv, Arrays

\* Nothing more is consumed behind the last record.
LEMMA ConsumedFinish ==
  ASSUME ConsumedInv, FinishDecode
  PROVE  ConsumedInv'
BY DEF ConsumedInv, FinishDecode, Arrays

\* Every step of the decoder consumes what it adds to the capture.
LEMMA ConsumedStep ==
  ASSUME ConsumedInv, [ReplayNext]_replayVars
  PROVE  ConsumedInv'
<1>1. CASE TakeHeader
  BY <1>1, ConsumedHeader
<1>2. CASE TakeRecordHead
  BY <1>2, ConsumedRecordHead
<1>3. CASE TakeKey
  BY <1>3, ConsumedKey
<1>4. CASE StartReadWrite
  BY <1>4, ConsumedReadWrite
<1>5. CASE PushRecord
  BY <1>5, ConsumedPush
<1>6. CASE FinishDecode
  BY <1>6, ConsumedFinish
<1>7. CASE UNCHANGED replayVars
  BY <1>7 DEF ConsumedInv, replayVars
<1> QED BY <1>1, <1>2, <1>3, <1>4, <1>5, <1>6, <1>7 DEF ReplayNext

\* What is accepted is what the consumed bytes say.
ConsumedExactly ==
  part = "done" =>
    LET zeros == EncodeCapture(capture, 0)
        ones  == EncodeCapture(capture, 1)
    IN /\ Len(zeros) = pos
       /\ \A i \in 1..pos : document.buf[i] # zeros[i] => ones[i] # zeros[i]

\* A finished decoder has consumed what would be written for its result.
LEMMA ConsumedThrough == ConsumedInv => ConsumedExactly
<1> SUFFICES ASSUME ConsumedInv, part = "done" PROVE ConsumedExactly
  BY DEF ConsumedExactly
<1>1. PICK b, n : b = document.buf /\ n = Len(capture.records)
  OBVIOUS
<1>2. /\ Place(b, pos) /\ Len(b) < Huge /\ capture \in ArchiveCapture /\ records = 0
      /\ CoversRecords(b, pos, capture, 0)
  BY <1>1, DocumentIs DEF ConsumedInv
<1>3. PICK w \in Seq(Byte), h \in Nat :
        /\ Len(w) = 4 /\ Word(w) = 0 + n
        /\ Covers(b, 0, h, HeaderBytes(capture, w), HeaderBytes(capture, w))
        /\ Covers(b, h, pos, RecordsBytes(capture.records, 0), RecordsBytes(capture.records, 1))
  BY <1>1, <1>2 DEF CoversRecords
<1>4. capture.records \in Seq(CaptureRecord) /\ n \in Nat /\ IsHeader(capture)
  BY <1>1, <1>2, CaptureFields, LenProperties
<1>5. w = WordBytes(n)
  <2>1. /\ RecordsBytes(capture.records, 0) \in Seq(Byte)
        /\ n <= Len(RecordsBytes(capture.records, 0))
    BY <1>1, <1>4, ZeroAndOne, RecordsAreWritten
  <2>2. Len(RecordsBytes(capture.records, 0)) \in Nat /\ Len(b) \in Nat
    BY <1>2, <2>1, LenProperties DEF Place
  <2>3. h + Len(RecordsBytes(capture.records, 0)) = pos /\ pos <= Len(b) /\ pos \in Nat
    BY <1>3 DEF Covers
  <2>4. n <= Len(b)
    BY <1>4, <2>1, <2>2, <2>3
  <2>5. Word(w) < Huge /\ Word(w) = n
    BY <1>2, <1>3, <1>4, <2>2, <2>4, Sizes
  <2> QED BY <1>3, <2>5, WordBack
<1>6. PICK z, o : z = EncodeCapture(capture, 0) /\ o = EncodeCapture(capture, 1)
  OBVIOUS
<1>7. /\ z = HeaderBytes(capture, w) \o RecordsBytes(capture.records, 0)
      /\ o = HeaderBytes(capture, w) \o RecordsBytes(capture.records, 1)
  BY <1>1, <1>4, <1>5, <1>6, ZeroAndOne, CaptureIsWritten
<1>8. Covers(b, 0, pos, z, o)
  BY <1>3, <1>7, CoversConcat
<1>9. Len(z) = pos /\ \A i \in 1..pos : b[i] # z[i] => o[i] # z[i]
  <2>1. /\ 0 + Len(z) = pos /\ pos \in Nat /\ z \in Seq(Byte)
        /\ \A i \in 1..Len(z) : b[0 + i] # z[i] => o[i] # z[i]
    BY <1>8 DEF Covers
  <2>2. Len(z) \in Nat
    BY <2>1, LenProperties
  <2>3. Len(z) = pos /\ \A i \in 1..pos : 0 + i = i
    BY <2>1, <2>2
  <2> QED BY <2>1, <2>3
<1> QED BY <1>1, <1>6, <1>9 DEF ConsumedExactly

-----------------------------------------------------------------------------
\* The invariant for a document that is whole, cut short or followed by other
\* bytes: what was read is what was encoded, and so is what follows.

\* A document that is not changed inside.
Undamaged(d) == d.damage \in {"none", "cut", "tail"}

\* From p on the document goes on with the bytes x, as far as it goes, and they
\* are the last ones of what was encoded.
Ahead(d, p, x) ==
  /\ x \in Seq(Byte) /\ Agrees(d.buf, p, x)
  /\ p + Len(x) = Len(EncodeCapture(d.capture, 0))

\* All of what was encoded is ahead of a decoder that has not begun.
LEMMA AheadAtFirst ==
  ASSUME NEW d \in Documents, Undamaged(d)
  PROVE  Ahead(d, 0, EncodeCapture(d.capture, 0))
<1>1. PICK b, e, n : b = d.buf /\ e = EncodeCapture(d.capture, 0) /\ n = Len(e)
  OBVIOUS
<1>2. /\ b \in Seq(Byte) /\ Len(b) \in Nat /\ n < Huge /\ d.capture \in ArchiveCapture
      /\ d.damage = "none" => b = e
      /\ d.damage = "cut" => IsStrictPrefix(b, e)
      /\ d.damage = "tail" => IsPrefix(e, b)
  BY <1>1, DocumentIs
<1>3. e \in Seq(Byte) /\ n \in Nat
  <2>1. /\ e = HeaderBytes(d.capture, WordBytes(Len(d.capture.records)))
                 \o RecordsBytes(d.capture.records, 0)
        /\ Len(d.capture.records) \in Nat /\ IsHeader(d.capture)
        /\ d.capture.records \in Seq(CaptureRecord)
    BY <1>1, <1>2, CaptureFields, CaptureIsWritten, ZeroAndOne
  <2>2. PICK w, h, r : /\ w = WordBytes(Len(d.capture.records))
                       /\ h = HeaderBytes(d.capture, w) /\ r = RecordsBytes(d.capture.records, 0)
    OBVIOUS
  <2>3. w \in Seq(Byte) /\ Len(w) = 4
    BY <2>1, <2>2, WordLength
  <2>4. h \in Seq(Byte) /\ r \in Seq(Byte)
    BY <2>1, <2>2, <2>3, HeaderIsWritten, RecordsAreWritten, ZeroAndOne
  <2>5. e = h \o r
    BY <2>1, <2>2
  <2>6. e \in Seq(Byte)
    BY <2>4, <2>5, Together
  <2> QED BY <1>1, <2>6, LenProperties
<1>4. \A i \in 1..n : i <= Len(b) => b[i] = e[i]
  <2>1. CASE b = e
    BY <2>1
  <2>2. CASE IsStrictPrefix(b, e)
    <3>1. \A i \in 1..Len(b) : b[i] = e[i]
      BY <1>2, <1>3, <2>2, SameInFront DEF IsStrictPrefix
    <3> QED BY <1>2, <1>3, <3>1
  <2>3. CASE IsPrefix(e, b)
    <3>1. \A i \in 1..Len(e) : e[i] = b[i]
      BY <1>2, <1>3, <2>3, SameInFront
    <3> QED BY <1>1, <3>1
  <2> QED BY <1>2, <2>1, <2>2, <2>3 DEF Undamaged
<1> QED BY <1>1, <1>2, <1>3, <1>4 DEF Ahead, Agrees

\* Only a document cut short has fewer bytes than what was encoded.
LEMMA OnlyCutIsShort ==
  ASSUME NEW d \in Documents, Undamaged(d)
  PROVE  /\ d.damage = "cut" <=> Len(d.buf) < Len(EncodeCapture(d.capture, 0))
         /\ d.damage = "none" => Len(d.buf) = Len(EncodeCapture(d.capture, 0))
         /\ Len(d.buf) \in Nat /\ Len(EncodeCapture(d.capture, 0)) \in Nat
<1>1. PICK b, e : b = d.buf /\ e = EncodeCapture(d.capture, 0)
  OBVIOUS
<1>2. /\ b \in Seq(Byte)
      /\ d.damage = "none" => b = e
      /\ d.damage = "cut" => IsStrictPrefix(b, e)
      /\ d.damage = "tail" => IsPrefix(e, b)
  BY <1>1, DocumentIs
<1>3. e \in Seq(Byte)
  BY <1>1, AheadAtFirst DEF Ahead
<1>4. Len(b) \in Nat /\ Len(e) \in Nat
  BY <1>2, <1>3, LenProperties
<1>5. d.damage = "cut" => Len(b) < Len(e)
  BY <1>2, <1>3, SameInFront DEF IsStrictPrefix
<1>6. d.damage = "tail" => Len(e) <= Len(b)
  BY <1>2, <1>3, SameInFront
<1> QED BY <1>1, <1>2, <1>4, <1>5, <1>6 DEF Undamaged

\* What comes next in a document that is not changed inside is what was written.
LEMMA AheadAgrees ==
  ASSUME NEW d \in Documents, NEW p, NEW x \in Seq(Byte), NEW y \in Seq(Byte),
         Ahead(d, p, x \o y)
  PROVE  Agrees(d.buf, p, x) /\ p \in Nat /\ p + Len(x) + Len(y) < Huge
<1>1. d.buf \in Seq(Byte)
  BY DocumentIs
<1>2. Agrees(d.buf, p, x \o y)
  BY DEF Ahead
<1>3. Agrees(d.buf, p, x)
  BY <1>1, <1>2, AgreesConcat
<1>4. Len(x \o y) = Len(x) + Len(y) /\ Len(x) \in Nat /\ Len(y) \in Nat
  BY Together
<1>5. p \in Nat /\ p + Len(x \o y) < Huge
  BY <1>2 DEF Agrees
<1> QED BY <1>3, <1>4, <1>5

\* A read that takes the next bytes does so, or the document was cut short.
LEMMA ReadAhead ==
  ASSUME NEW d \in Documents, Undamaged(d), NEW p, NEW x \in Seq(Byte), NEW y \in Seq(Byte),
         Ahead(d, p, x \o y), NEW read, NEW v, Delivers(read, d.buf, p, x, v)
  PROVE  \/ read.error = "Overrun" /\ read.error # NoError /\ d.damage = "cut"
         \/ read.error = NoError /\ read.value = v /\ Ahead(d, read.pos, y)
<1>1. PICK b, e : b = d.buf /\ e = EncodeCapture(d.capture, 0)
  OBVIOUS
<1>2. /\ d.damage = "cut" <=> Len(b) < Len(e)
      /\ b \in Seq(Byte) /\ Len(b) \in Nat /\ Len(e) \in Nat
  BY <1>1, OnlyCutIsShort, DocumentIs
<1>3. Agrees(b, p, x \o y) /\ p + Len(x \o y) = Len(e) /\ p \in Nat
  BY <1>1 DEF Ahead, Agrees
<1>4. Len(x \o y) = Len(x) + Len(y) /\ Len(x) \in Nat /\ Len(y) \in Nat
  BY Together
<1>5. CASE p + Len(x) <= Len(b)
  <2>1. Agrees(b, p + Len(x), y)
    BY <1>2, <1>3, <1>5, AgreesConcat
  <2>2. read.error = NoError /\ read.value = v /\ read.pos = p + Len(x)
    BY <1>1, <1>5 DEF Delivers, Ok
  <2>3. (p + Len(x)) + Len(y) = Len(e)
    BY <1>3, <1>4
  <2> QED BY <1>1, <2>1, <2>2, <2>3 DEF Ahead
<1>6. CASE ~(p + Len(x) <= Len(b))
  <2>1. Len(b) < Len(e)
    BY <1>2, <1>3, <1>4, <1>6
  <2>2. read.error = "Overrun" /\ read.error # NoError
    BY <1>1, <1>6 DEF Delivers, Fail, NoError
  <2> QED BY <1>2, <2>1, <2>2
<1> QED BY <1>5, <1>6

\* How records that are still to read are taken apart: the head of the first and
\* the count of its first array, that array's keys, and all that follows.
LEMMA NextRecordBytes ==
  ASSUME NEW e \in CaptureRecord, NEW more \in Seq(CaptureRecord)
  PROVE  LET h == HeadBytes(e, 0)
             w == WordBytes(Len(e.read_only))
             k == KeysBytes(e.read_only, 0)
             t == WriteKeys(e.read_write, 0) \o RecordsBytes(more, 0)
         IN /\ h \in Seq(Byte) /\ w \in Seq(Byte) /\ k \in Seq(Byte) /\ t \in Seq(Byte)
            /\ h \o w \in Seq(Byte) /\ k \o t \in Seq(Byte)
            /\ Len(e.read_only) \in Nat /\ Len(e.read_only) <= Len(k \o t)
            /\ RecordsBytes(Cons(e, more), 0) = (h \o w) \o (k \o t)
<1>1. PICK h, w, k, a, r : /\ h = HeadBytes(e, 0) /\ w = WordBytes(Len(e.read_only))
                           /\ k = KeysBytes(e.read_only, 0)
                           /\ a = WriteKeys(e.read_write, 0) /\ r = RecordsBytes(more, 0)
  OBVIOUS
<1>2. /\ e.read_only \in Seq(CaptureKey) /\ e.read_write \in Seq(CaptureKey)
      /\ Len(e.read_only) \in Nat
  BY RecordFields, LenProperties
<1>3. IsBytes(h) /\ IsBytes(w) /\ IsBytes(k) /\ IsBytes(a) /\ IsBytes(r)
  <2>1. h \in Seq(Byte)
    BY <1>1, RecordIsWritten, ZeroAndOne
  <2>2. w \in Seq(Byte)
    BY <1>1, <1>2, WordLength
  <2>3. k \in Seq(Byte) /\ a \in Seq(Byte)
    BY <1>1, <1>2, KeysAreWritten, ZeroAndOne
  <2>4. r \in Seq(Byte)
    BY <1>1, RecordsAreWritten, ZeroAndOne
  <2> QED BY <2>1, <2>2, <2>3, <2>4 DEF IsBytes
<1>4. RecordsBytes(Cons(e, more), 0) = ((h \o (w \o k)) \o a) \o r
  <2>1. RecordsBytes(Cons(e, more), 0) = WriteRecord(e, 0) \o r
    BY <1>1, RecordsGrow, ZeroAndOne
  <2>2. WriteRecord(e, 0) = (h \o WriteKeys(e.read_only, 0)) \o a
    BY <1>1, RecordIsWritten, ZeroAndOne
  <2>3. WriteKeys(e.read_only, 0) = w \o k
    BY <1>1, <1>2, KeysAreWritten, ZeroAndOne
  <2> QED BY <2>1, <2>2, <2>3
<1>5. h \o (w \o k) = (h \o w) \o k /\ IsBytes(h \o w)
  <2>1. (h \o w) \o k = h \o (w \o k) /\ IsBytes(h \o w)
    BY <1>3, Regroup
  <2> QED BY <2>1
<1>6. PICK hw, ar : hw = h \o w /\ ar = a \o r
  OBVIOUS
<1>7. IsBytes(hw) /\ IsBytes(ar)
  <2>1. IsBytes(a \o r)
    BY <1>3, Regroup
  <2> QED BY <1>5, <1>6, <2>1
<1>8. ((hw \o k) \o a) \o r = (hw \o k) \o ar
  <2>1. IsBytes(hw \o k)
    BY <1>3, <1>7, Regroup
  <2>2. ((hw \o k) \o a) \o r = (hw \o k) \o (a \o r)
    BY <1>3, <2>1, Regroup
  <2> QED BY <1>6, <2>2
<1>9. (hw \o k) \o ar = hw \o (k \o ar) /\ IsBytes(k \o ar)
  BY <1>3, <1>7, Regroup
<1>10. RecordsBytes(Cons(e, more), 0) = hw \o (k \o ar)
  BY <1>4, <1>5, <1>6, <1>8, <1>9
<1>11. Len(e.read_only) <= Len(k \o ar)
  <2>1. k \in Seq(Byte) /\ ar \in Seq(Byte) /\ Len(e.read_only) <= Len(k)
    BY <1>1, <1>2, <1>3, <1>7, KeysAreWritten, ZeroAndOne DEF IsBytes
  <2>2. Len(k \o ar) = Len(k) + Len(ar) /\ Len(k) \in Nat /\ Len(ar) \in Nat
    BY <2>1, Together
  <2> QED BY <1>2, <2>1, <2>2
<1> QED BY <1>1, <1>2, <1>3, <1>6, <1>7, <1>9, <1>10, <1>11 DEF IsBytes

\* A key that is still to read, and what follows it.
LEMMA NextKeyBytes ==
  ASSUME NEW k \in CaptureKey, NEW more \in Seq(CaptureKey), NEW t \in Seq(Byte)
  PROVE  /\ WriteCaptureKey(k, 0) \in Seq(Byte) /\ KeysBytes(more, 0) \o t \in Seq(Byte)
         /\ KeysBytes(Cons(k, more), 0) \o t = WriteCaptureKey(k, 0) \o (KeysBytes(more, 0) \o t)
<1>1. PICK x, y : x = WriteCaptureKey(k, 0) /\ y = KeysBytes(more, 0)
  OBVIOUS
<1>2. IsBytes(x) /\ IsBytes(y) /\ IsBytes(t)
  BY <1>1, KeysGrow, KeysAreWritten, ZeroAndOne DEF IsBytes
<1>3. (x \o y) \o t = x \o (y \o t)
  BY <1>2, Regroup
<1>4. IsBytes(y \o t)
  BY <1>2, Regroup
<1>5. KeysBytes(Cons(k, more), 0) = x \o y
  BY <1>1, KeysGrow, ZeroAndOne
<1> QED BY <1>1, <1>2, <1>3, <1>4, <1>5 DEF IsBytes

\* The count of an array, its keys, and what follows them.
LEMMA NextArrayBytes ==
  ASSUME NEW list \in Seq(CaptureKey), NEW t \in Seq(Byte)
  PROVE  /\ WordBytes(Len(list)) \in Seq(Byte) /\ KeysBytes(list, 0) \o t \in Seq(Byte)
         /\ Len(list) \in Nat /\ Len(list) <= Len(KeysBytes(list, 0) \o t)
         /\ WriteKeys(list, 0) \o t = WordBytes(Len(list)) \o (KeysBytes(list, 0) \o t)
<1>1. PICK w, k : w = WordBytes(Len(list)) /\ k = KeysBytes(list, 0)
  OBVIOUS
<1>2. Len(list) \in Nat
  BY LenProperties
<1>3. /\ w \in Seq(Byte) /\ k \in Seq(Byte) /\ Len(list) <= Len(k)
      /\ WriteKeys(list, 0) = w \o k
  BY <1>1, <1>2, WordLength, KeysAreWritten, ZeroAndOne
<1>4. IsBytes(w) /\ IsBytes(k) /\ IsBytes(t)
  BY <1>3 DEF IsBytes
<1>5. (w \o k) \o t = w \o (k \o t)
  BY <1>4, Regroup
<1>6. k \o t \in Seq(Byte) /\ Len(k \o t) = Len(k) + Len(t) /\ Len(k) \in Nat /\ Len(t) \in Nat
  BY <1>3, Together
<1>7. Len(list) <= Len(k \o t)
  BY <1>2, <1>3, <1>6
<1> QED BY <1>1, <1>2, <1>3, <1>5, <1>6, <1>7

-----------------------------------------------------------------------------
\* What of cap is there agrees with what was encoded, and the bytes at q are
\* those of the n records that are left.
RecordsLeft(d, q, cap, n) ==
  /\ d.capture.from_ledger = cap.from_ledger /\ d.capture.to_ledger = cap.to_ledger
  /\ d.capture.checkpoint_count = cap.checkpoint_count
  /\ \E rest \in Seq(CaptureRecord) :
       /\ d.capture.records = cap.records \o rest /\ n = Len(rest)
       /\ Ahead(d, q, RecordsBytes(rest, 0))

\* What a document goes on with behind an array of keys.
BehindArray(whole, which, rest) ==
  IF which = "read_only" THEN WriteKeys(whole.read_write, 0) \o RecordsBytes(rest, 0)
  ELSE RecordsBytes(rest, 0)

\* What of rec is there agrees with the next encoded record, and the bytes at q
\* are those of the k keys that are left of its array.
KeysLeft(d, q, cap, n, which, rec, k) ==
  /\ d.capture.from_ledger = cap.from_ledger /\ d.capture.to_ledger = cap.to_ledger
  /\ d.capture.checkpoint_count = cap.checkpoint_count
  /\ \E whole \in CaptureRecord, rest \in Seq(CaptureRecord), left \in Seq(CaptureKey) :
       /\ d.capture.records = Append(cap.records, whole) \o rest /\ n = Len(rest) + 1
       /\ whole.tx_hash = rec.tx_hash /\ whole.source_account = rec.source_account
       /\ which = "read_write" => whole.read_only = rec.read_only
       /\ whole[which] = rec[which] \o left /\ k = Len(left)
       /\ Ahead(d, q, KeysBytes(left, 0) \o BehindArray(whole, which, rest))

\* While a document that is not changed inside is read, all of it that was read
\* is what was encoded, and what follows is the rest of it.
IntactInv ==
  Undamaged(document) =>
    /\ part # "failed" => error = NoError
    /\ part = "record" => RecordsLeft(document, pos, capture, records)
    /\ part \in Arrays => KeysLeft(document, pos, capture, records, part, record, keys)
    /\ part = "done" => /\ capture = document.capture
                        /\ pos = Len(EncodeCapture(document.capture, 0))
    /\ part = "failed" => document.damage = "cut" /\ error = "Overrun"

\* It holds before anything is read.
LEMMA IntactInit == ReplayInit => IntactInv
BY DEF ReplayInit, IntactInv, Arrays

\* A read that failed because the document was cut short.
LEMMA IntactFail ==
  ASSUME NEW read, FailWith(read), read.error = "Overrun", document.damage = "cut"
  PROVE  IntactInv'
BY DEF FailWith, IntactInv, Arrays

\* The header of an undamaged document is read as it was encoded.
LEMMA IntactHeader ==
  ASSUME ConsumedInv, IntactInv, TakeHeader, Undamaged(document)
  PROVE  IntactInv'
<1>1. PICK d, read, c, n : /\ d = document /\ read = ReadHeader(document.buf, pos)
                           /\ c = document.capture /\ n = Len(document.capture.records)
  OBVIOUS
<1>2. /\ part = "header" /\ pos = 0 /\ error = NoError
      /\ d \in Documents /\ Undamaged(d)
  BY <1>1 DEF TakeHeader, ConsumedInv, IntactInv
<1>3. /\ d.buf \in Seq(Byte) /\ IsHeader(c) /\ c.records \in Seq(CaptureRecord) /\ n \in Nat
  BY <1>1, <1>2, DocumentIs, CaptureFields, LenProperties
<1>4. PICK h, r : h = HeaderBytes(c, WordBytes(n)) /\ r = RecordsBytes(c.records, 0)
  OBVIOUS
<1>5. h \in Seq(Byte) /\ r \in Seq(Byte) /\ n <= Len(r)
  <2>1. WordBytes(n) \in Seq(Byte) /\ Len(WordBytes(n)) = 4
    BY <1>3, WordLength
  <2> QED BY <1>1, <1>3, <1>4, <2>1, HeaderIsWritten, RecordsAreWritten, ZeroAndOne
<1>6. Ahead(d, 0, h \o r)
  <2>1. EncodeCapture(c, 0) = h \o r
    BY <1>1, <1>3, <1>4, CaptureIsWritten, ZeroAndOne
  <2> QED BY <1>1, <1>2, <2>1, AheadAtFirst
<1>7. Agrees(d.buf, 0, h) /\ 0 + Len(h) + Len(r) < Huge
  BY <1>2, <1>5, <1>6, AheadAgrees
<1>8. n < Huge
  BY <1>3, <1>5, <1>7, Sizes, LenProperties
<1>9. Delivers(read, d.buf, 0, h, HeaderOf(c, n))
  BY <1>1, <1>2, <1>3, <1>4, <1>7, <1>8, ReadHeaderRight
<1>10. \/ read.error = "Overrun" /\ read.error # NoError /\ d.damage = "cut"
       \/ read.error = NoError /\ read.value = HeaderOf(c, n) /\ Ahead(d, read.pos, r)
  BY <1>2, <1>5, <1>6, <1>9, ReadAhead
<1>11. CASE FailWith(read)
  <2>1. read.error # NoError
    BY <1>11 DEF FailWith
  <2> QED BY <1>1, <1>10, <1>11, <2>1, IntactFail
<1>12. CASE ~FailWith(read)
  <2>1. /\ read.error = NoError /\ part' = "record" /\ pos' = read.pos
        /\ document' = document /\ error' = error
        /\ capture' = [from_ledger |-> read.value.from_ledger,
                       to_ledger |-> read.value.to_ledger,
                       checkpoint_count |-> read.value.checkpoint_count,
                       records |-> <<>>]
        /\ records' = read.value.count
    BY <1>1, <1>12 DEF TakeHeader, Succeed
  <2>2. read.value = HeaderOf(c, n) /\ Ahead(d, read.pos, r)
    BY <1>10, <2>1 DEF NoError
  <2>3. PICK cap : cap = capture'
    OBVIOUS
  <2>4. /\ cap.from_ledger = c.from_ledger /\ cap.to_ledger = c.to_ledger
        /\ cap.checkpoint_count = c.checkpoint_count /\ cap.records = <<>> /\ records' = n
    BY <2>1, <2>2, <2>3 DEF HeaderOf
  <2>5. c.records = cap.records \o c.records
    BY <1>3, <2>4, ConcatEmptySeq
  <2>6. RecordsLeft(d, read.pos, cap, n)
    BY <1>1, <1>3, <1>4, <2>2, <2>4, <2>5 DEF RecordsLeft
  <2> QED BY <1>1, <1>2, <2>1, <2>3, <2>4, <2>6 DEF IntactInv, Arrays
<1> QED BY <1>11, <1>12

\* The next record's head, and the number of its read-only keys, are read as they were encoded.
LEMMA IntactRecordHead ==
  ASSUME ConsumedInv, IntactInv, TakeRecordHead, Undamaged(document)
  PROVE  IntactInv'
<1>1. PICK d, b, p, head : /\ d = document /\ b = document.buf /\ p = pos
                           /\ head = ReadRecordHead(document.buf, pos)
  OBVIOUS
<1>2. PICK count : count = ReadU32(b, head.pos)
  OBVIOUS
<1>3. PICK read : read = IF head.error # NoError THEN head ELSE count
  OBVIOUS
<1>4. /\ part = "record" /\ records > 0
      /\ \/ FailWith(read)
         \/ /\ Succeed(read, "read_only")
            /\ record' = [NoRecord EXCEPT !.tx_hash = head.value.tx_hash,
                                          !.source_account = head.value.source_account]
            /\ keys' = read.value
            /\ UNCHANGED <<capture, records>>
  BY <1>1, <1>2, <1>3 DEF TakeRecordHead, Then
<1>5. /\ d \in Documents /\ Undamaged(d) /\ b = d.buf /\ b \in Seq(Byte)
      /\ capture \in ArchiveCapture /\ capture.records \in Seq(CaptureRecord)
      /\ error = NoError /\ RecordsLeft(d, p, capture, records)
  <2>1. /\ document \in Documents /\ capture \in ArchiveCapture /\ error = NoError
        /\ RecordsLeft(document, pos, capture, records)
    BY <1>4 DEF ConsumedInv, IntactInv
  <2>2. capture.records \in Seq(CaptureRecord)
    BY <2>1, CaptureFields
  <2> QED BY <1>1, <2>1, <2>2, DocumentIs
<1>6. PICK rest \in Seq(CaptureRecord) :
        /\ d.capture.records = capture.records \o rest /\ records = Len(rest)
        /\ Ahead(d, p, RecordsBytes(rest, 0))
  BY <1>5 DEF RecordsLeft
<1>7. PICK e \in CaptureRecord, more \in Seq(CaptureRecord) :
        /\ rest = Cons(e, more) /\ Len(rest) = Len(more) + 1
        /\ capture.records \o rest = Append(capture.records, e) \o more
  <2>1. PICK done : done = capture.records
    OBVIOUS
  <2>2. done \in Seq(CaptureRecord) /\ rest \in Seq(CaptureRecord) /\ Len(rest) > 0
    BY <1>4, <1>5, <1>6, <2>1
  <2>3. OneMore(CaptureRecord, done, rest)
    BY <2>2, TakeNext
  <2> QED BY <2>1, <2>3 DEF OneMore
<1>8. PICK h, w, k, t, n :
        /\ h = HeadBytes(e, 0) /\ n = Len(e.read_only) /\ w = WordBytes(Len(e.read_only))
        /\ k = KeysBytes(e.read_only, 0)
        /\ t = WriteKeys(e.read_write, 0) \o RecordsBytes(more, 0)
  OBVIOUS
<1>9. /\ h \in Seq(Byte) /\ w \in Seq(Byte) /\ k \in Seq(Byte) /\ t \in Seq(Byte)
      /\ h \o w \in Seq(Byte) /\ k \o t \in Seq(Byte)
      /\ n \in Nat /\ n <= Len(k \o t)
      /\ RecordsBytes(Cons(e, more), 0) = (h \o w) \o (k \o t)
  BY <1>8, NextRecordBytes
<1>10. PICK hw, kt : hw = h \o w /\ kt = k \o t
  OBVIOUS
<1>11. hw \in Seq(Byte) /\ kt \in Seq(Byte) /\ n <= Len(kt) /\ Ahead(d, p, hw \o kt)
  BY <1>6, <1>7, <1>9, <1>10
<1>12. Agrees(b, p, hw) /\ p \in Nat /\ p + Len(hw) + Len(kt) < Huge
  BY <1>5, <1>11, AheadAgrees
<1>13. n < Huge
  BY <1>9, <1>11, <1>12, Sizes, LenProperties
<1>14. Agrees(b, p, h) /\ (p + Len(h) <= Len(b) => Agrees(b, p + Len(h), w))
  <2>1. Agrees(b, p, h \o w)
    BY <1>10, <1>12
  <2> QED BY <1>5, <1>9, <2>1, AgreesConcat
<1>15. PICK v : v = [tx_hash |-> e.tx_hash, source_account |-> e.source_account]
  OBVIOUS
<1>16. Delivers(head, b, p, h, v)
  <2>1. Agrees(b, p, HeadBytes(e, 0))
    BY <1>8, <1>14
  <2>2. Delivers(ReadRecordHead(b, p), b, p, HeadBytes(e, 0),
                 [tx_hash |-> e.tx_hash, source_account |-> e.source_account])
    BY <1>5, <2>1, ZeroAndOne, ReadRecordHeadRight
  <2> QED BY <1>1, <1>8, <1>15, <2>2
<1>17. ASSUME p + Len(h) <= Len(b) PROVE Delivers(count, b, p + Len(h), w, n)
  <2>1. head.pos = p + Len(h)
    BY <1>5, <1>9, <1>16, <1>17, DeliversNext
  <2>2. Agrees(b, p + Len(h), WordBytes(n))
    BY <1>8, <1>14, <1>17
  <2>3. Delivers(ReadU32(b, p + Len(h)), b, p + Len(h), WordBytes(n), n)
    BY <1>5, <1>9, <1>13, <2>2, ReadU32Right
  <2> QED BY <1>2, <1>8, <2>1, <2>3
<1>18. Delivers(read, b, p, hw, n)
  <2>1. Delivers(IF head.error # NoError THEN head ELSE count, b, p, h \o w, n)
    BY <1>5, <1>9, <1>12, <1>16, <1>17, DeliversConcat
  <2> QED BY <1>3, <1>10, <2>1
<1>19. \/ read.error = "Overrun" /\ read.error # NoError /\ d.damage = "cut"
       \/ read.error = NoError /\ read.value = n /\ Ahead(d, read.pos, kt)
  <2>1. Delivers(read, d.buf, p, hw, n)
    BY <1>5, <1>18
  <2> QED BY <1>5, <1>11, <2>1, ReadAhead
<1>20. CASE FailWith(read)
  <2>1. read.error # NoError
    BY <1>20 DEF FailWith
  <2> QED BY <1>1, <1>19, <1>20, <2>1, IntactFail
<1>21. CASE ~FailWith(read)
  <2>1. /\ read.error = NoError /\ part' = "read_only" /\ pos' = read.pos
        /\ document' = document /\ error' = error /\ capture' = capture /\ records' = records
        /\ record' = [NoRecord EXCEPT !.tx_hash = head.value.tx_hash,
                                      !.source_account = head.value.source_account]
        /\ keys' = read.value
    BY <1>4, <1>21 DEF Succeed
  <2>2. read.value = n /\ Ahead(d, read.pos, kt)
    BY <1>19, <2>1
  <2>3. head.value = v
    <3>1. head.error = NoError
      BY <1>3, <2>1
    <3> QED BY <1>16, <3>1 DEF Delivers, Ok, Fail, NoError
  <2>4. PICK rec, which : rec = record' /\ which = "read_only"
    OBVIOUS
  <2>5. rec = [tx_hash |-> e.tx_hash, source_account |-> e.source_account,
               read_only |-> <<>>, read_write |-> <<>>]
    <3>1. rec = [tx_hash |-> head.value.tx_hash, source_account |-> head.value.source_account,
                 read_only |-> <<>>, read_write |-> <<>>]
      BY <2>1, <2>4 DEF NoRecord
    <3>2. head.value.tx_hash = e.tx_hash /\ head.value.source_account = e.source_account
      BY <1>15, <2>3
    <3> QED BY <3>1, <3>2
  <2>6. e.read_only \in Seq(CaptureKey) /\ e.read_only = <<>> \o e.read_only
    <3>1. e.read_only \in Seq(CaptureKey)
      BY RecordFields
    <3> QED BY <3>1, ConcatEmptySeq
  <2>7. /\ e[which] = rec[which] \o e.read_only
        /\ e.tx_hash = rec.tx_hash /\ e.source_account = rec.source_account
        /\ which # "read_write"
    BY <2>4, <2>5, <2>6
  <2>8. Ahead(d, read.pos, KeysBytes(e.read_only, 0) \o BehindArray(e, which, more))
    BY <1>8, <1>10, <2>2, <2>4 DEF BehindArray
  <2>9. /\ d.capture.from_ledger = capture.from_ledger /\ d.capture.to_ledger = capture.to_ledger
        /\ d.capture.checkpoint_count = capture.checkpoint_count
    BY <1>5 DEF RecordsLeft
  <2>10. KeysLeft(d, read.pos, capture, records, which, rec, n)
    BY <1>6, <1>7, <1>8, <2>6, <2>7, <2>8, <2>9 DEF KeysLeft
  <2> QED BY <1>1, <1>5, <2>1, <2>2, <2>4, <2>10 DEF IntactInv, Arrays
<1> QED BY <1>20, <1>21

\* The next key is read as it was encoded.
LEMMA IntactKey ==
  ASSUME ConsumedInv, IntactInv, TakeKey, Undamaged(document)
  PROVE  IntactInv'
<1>1. PICK d, b, p, read, which : /\ d = document /\ b = document.buf /\ p = pos /\ which = part
                                  /\ read = ReadCaptureKey(document.buf, pos)
  OBVIOUS
<1>2. /\ part \in Arrays /\ keys > 0
      /\ \/ FailWith(read)
         \/ /\ Succeed(read, part)
            /\ record' = [record EXCEPT ![part] = Append(@, read.value)]
            /\ keys' = keys - 1
            /\ UNCHANGED <<capture, records>>
  BY <1>1 DEF TakeKey, Arrays
<1>3. /\ d \in Documents /\ Undamaged(d) /\ b = d.buf /\ b \in Seq(Byte)
      /\ record \in CaptureRecord /\ which \in Arrays
      /\ error = NoError /\ KeysLeft(d, p, capture, records, which, record, keys)
  <2>1. /\ document \in Documents /\ record \in CaptureRecord /\ error = NoError
        /\ KeysLeft(document, pos, capture, records, part, record, keys)
    BY <1>2 DEF ConsumedInv, IntactInv, Arrays
  <2> QED BY <1>1, <1>2, <2>1, DocumentIs
<1>4. PICK whole \in CaptureRecord, rest \in Seq(CaptureRecord), left \in Seq(CaptureKey) :
       /\ d.capture.records = Append(capture.records, whole) \o rest /\ records = Len(rest) + 1
       /\ whole.tx_hash = record.tx_hash /\ whole.source_account = record.source_account
       /\ which = "read_write" => whole.read_only = record.read_only
       /\ whole[which] = record[which] \o left /\ keys = Len(left)
       /\ Ahead(d, p, KeysBytes(left, 0) \o BehindArray(whole, which, rest))
  BY <1>3 DEF KeysLeft
<1>5. record[which] \in Seq(CaptureKey)
  BY <1>3, RecordFields DEF Arrays
<1>6. PICK k \in CaptureKey, more \in Seq(CaptureKey) :
        /\ left = Cons(k, more) /\ Len(left) = Len(more) + 1
        /\ record[which] \o left = Append(record[which], k) \o more
  <2>1. PICK done : done = record[which]
    OBVIOUS
  <2>2. done \in Seq(CaptureKey) /\ left \in Seq(CaptureKey) /\ Len(left) > 0
    BY <1>2, <1>4, <1>5, <2>1
  <2>3. OneMore(CaptureKey, done, left)
    BY <2>2, TakeNext
  <2> QED BY <2>1, <2>3 DEF OneMore
<1>7. PICK t, x, y : /\ t = BehindArray(whole, which, rest)
                     /\ x = WriteCaptureKey(k, 0) /\ y = KeysBytes(more, 0) \o t
  OBVIOUS
<1>8. t \in Seq(Byte)
  <2>1. RecordsBytes(rest, 0) \in Seq(Byte) /\ WriteKeys(whole.read_write, 0) \in Seq(Byte)
    BY RecordFields, KeysAreWritten, RecordsAreWritten, ZeroAndOne
  <2> QED BY <1>7, <2>1, Together DEF BehindArray
<1>9. x \in Seq(Byte) /\ y \in Seq(Byte) /\ KeysBytes(left, 0) \o t = x \o y
  BY <1>6, <1>7, <1>8, NextKeyBytes
<1>10. Ahead(d, p, x \o y)
  BY <1>4, <1>7, <1>9
<1>11. Agrees(b, p, x)
  BY <1>3, <1>9, <1>10, AheadAgrees
<1>12. Delivers(read, d.buf, p, x, k)
  <2>1. Agrees(b, p, WriteCaptureKey(k, 0))
    BY <1>7, <1>11
  <2>2. Delivers(ReadCaptureKey(b, p), b, p, WriteCaptureKey(k, 0), k)
    BY <1>3, <2>1, ZeroAndOne, ReadCaptureKeyRight
  <2> QED BY <1>1, <1>7, <2>2
<1>13. \/ read.error = "Overrun" /\ read.error # NoError /\ d.damage = "cut"
       \/ read.error = NoError /\ read.value = k /\ Ahead(d, read.pos, y)
  BY <1>3, <1>9, <1>10, <1>12, ReadAhead
<1>14. CASE FailWith(read)
  <2>1. read.error # NoError
    BY <1>14 DEF FailWith
  <2> QED BY <1>1, <1>13, <1>14, <2>1, IntactFail
<1>15. CASE ~FailWith(read)
  <2>1. /\ read.error = NoError /\ part' = part /\ pos' = read.pos
        /\ document' = document /\ error' = error /\ capture' = capture /\ records' = records
        /\ record' = [record EXCEPT ![part] = Append(@, read.value)]
        /\ keys' = keys - 1
    BY <1>2, <1>15 DEF Succeed
  <2>2. read.value = k /\ Ahead(d, read.pos, y)
    BY <1>13, <2>1
  <2>3. PICK rec, n : rec = record' /\ n = keys - 1
    OBVIOUS
  <2>4. Puts(rec, record, which, k)
    BY <1>1, <2>1, <2>2, <2>3 DEF Puts
  <2>5. /\ rec[which] = Append(record[which], k)
        /\ rec.tx_hash = record.tx_hash /\ rec.source_account = record.source_account
        /\ which = "read_write" => rec.read_only = record.read_only
    BY <1>3, <2>4, PutKey
  <2>6. n = Len(more)
    <3>1. Len(more) \in Nat
      BY LenProperties
    <3> QED BY <1>4, <1>6, <2>3, <3>1
  <2>7. whole[which] = rec[which] \o more
    BY <1>4, <1>6, <2>5
  <2>8. Ahead(d, read.pos, KeysBytes(more, 0) \o BehindArray(whole, which, rest))
    BY <1>7, <2>2
  <2>9. /\ d.capture.from_ledger = capture.from_ledger /\ d.capture.to_ledger = capture.to_ledger
        /\ d.capture.checkpoint_count = capture.checkpoint_count
    BY <1>3 DEF KeysLeft
  <2>10. KeysLeft(d, read.pos, capture, records, which, rec, n)
    BY <1>4, <2>5, <2>6, <2>7, <2>8, <2>9 DEF KeysLeft
  <2> QED BY <1>1, <1>2, <1>3, <2>1, <2>3, <2>10 DEF IntactInv, Arrays
<1> QED BY <1>14, <1>15

\* The second array of a record is as long as it was encoded.
LEMMA IntactReadWrite ==
  ASSUME ConsumedInv, IntactInv, StartReadWrite, Undamaged(document)
  PROVE  IntactInv'
<1>1. PICK d, b, p, read, which, next :
        /\ d = document /\ b = document.buf /\ p = pos /\ read = ReadU32(document.buf, pos)
        /\ which = "read_only" /\ next = "read_write"
  OBVIOUS
<1>2. /\ part = "read_only" /\ keys = 0
      /\ \/ FailWith(read)
         \/ /\ Succeed(read, "read_write")
            /\ keys' = read.value
            /\ UNCHANGED <<capture, records, record>>
  BY <1>1 DEF StartReadWrite
<1>3. /\ d \in Documents /\ Undamaged(d) /\ b = d.buf /\ b \in Seq(Byte)
      /\ record \in CaptureRecord /\ record.read_write = <<>>
      /\ error = NoError /\ KeysLeft(d, p, capture, records, which, record, keys)
  <2>1. /\ document \in Documents /\ record \in CaptureRecord /\ error = NoError
        /\ record.read_write = <<>>
        /\ KeysLeft(document, pos, capture, records, part, record, keys)
    BY <1>2 DEF ConsumedInv, IntactInv, Arrays
  <2> QED BY <1>1, <1>2, <2>1, DocumentIs
<1>4. PICK whole \in CaptureRecord, rest \in Seq(CaptureRecord), left \in Seq(CaptureKey) :
       /\ d.capture.records = Append(capture.records, whole) \o rest /\ records = Len(rest) + 1
       /\ whole.tx_hash = record.tx_hash /\ whole.source_account = record.source_account
       /\ which = "read_write" => whole.read_only = record.read_only
       /\ whole[which] = record[which] \o left /\ keys = Len(left)
       /\ Ahead(d, p, KeysBytes(left, 0) \o BehindArray(whole, which, rest))
  BY <1>3 DEF KeysLeft
<1>5. left = <<>>
  BY <1>2, <1>4, EmptySeq
<1>6. whole.read_only = record.read_only
  <2>1. record.read_only \in Seq(CaptureKey)
    BY <1>3, RecordFields
  <2>2. record.read_only \o <<>> = record.read_only
    BY <2>1, ConcatEmptySeq
  <2> QED BY <1>1, <1>4, <1>5, <2>2
<1>7. PICK list, n, t, w, kt :
        /\ list = whole.read_write /\ n = Len(whole.read_write)
        /\ t = RecordsBytes(rest, 0) /\ w = WordBytes(Len(whole.read_write))
        /\ kt = KeysBytes(whole.read_write, 0) \o RecordsBytes(rest, 0)
  OBVIOUS
<1>8. list \in Seq(CaptureKey) /\ t \in Seq(Byte)
  BY <1>7, RecordFields, RecordsAreWritten, ZeroAndOne
<1>9. /\ w \in Seq(Byte) /\ kt \in Seq(Byte) /\ n \in Nat /\ n <= Len(kt)
      /\ WriteKeys(list, 0) \o t = w \o kt
  BY <1>7, <1>8, NextArrayBytes
<1>10. Ahead(d, p, w \o kt)
  <2>1. BehindArray(whole, which, rest) = WriteKeys(list, 0) \o t
    BY <1>1, <1>7 DEF BehindArray
  <2>2. KeysBytes(left, 0) = <<>>
    BY <1>5, <1>8, KeysAreWritten, ZeroAndOne
  <2>3. w \o kt \in Seq(Byte)
    BY <1>9, Together
  <2>4. <<>> \o (w \o kt) = w \o kt
    BY <2>3, ConcatEmptySeq
  <2> QED BY <1>4, <1>9, <2>1, <2>2, <2>4
<1>11. Agrees(b, p, w) /\ p \in Nat /\ p + Len(w) + Len(kt) < Huge
  BY <1>3, <1>9, <1>10, AheadAgrees
<1>12. n < Huge
  BY <1>9, <1>11, Sizes, LenProperties
<1>13. Delivers(read, d.buf, p, w, n)
  <2>1. Agrees(b, p, WordBytes(n))
    BY <1>7, <1>11
  <2>2. Delivers(ReadU32(b, p), b, p, WordBytes(n), n)
    BY <1>3, <1>9, <1>12, <2>1, ReadU32Right
  <2> QED BY <1>1, <1>7, <2>2
<1>14. \/ read.error = "Overrun" /\ read.error # NoError /\ d.damage = "cut"
       \/ read.error = NoError /\ read.value = n /\ Ahead(d, read.pos, kt)
  BY <1>3, <1>9, <1>10, <1>13, ReadAhead
<1>15. CASE FailWith(read)
  <2>1. read.error # NoError
    BY <1>15 DEF FailWith
  <2> QED BY <1>1, <1>14, <1>15, <2>1, IntactFail
<1>16. CASE ~FailWith(read)
  <2>1. /\ read.error = NoError /\ part' = "read_write" /\ pos' = read.pos
        /\ document' = document /\ error' = error /\ capture' = capture /\ records' = records
        /\ record' = record /\ keys' = read.value
    BY <1>2, <1>16 DEF Succeed
  <2>2. read.value = n /\ Ahead(d, read.pos, kt)
    BY <1>14, <2>1
  <2>3. whole[next] = record[next] \o list
    <3>1. <<>> \o list = list
      BY <1>8, ConcatEmptySeq
    <3> QED BY <1>1, <1>3, <1>7, <3>1
  <2>4. Ahead(d, read.pos, KeysBytes(list, 0) \o BehindArray(whole, next, rest))
    BY <1>1, <1>7, <2>2 DEF BehindArray
  <2>5. /\ d.capture.from_ledger = capture.from_ledger /\ d.capture.to_ledger = capture.to_ledger
        /\ d.capture.checkpoint_count = capture.checkpoint_count
    BY <1>3 DEF KeysLeft
  <2>6. KeysLeft(d, read.pos, capture, records, next, record, n)
    BY <1>4, <1>6, <1>7, <1>8, <2>3, <2>4, <2>5 DEF KeysLeft
  <2> QED BY <1>1, <1>3, <2>1, <2>2, <2>6 DEF IntactInv, Arrays
<1> QED BY <1>15, <1>16

\* A record that is pushed is the one that was encoded.
LEMMA IntactPush ==
  ASSUME ConsumedInv, IntactInv, PushRecord, Undamaged(document)
  PROVE  IntactInv'
<1>1. PICK d, p, which : d = document /\ p = pos /\ which = "read_write"
  OBVIOUS
<1>2. /\ part = "read_write" /\ keys = 0 /\ part' = "record"
      /\ capture' = [capture EXCEPT !.records = Append(@, record)]
      /\ records' = records - 1
      /\ document' = document /\ pos' = pos /\ error' = error
  BY DEF PushRecord
<1>3. /\ d \in Documents /\ record \in CaptureRecord /\ capture \in ArchiveCapture
      /\ error = NoError /\ KeysLeft(d, p, capture, records, which, record, keys)
  BY <1>1, <1>2 DEF ConsumedInv, IntactInv, Arrays
<1>4. PICK whole \in CaptureRecord, rest \in Seq(CaptureRecord), left \in Seq(CaptureKey) :
       /\ d.capture.records = Append(capture.records, whole) \o rest /\ records = Len(rest) + 1
       /\ whole.tx_hash = record.tx_hash /\ whole.source_account = record.source_account
       /\ which = "read_write" => whole.read_only = record.read_only
       /\ whole[which] = record[which] \o left /\ keys = Len(left)
       /\ Ahead(d, p, KeysBytes(left, 0) \o BehindArray(whole, which, rest))
  BY <1>3 DEF KeysLeft
<1>5. left = <<>>
  BY <1>2, <1>4, EmptySeq
<1>6. whole = record
  <2>1. whole.read_write = record.read_write /\ whole.read_only = record.read_only
    <3>1. record.read_write \in Seq(CaptureKey)
      BY <1>3, RecordFields
    <3>2. record.read_write \o <<>> = record.read_write
      BY <3>1, ConcatEmptySeq
    <3> QED BY <1>1, <1>4, <1>5, <3>2
  <2>2. whole = [tx_hash |-> whole.tx_hash, source_account |-> whole.source_account,
                 read_only |-> whole.read_only, read_write |-> whole.read_write]
    BY RecordFields
  <2>3. record = [tx_hash |-> record.tx_hash, source_account |-> record.source_account,
                  read_only |-> record.read_only, read_write |-> record.read_write]
    BY <1>3, RecordFields
  <2> QED BY <1>4, <2>1, <2>2, <2>3
<1>7. Ahead(d, p, RecordsBytes(rest, 0))
  <2>1. PICK t : t = RecordsBytes(rest, 0)
    OBVIOUS
  <2>2. t \in Seq(Byte)
    BY <2>1, RecordsAreWritten, ZeroAndOne
  <2>3. <<>> \o t = t
    BY <2>2, ConcatEmptySeq
  <2>4. KeysBytes(left, 0) = <<>>
    BY <1>5, KeysAreWritten, ZeroAndOne
  <2>5. BehindArray(whole, which, rest) = t
    BY <1>1, <2>1 DEF BehindArray
  <2> QED BY <1>4, <2>1, <2>3, <2>4, <2>5
<1>8. PICK cap, n : cap = capture' /\ n = records - 1
  OBVIOUS
<1>9. /\ cap.records = Append(capture.records, record)
      /\ cap.from_ledger = capture.from_ledger /\ cap.to_ledger = capture.to_ledger
      /\ cap.checkpoint_count = capture.checkpoint_count
  BY <1>2, <1>3, <1>8, PutRecord
<1>10. n = Len(rest)
  <2>1. Len(rest) \in Nat
    BY LenProperties
  <2> QED BY <1>4, <1>8, <2>1
<1>11. /\ d.capture.from_ledger = capture.from_ledger /\ d.capture.to_ledger = capture.to_ledger
       /\ d.capture.checkpoint_count = capture.checkpoint_count
  BY <1>3 DEF KeysLeft
<1>12. RecordsLeft(d, p, cap, n)
  BY <1>4, <1>6, <1>7, <1>9, <1>10, <1>11 DEF RecordsLeft
<1> QED BY <1>1, <1>2, <1>3, <1>8, <1>12 DEF IntactInv, Arrays

\* A decoder that has read all the records has the capture that was encoded.
LEMMA IntactFinish ==
  ASSUME ConsumedInv, IntactInv, FinishDecode, Undamaged(document)
  PROVE  IntactInv'
<1>1. PICK d, p : d = document /\ p = pos
  OBVIOUS
<1>2. /\ part = "record" /\ records = 0 /\ part' = "done"
      /\ UNCHANGED <<document, pos, error, capture, records, record, keys>>
  BY DEF FinishDecode
<1>3. /\ d \in Documents /\ capture \in ArchiveCapture /\ p \in Nat
      /\ error = NoError /\ RecordsLeft(d, p, capture, records)
  BY <1>1, <1>2 DEF ConsumedInv, IntactInv, Place
<1>4. PICK rest \in Seq(CaptureRecord) :
        /\ d.capture.records = capture.records \o rest /\ records = Len(rest)
        /\ Ahead(d, p, RecordsBytes(rest, 0))
  BY <1>3 DEF RecordsLeft
<1>5. rest = <<>>
  BY <1>2, <1>4, EmptySeq
<1>6. d.capture = capture
  <2>1. capture.records \o <<>> = capture.records
    <3>1. capture.records \in Seq(CaptureRecord)
      BY <1>3, CaptureFields
    <3> QED BY <3>1, ConcatEmptySeq
  <2>2. d.capture \in ArchiveCapture
    BY <1>3, DocumentIs
  <2>3. /\ d.capture.from_ledger = capture.from_ledger /\ d.capture.to_ledger = capture.to_ledger
        /\ d.capture.checkpoint_count = capture.checkpoint_count
    BY <1>3 DEF RecordsLeft
  <2>4. capture = [from_ledger |-> capture.from_ledger, to_ledger |-> capture.to_ledger,
                   checkpoint_count |-> capture.checkpoint_count, records |-> capture.records]
    BY <1>3, CaptureFields
  <2>5. PICK c : c = d.capture
    OBVIOUS
  <2>6. c = [from_ledger |-> c.from_ledger, to_ledger |-> c.to_ledger,
             checkpoint_count |-> c.checkpoint_count, records |-> c.records]
    BY <2>2, <2>5, CaptureFields
  <2> QED BY <1>4, <1>5, <2>1, <2>3, <2>4, <2>5, <2>6
<1>7. p = Len(EncodeCapture(d.capture, 0))
  <2>1. RecordsBytes(rest, 0) = <<>>
    BY <1>5, RecordsAreWritten, ZeroAndOne
  <2>2. p + Len(<<>>) = Len(EncodeCapture(d.capture, 0))
    BY <1>4, <2>1 DEF Ahead
  <2>3. p + Len(<<>>) = p
    BY <1>3, EmptySeq
  <2> QED BY <2>2, <2>3
<1> QED BY <1>1, <1>2, <1>3, <1>6, <1>7 DEF IntactInv, Arrays

\* Every step of the decoder reads what was encoded, or ends because the
\* document does.
LEMMA IntactStep ==
  ASSUME ConsumedInv, IntactInv, [ReplayNext]_replayVars
  PROVE  IntactInv'
<1> SUFFICES ASSUME Undamaged(document) PROVE IntactInv'
  <2>1. document' = document
    BY DEF ReplayNext, replayVars, TakeHeader, TakeRecordHead, TakeKey, StartReadWrite,
           PushRecord, FinishDecode, FailWith, Succeed
  <2> QED BY <2>1 DEF IntactInv, Undamaged
<1>1. CASE TakeHeader
  BY <1>1, IntactHeader
<1>2. CASE TakeRecordHead
  BY <1>2, IntactRecordHead
<1>3. CASE TakeKey
  BY <1>3, IntactKey
<1>4. CASE StartReadWrite
  BY <1>4, IntactReadWrite
<1>5. CASE PushRecord
  BY <1>5, IntactPush
<1>6. CASE FinishDecode
  BY <1>6, IntactFinish
<1>7. CASE UNCHANGED replayVars
  BY <1>7 DEF IntactInv, replayVars
<1> QED BY <1>1, <1>2, <1>3, <1>4, <1>5, <1>6, <1>7 DEF ReplayNext

\* Both hold in every state of every decoding.
LEMMA AlwaysIntact == ReplaySpec => [](ConsumedInv /\ IntactInv)
<1>1. ReplayInit => ConsumedInv /\ IntactInv
  BY ConsumedInit, IntactInit
<1>2. ConsumedInv /\ IntactInv /\ [ReplayNext]_replayVars => (ConsumedInv /\ IntactInv)'
  BY ConsumedStep, IntactStep
<1> QED BY <1>1, <1>2, PTL DEF ReplaySpec

\* Together they say what decoding an undamaged document leads to.
LEMMA IntactThrough ==
  ASSUME ConsumedInv, IntactInv
  PROVE  DecodesFaithfully /\ CutDocumentsRejected
<1>1. PICK d, e : d = document /\ e = EncodeCapture(document.capture, 0)
  OBVIOUS
<1>2. d \in Documents /\ pos <= Len(d.buf) /\ pos \in Nat
  BY <1>1 DEF ConsumedInv, Place
<1>3. Undamaged(d) =>
        /\ d.damage = "cut" <=> Len(d.buf) < Len(e)
        /\ d.damage = "none" => Len(d.buf) = Len(e)
        /\ Len(d.buf) \in Nat /\ Len(e) \in Nat
  BY <1>1, <1>2, OnlyCutIsShort
<1>4. Undamaged(d) =>
        /\ part # "failed" => error = NoError
        /\ part = "done" => d.capture = capture /\ pos = Len(e)
        /\ part = "failed" => d.damage = "cut" /\ error = "Overrun"
  BY <1>1 DEF IntactInv
<1>5. ConsumedExactly
  BY ConsumedThrough
<1>6. d.damage = "none" =>
       /\ part # "failed"
       /\ part = "done" => capture = d.capture /\ pos = Len(d.buf)
  BY <1>3, <1>4 DEF Undamaged
<1>7. d.damage = "cut" => part # "done" /\ error \in {NoError, "Overrun"}
  BY <1>2, <1>3, <1>4 DEF Undamaged
<1>8. d.damage = "tail" =>
       part # "failed" /\ (part = "done" => capture = d.capture)
  BY <1>4 DEF Undamaged
<1>9. DecodesFaithfully
  BY <1>1, <1>5, <1>6 DEF DecodesFaithfully, ConsumedExactly
<1> QED BY <1>1, <1>7, <1>8, <1>9 DEF CutDocumentsRejected

\* For all documents: decode_capture turns a whole document into the capture it
\* encodes, and accepts nothing that would be written differently.
THEOREM AlwaysDecodesFaithfully == ReplaySpec => []DecodesFaithfully
<1>1. ConsumedInv /\ IntactInv => DecodesFaithfully
  BY IntactThrough
<1> QED BY <1>1, AlwaysIntact, PTL

\* For all documents: one cut short anywhere is an error of decode_capture, and
\* bytes behind a whole one change nothing.
THEOREM CutAlwaysRejected == ReplaySpec => []CutDocumentsRejected
<1>1. ConsumedInv /\ IntactInv => CutDocumentsRejected
  BY IntactThrough
<1> QED BY <1>1, AlwaysIntact, PTL

-----------------------------------------------------------------------------
\* The footprints of the loaded transactions.

\* The entries that the keys of a list at some positions name.
EntriesAt(list, s) == {ToLedgerKey(list[i]) : i \in s}
EntriesOf(list) == EntriesAt(list, DOMAIN list)

\* A position more is its entry more.
LEMMA EntriesGrow ==
  ASSUME NEW list, NEW s, NEW x \in s
  PROVE  EntriesAt(list, s) = EntriesAt(list, s \ {x}) \cup {ToLedgerKey(list[x])}
BY DEF EntriesAt

\* What reading or writing one more key does to a footprint.
Reads(fp, entry) == F!Read(fp, entry)
Writes(fp, entry) == F!ReadWrite(fp, entry)

\* A key that is read is put on the read-only side.
LEMMA KeyRead ==
  ASSUME NEW A, NEW B, NEW k
  PROVE  Reads([read_only |-> A, read_write |-> B], k)
           = [read_only |-> A \cup {k}, read_write |-> B]
BY DEF F!Read, Reads

\* A key that is written is put on the other side.
LEMMA KeyWritten ==
  ASSUME NEW A, NEW B, NEW k
  PROVE  Writes([read_only |-> A, read_write |-> B], k)
           = [read_only |-> A, read_write |-> B \cup {k}]
BY DEF F!ReadWrite, Writes

\* Reading the keys of a list one after the other adds their entries.
LEMMA FoldReads ==
  ASSUME NEW list \in Seq(CaptureKey), NEW A, NEW B
  PROVE  FoldLeft(LAMBDA fp, key : F!Read(fp, ToLedgerKey(key)),
                  [read_only |-> A, read_write |-> B], list)
           = [read_only |-> A \cup EntriesOf(list), read_write |-> B]
<1> DEFINE D == DOMAIN list
           base == [read_only |-> A, read_write |-> B]
           Steps(w) == [s \in SUBSET D |->
             IF s = {} THEN base
             ELSE LET x == Max(s) IN Reads(w[s \ {x}], ToLedgerKey(list[x]))]
           iter == CHOOSE w : w = Steps(w)
           total == [s \in SUBSET D |->
                       [read_only |-> A \cup EntriesAt(list, s), read_write |-> B]]
<1>1. FoldLeft(LAMBDA fp, key : F!Read(fp, ToLedgerKey(key)), base, list) = iter[D]
  BY DEF FoldLeft, MapThenFoldSet, Reads
<1>2. IsFiniteSet(D) /\ \A s \in SUBSET D : s # {} => Max(s) \in s
  <2>1. D = 1..Len(list) /\ Len(list) \in Nat
    BY LenProperties
  <2> QED BY <2>1, LastPosition
<1> HIDE DEF D, iter
<1>3. total = Steps(total)
  <2>1. ASSUME NEW s \in SUBSET D PROVE total[s] = Steps(total)[s]
    <3>1. CASE s = {}
      <4>1. EntriesAt(list, {}) = {}
        BY DEF EntriesAt
      <4> QED BY <3>1, <4>1
    <3>2. CASE s # {}
      <4>1. PICK x : x = Max(s)
        OBVIOUS
      <4>2. x \in s
        BY <1>2, <3>2, <4>1
      <4>3. EntriesAt(list, s) = EntriesAt(list, s \ {x}) \cup {ToLedgerKey(list[x])}
        BY <4>2, EntriesGrow
      <4>4. Steps(total)[s] = Reads(total[s \ {x}], ToLedgerKey(list[x]))
        BY <3>2, <4>1
      <4>5. total[s \ {x}] = [read_only |-> A \cup EntriesAt(list, s \ {x}), read_write |-> B]
        OBVIOUS
      <4>6. total[s] = [read_only |-> A \cup EntriesAt(list, s), read_write |-> B]
        OBVIOUS
      <4>7. A \cup EntriesAt(list, s) = (A \cup EntriesAt(list, s \ {x})) \cup {ToLedgerKey(list[x])}
        BY <4>3
      <4> HIDE DEF Steps, total, base
      <4>8. Reads(total[s \ {x}], ToLedgerKey(list[x]))
              = [read_only |-> (A \cup EntriesAt(list, s \ {x})) \cup {ToLedgerKey(list[x])},
                 read_write |-> B]
        <5>1. PICK c, k, was : /\ c = A \cup EntriesAt(list, s \ {x}) /\ k = ToLedgerKey(list[x])
                               /\ was = [read_only |-> c, read_write |-> B]
          OBVIOUS
        <5>2. Reads([read_only |-> c, read_write |-> B], k)
                = [read_only |-> c \cup {k}, read_write |-> B]
          BY KeyRead
        <5>3. Reads(was, k) = [read_only |-> c \cup {k}, read_write |-> B]
          BY <5>1, <5>2
        <5>4. total[s \ {x}] = was
          BY <4>5, <5>1
        <5> QED BY <5>1, <5>3, <5>4
      <4> QED BY <4>4, <4>6, <4>7, <4>8
    <3> QED BY <3>1, <3>2
  <2>2. total = [s \in SUBSET D |-> total[s]] /\ Steps(total) = [s \in SUBSET D |-> Steps(total)[s]]
    OBVIOUS
  <2> HIDE DEF Steps, total
  <2> QED BY <2>1, <2>2
<1>4. iter = Steps(iter)
  <2> HIDE DEF Steps, total
  <2> QED BY <1>3 DEF iter
<1>5. /\ iter[{}] = base
      /\ \A s \in SUBSET D : s # {} =>
           iter[s] = Reads(iter[s \ {Max(s)}], ToLedgerKey(list[Max(s)]))
  BY <1>4
<1>6. /\ total[{}] = base
      /\ \A s \in SUBSET D : s # {} =>
           total[s] = Reads(total[s \ {Max(s)}], ToLedgerKey(list[Max(s)]))
  <2> HIDE DEF total
  <2> QED BY <1>3
<1>7. total[D] = [read_only |-> A \cup EntriesOf(list), read_write |-> B]
  BY DEF EntriesOf, D
<1> HIDE DEF total, base, Steps
<1>8. \A s \in SUBSET D : s # {} =>
        \E x \in s : iter[s \ {x}] = total[s \ {x}] => iter[s] = total[s]
  <2> SUFFICES ASSUME NEW s \in SUBSET D, s # {}
               PROVE  \E x \in s : iter[s \ {x}] = total[s \ {x}] => iter[s] = total[s]
    OBVIOUS
  <2>1. PICK x : x = Max(s)
    OBVIOUS
  <2>2. x \in s
    BY <1>2, <2>1
  <2>3. iter[s \ {x}] = total[s \ {x}] => iter[s] = total[s]
    BY <1>5, <1>6, <2>1
  <2> QED BY <2>2, <2>3
<1>9. iter[D] = total[D]
  <2>1. PICK one, other : one = iter /\ other = total
    OBVIOUS
  <2>2. IsFiniteSet(D) /\ one[{}] = other[{}]
    BY <1>2, <1>5, <1>6, <2>1
  <2>3. \A s \in SUBSET D : s # {} =>
           \E x \in s : one[s \ {x}] = other[s \ {x}] => one[s] = other[s]
    BY <1>8, <2>1
  <2>4. one[D] = other[D]
    BY <2>2, <2>3, SubsetsAgree
  <2> QED BY <2>1, <2>4
<1> QED BY <1>1, <1>7, <1>9 DEF base

\* Writing the keys of a list does so on the other side.
LEMMA FoldWrites ==
  ASSUME NEW list \in Seq(CaptureKey), NEW A, NEW B
  PROVE  FoldLeft(LAMBDA fp, key : F!ReadWrite(fp, ToLedgerKey(key)),
                  [read_only |-> A, read_write |-> B], list)
           = [read_only |-> A, read_write |-> B \cup EntriesOf(list)]
<1> DEFINE D == DOMAIN list
           base == [read_only |-> A, read_write |-> B]
           Steps(w) == [s \in SUBSET D |->
             IF s = {} THEN base
             ELSE LET x == Max(s) IN Writes(w[s \ {x}], ToLedgerKey(list[x]))]
           iter == CHOOSE w : w = Steps(w)
           total == [s \in SUBSET D |->
                       [read_only |-> A, read_write |-> B \cup EntriesAt(list, s)]]
<1>1. FoldLeft(LAMBDA fp, key : F!ReadWrite(fp, ToLedgerKey(key)), base, list) = iter[D]
  BY DEF FoldLeft, MapThenFoldSet, Writes
<1>2. IsFiniteSet(D) /\ \A s \in SUBSET D : s # {} => Max(s) \in s
  <2>1. D = 1..Len(list) /\ Len(list) \in Nat
    BY LenProperties
  <2> QED BY <2>1, LastPosition
<1> HIDE DEF D, iter
<1>3. total = Steps(total)
  <2>1. ASSUME NEW s \in SUBSET D PROVE total[s] = Steps(total)[s]
    <3>1. CASE s = {}
      <4>1. EntriesAt(list, {}) = {}
        BY DEF EntriesAt
      <4> QED BY <3>1, <4>1
    <3>2. CASE s # {}
      <4>1. PICK x : x = Max(s)
        OBVIOUS
      <4>2. x \in s
        BY <1>2, <3>2, <4>1
      <4>3. EntriesAt(list, s) = EntriesAt(list, s \ {x}) \cup {ToLedgerKey(list[x])}
        BY <4>2, EntriesGrow
      <4>4. Steps(total)[s] = Writes(total[s \ {x}], ToLedgerKey(list[x]))
        BY <3>2, <4>1
      <4>5. total[s \ {x}] = [read_only |-> A, read_write |-> B \cup EntriesAt(list, s \ {x})]
        OBVIOUS
      <4>6. total[s] = [read_only |-> A, read_write |-> B \cup EntriesAt(list, s)]
        OBVIOUS
      <4>7. B \cup EntriesAt(list, s) = (B \cup EntriesAt(list, s \ {x})) \cup {ToLedgerKey(list[x])}
        BY <4>3
      <4> HIDE DEF Steps, total, base
      <4>8. Writes(total[s \ {x}], ToLedgerKey(list[x]))
              = [read_only |-> A,
                 read_write |-> (B \cup EntriesAt(list, s \ {x})) \cup {ToLedgerKey(list[x])}]
        <5>1. PICK c, k, was : /\ c = B \cup EntriesAt(list, s \ {x}) /\ k = ToLedgerKey(list[x])
                               /\ was = [read_only |-> A, read_write |-> c]
          OBVIOUS
        <5>2. Writes([read_only |-> A, read_write |-> c], k)
                = [read_only |-> A, read_write |-> c \cup {k}]
          BY KeyWritten
        <5>3. Writes(was, k) = [read_only |-> A, read_write |-> c \cup {k}]
          BY <5>1, <5>2
        <5>4. total[s \ {x}] = was
          BY <4>5, <5>1
        <5> QED BY <5>1, <5>3, <5>4
      <4> QED BY <4>4, <4>6, <4>7, <4>8
    <3> QED BY <3>1, <3>2
  <2>2. total = [s \in SUBSET D |-> total[s]] /\ Steps(total) = [s \in SUBSET D |-> Steps(total)[s]]
    OBVIOUS
  <2> HIDE DEF Steps, total
  <2> QED BY <2>1, <2>2
<1>4. iter = Steps(iter)
  <2> HIDE DEF Steps, total
  <2> QED BY <1>3 DEF iter
<1>5. /\ iter[{}] = base
      /\ \A s \in SUBSET D : s # {} =>
           iter[s] = Writes(iter[s \ {Max(s)}], ToLedgerKey(list[Max(s)]))
  BY <1>4
<1>6. /\ total[{}] = base
      /\ \A s \in SUBSET D : s # {} =>
           total[s] = Writes(total[s \ {Max(s)}], ToLedgerKey(list[Max(s)]))
  <2> HIDE DEF total
  <2> QED BY <1>3
<1>7. total[D] = [read_only |-> A, read_write |-> B \cup EntriesOf(list)]
  BY DEF EntriesOf, D
<1> HIDE DEF total, base, Steps
<1>8. \A s \in SUBSET D : s # {} =>
        \E x \in s : iter[s \ {x}] = total[s \ {x}] => iter[s] = total[s]
  <2> SUFFICES ASSUME NEW s \in SUBSET D, s # {}
               PROVE  \E x \in s : iter[s \ {x}] = total[s \ {x}] => iter[s] = total[s]
    OBVIOUS
  <2>1. PICK x : x = Max(s)
    OBVIOUS
  <2>2. x \in s
    BY <1>2, <2>1
  <2>3. iter[s \ {x}] = total[s \ {x}] => iter[s] = total[s]
    BY <1>5, <1>6, <2>1
  <2> QED BY <2>2, <2>3
<1>9. iter[D] = total[D]
  <2>1. PICK one, other : one = iter /\ other = total
    OBVIOUS
  <2>2. IsFiniteSet(D) /\ one[{}] = other[{}]
    BY <1>2, <1>5, <1>6, <2>1
  <2>3. \A s \in SUBSET D : s # {} =>
           \E x \in s : one[s \ {x}] = other[s \ {x}] => one[s] = other[s]
    BY <1>8, <2>1
  <2>4. one[D] = other[D]
    BY <2>2, <2>3, SubsetsAgree
  <2> QED BY <2>1, <2>4
<1> QED BY <1>1, <1>7, <1>9 DEF base

\* record_to_transaction gives a transaction the entries its keys name.
LEMMA FootprintOf ==
  ASSUME NEW rec \in CaptureRecord
  PROVE  RecordToTransaction(rec).footprint
           = [read_only |-> EntriesOf(rec.read_only), read_write |-> EntriesOf(rec.read_write)]
<1>1. PICK r, w : r = EntriesOf(rec.read_only) /\ w = EntriesOf(rec.read_write)
  OBVIOUS
<1>2. rec.read_only \in Seq(CaptureKey) /\ rec.read_write \in Seq(CaptureKey)
  BY RecordFields
<1>3. FoldLeft(LAMBDA fp, key : F!Read(fp, ToLedgerKey(key)), F!EmptyFootprint, rec.read_only)
        = [read_only |-> r, read_write |-> {}]
  <2>1. FoldLeft(LAMBDA fp, key : F!Read(fp, ToLedgerKey(key)),
                 [read_only |-> {}, read_write |-> {}], rec.read_only)
          = [read_only |-> {} \cup EntriesOf(rec.read_only), read_write |-> {}]
    BY <1>2, FoldReads
  <2>2. {} \cup EntriesOf(rec.read_only) = r
    BY <1>1
  <2> QED BY <2>1, <2>2 DEF F!EmptyFootprint
<1>4. FoldLeft(LAMBDA fp, key : F!ReadWrite(fp, ToLedgerKey(key)),
               [read_only |-> r, read_write |-> {}], rec.read_write)
        = [read_only |-> r, read_write |-> w]
  <2>1. FoldLeft(LAMBDA fp, key : F!ReadWrite(fp, ToLedgerKey(key)),
                 [read_only |-> r, read_write |-> {}], rec.read_write)
          = [read_only |-> r, read_write |-> {} \cup EntriesOf(rec.read_write)]
    BY <1>2, FoldWrites
  <2>2. {} \cup EntriesOf(rec.read_write) = w
    BY <1>1
  <2> QED BY <2>1, <2>2
<1> QED BY <1>1, <1>3, <1>4 DEF RecordToTransaction

\* Two keys name the same entry exactly if they become the same ledger key.
LEMMA SameKey ==
  ASSUME NEW a, NEW b
  PROVE  ToLedgerKey(a) = ToLedgerKey(b) <=> SameEntry(a, b)
BY DEF ToLedgerKey, SameEntry

\* The entries named by two lists of keys have one in common exactly if two of
\* their keys name the same one.
LEMMA EntriesMeet ==
  ASSUME NEW a \in Seq(CaptureKey), NEW b \in Seq(CaptureKey)
  PROVE  EntriesOf(a) \cap EntriesOf(b) # {}
           <=> \E p \in ToSet(a), q \in ToSet(b) : SameEntry(p, q)
<1>1. \A e : e \in EntriesOf(a) <=> \E p \in ToSet(a) : e = ToLedgerKey(p)
  BY DEF EntriesOf, EntriesAt, ToSet
<1>2. \A e : e \in EntriesOf(b) <=> \E q \in ToSet(b) : e = ToLedgerKey(q)
  BY DEF EntriesOf, EntriesAt, ToSet
<1> QED BY <1>1, <1>2, SameKey

\* A loaded set has the conflicts of the capture that was encoded.
LEMMA EntriesDecide ==
  ASSUME ConsumedInv, IntactInv
  PROVE  EntriesDecideConflicts
<1> SUFFICES ASSUME part = "done", document.damage = "none" PROVE EntriesDecideConflicts
  BY DEF EntriesDecideConflicts
<1>1. PICK written, loaded : /\ written = document.capture.records
                             /\ loaded = ArchiveLoad("bucket").set.records
  OBVIOUS
<1>2. capture = document.capture /\ capture \in ArchiveCapture
  BY DEF IntactInv, ConsumedInv, Undamaged
<1>3. PICK n : n = Len(written)
  OBVIOUS
<1>4. /\ written \in Seq(CaptureRecord) /\ n \in Nat /\ DOMAIN written = 1..n
      /\ \A i \in 1..n : written[i] \in CaptureRecord
  <2>1. written \in Seq(CaptureRecord)
    BY <1>1, <1>2, CaptureFields
  <2> QED BY <1>3, <2>1, LenProperties, ElementOfSeq
<1>5. loaded = [i \in 1..n |-> RecordToTransaction(written[i])]
  BY <1>1, <1>2, <1>4 DEF ArchiveLoad, DecodeCaptureSet, RecordsToSet
<1>6. Len(loaded) = n
  BY <1>4, <1>5, LenProperties, FunctionIsList
<1>7. ASSUME NEW x \in 1..n, NEW y \in 1..n
      PROVE  F!ConflictsWith(loaded[x].footprint, loaded[y].footprint)
               <=> \/ \E a \in ToSet(written[x].read_write),
                        b \in ToSet(written[y].read_only) \cup ToSet(written[y].read_write) :
                        SameEntry(a, b)
                   \/ \E a \in ToSet(written[y].read_write),
                        b \in ToSet(written[x].read_only) \cup ToSet(written[x].read_write) :
                        SameEntry(a, b)
  <2>1. PICK rx, wx, ry, wy : /\ rx = written[x].read_only /\ wx = written[x].read_write
                              /\ ry = written[y].read_only /\ wy = written[y].read_write
    OBVIOUS
  <2>2. /\ rx \in Seq(CaptureKey) /\ wx \in Seq(CaptureKey)
        /\ ry \in Seq(CaptureKey) /\ wy \in Seq(CaptureKey)
    BY <1>4, <2>1, RecordFields
  <2>3. loaded[x].footprint = [read_only |-> EntriesOf(rx), read_write |-> EntriesOf(wx)]
    BY <1>4, <1>5, <2>1, FootprintOf
  <2>4. loaded[y].footprint = [read_only |-> EntriesOf(ry), read_write |-> EntriesOf(wy)]
    BY <1>4, <1>5, <2>1, FootprintOf
  <2>5. F!ConflictsWith(loaded[x].footprint, loaded[y].footprint)
          <=> \/ EntriesOf(wx) \cap EntriesOf(wy) # {}
              \/ EntriesOf(wx) \cap EntriesOf(ry) # {}
              \/ EntriesOf(wy) \cap EntriesOf(rx) # {}
    BY <2>3, <2>4 DEF F!ConflictsWith, F!ConflictKeys
  <2>6. EntriesOf(wx) \cap EntriesOf(wy) # {}
          <=> \E a \in ToSet(wx), b \in ToSet(wy) : SameEntry(a, b)
    BY <2>2, EntriesMeet
  <2>7. EntriesOf(wx) \cap EntriesOf(ry) # {}
          <=> \E a \in ToSet(wx), b \in ToSet(ry) : SameEntry(a, b)
    BY <2>2, EntriesMeet
  <2>8. EntriesOf(wy) \cap EntriesOf(rx) # {}
          <=> \E a \in ToSet(wy), b \in ToSet(rx) : SameEntry(a, b)
    BY <2>2, EntriesMeet
  <2>9. \A a, b : SameEntry(a, b) <=> SameEntry(b, a)
    BY DEF SameEntry
  <2> HIDE DEF F!ConflictsWith
  <2> QED BY <2>1, <2>5, <2>6, <2>7, <2>8, <2>9
<1> QED BY <1>1, <1>3, <1>4, <1>6, <1>7 DEF EntriesDecideConflicts

\* For all documents: the transactions that load returns for a whole document
\* conflict exactly where the captured ones touch the same ledger entry.
THEOREM EntriesAlwaysDecide == ReplaySpec => []EntriesDecideConflicts
<1>1. ConsumedInv /\ IntactInv => EntriesDecideConflicts
  BY EntriesDecide
<1> QED BY <1>1, AlwaysIntact, PTL
=============================================================================

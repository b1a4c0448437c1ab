---------------------------- MODULE CaptureTool ----------------------------
(***************************************************************************)
(* tools/capture_mainnet.py against the RPC service it reads from: one     *)
(* request in flight at a time, HTTP errors, lost answers, a chain that    *)
(* grows meanwhile, up to four attempts per call, paging by cursor, and    *)
(* the document written at the end.  What the script does not catch ends   *)
(* it wherever it is, half-way through its document included.              *)
(*                                                                         *)
(* The service is not part of the repository and is modelled by what the   *)
(* tool relies on: it serves the transactions of the ledgers from the      *)
(* start on, in the order of the chain, and continues behind the cursor it *)
(* is given.  A page may be shorter than the limit, but it is empty only   *)
(* if nothing is left; the last page may come with a cursor or without.    *)
(***************************************************************************)
EXTENDS Integers, FiniteSets, SequencesExt

CONSTANTS
  Histories,     \* the chains considered: sequences of [ledger, hash, status]
  LastLedger,    \* the ledger the chain is followed to
  StartLedger,   \* --start
  EndLedger,     \* --end
  MaxTx,         \* --max-tx
  PageSize,      \* PAGE_SIZE
  Attempts       \* the attempts of one rpc call, 4

\* A chain lists its transactions in the order of their ledgers, each with
\* its own hash.
IsChain(chain) ==
  /\ chain \in Seq([ledger: Nat, hash: Nat, status: STRING])
  /\ \A i, j \in DOMAIN chain : i < j =>
       chain[i].ledger <= chain[j].ledger /\ chain[i].hash # chain[j].hash

ASSUME CaptureAssumption ==
  /\ \A chain \in Histories : IsChain(chain)
  /\ LastLedger \in Nat /\ StartLedger \in Nat /\ EndLedger \in Nat /\ MaxTx \in Nat
  /\ PageSize \in Nat \ {0} /\ Attempts \in Nat \ {0}

VARIABLES
  history,     \* the chain, the future included
  closed,      \* the latest ledger the service knows
  wire,        \* the call in flight: nothing, the request, or what came back
  phase,       \* "latest", "page", "sort", "open", "written", "reported", "aborted"
  attempt,     \* attempts of the current call that failed
  latest,      \* the ledger reported first
  captures,    \* the transactions captured so far
  cursor,      \* where the next page starts; NoCursor is None
  out          \* the output file: "old", "partial", or "whole" with its document

serviceVars == <<history, closed>>
vars == <<history, closed, wire, phase, attempt, latest, captures, cursor, out>>

NoCursor == -1
Idle == [kind |-> "idle"]

\* A cursor is the number of transactions of the chain in front of it.
First(chain) ==
  Cardinality({i \in DOMAIN chain : chain[i].ledger < StartLedger})

Known == Cardinality({i \in DOMAIN history : history[i].ledger <= closed})

Init ==
  /\ history \in Histories
  /\ closed \in 0..LastLedger
  /\ wire = Idle
  /\ phase = "latest"
  /\ attempt = 0
  /\ latest = 0
  /\ captures = <<>>
  /\ cursor = NoCursor
  /\ out = [is |-> "old"]

-----------------------------------------------------------------------------
\* The service.
CloseLedger ==
  /\ closed < LastLedger
  /\ closed' = closed + 1
  /\ UNCHANGED <<history, wire, phase, attempt, latest, captures, cursor, out>>

ServeLatest ==
  /\ wire.kind = "getLatestLedger"
  /\ wire' = [kind |-> "result", sequence |-> closed]
  /\ UNCHANGED <<serviceVars, phase, attempt, latest, captures, cursor, out>>

\* A start behind the latest ledger is refused: only Fault answers it.
ServePage ==
  /\ wire.kind = "getTransactions"
  /\ closed >= StartLedger
  /\ LET from == IF wire.cursor = NoCursor THEN First(history) ELSE wire.cursor
         left == Known - from
     IN \E n \in 0..PageSize, next \in {NoCursor} \cup 0..Len(history) :
          /\ n <= left /\ (n = 0 => left = 0)
          /\ next \in (IF n = left THEN {NoCursor, from + n} ELSE {from + n})
          /\ wire' = [kind |-> "result", cursor |-> next,
                      transactions |-> SubSeq(history, from + 1, from + n)]
  /\ UNCHANGED <<serviceVars, phase, attempt, latest, captures, cursor, out>>

\* A status the tool retries, or anything else: another status, an error
\* object in the answer, a refused connection, or no answer in 30 seconds.
Fault ==
  /\ wire.kind \in {"getLatestLedger", "getTransactions", "result"}
  /\ wire' \in [kind : {"busy", "error"}]
  /\ UNCHANGED <<serviceVars, phase, attempt, latest, captures, cursor, out>>

-----------------------------------------------------------------------------
\* The tool.
More(list) == Len(list) < MaxTx

AskLatest ==
  /\ phase = "latest"
  /\ wire = Idle
  /\ wire' = [kind |-> "getLatestLedger"]
  /\ UNCHANGED <<serviceVars, phase, attempt, latest, captures, cursor, out>>

\* Mutant of AskPage: the cursor is not sent.
AskPageFromStart ==
  /\ phase = "page"
  /\ wire = Idle
  /\ wire' = [kind |-> "getTransactions", cursor |-> NoCursor]
  /\ UNCHANGED <<serviceVars, phase, attempt, latest, captures, cursor, out>>

AskPage ==
  /\ phase = "page"
  /\ wire = Idle
  /\ wire' = [kind |-> "getTransactions", cursor |-> cursor]
  /\ UNCHANGED <<serviceVars, phase, attempt, latest, captures, cursor, out>>

Retry ==
  /\ wire.kind = "busy"
  /\ attempt' = attempt + 1
  /\ attempt' < Attempts
  /\ wire' = Idle
  /\ UNCHANGED <<serviceVars, phase, latest, captures, cursor, out>>

Abort ==
  /\ wire.kind = "error" \/ (wire.kind = "busy" /\ attempt + 1 = Attempts)
  /\ phase' = "aborted"
  /\ wire' = Idle
  /\ UNCHANGED <<serviceVars, attempt, latest, captures, cursor, out>>

ReceiveLatest ==
  /\ phase = "latest"
  /\ wire.kind = "result"
  /\ latest' = wire.sequence
  /\ phase' = IF More(captures) THEN "page" ELSE "sort"
  /\ attempt' = 0
  /\ wire' = Idle
  /\ UNCHANGED <<serviceVars, captures, cursor, out>>

InWindow(t) == t.ledger <= EndLedger

\* The transactions taken from a page: up to the first behind the window,
\* and no more than are wanted.
Taken(page) ==
  LET behind == {i \in DOMAIN page : ~InWindow(page[i])}
      room   == MaxTx - Len(captures)
  IN SubSeq(page, 1, Min({Len(page), room} \cup {i - 1 : i \in behind}))

\* Mutant of OutOfWindow: the last ledger of the window is left out of it.
OutOfWindowEarly(page) ==
  \E i \in DOMAIN page : page[i].ledger >= EndLedger /\ i <= MaxTx - Len(captures)

\* The loop sees a transaction behind the window before it has enough.
OutOfWindow(page) ==
  \E i \in DOMAIN page : ~InWindow(page[i]) /\ i <= MaxTx - Len(captures)

\* Mutant of LastPage: a repeated cursor is not taken for the end.
LastPageOnly(next) == next = NoCursor

LastPage(next) == next = NoCursor \/ next = cursor

ReceivePage ==
  /\ phase = "page"
  /\ wire.kind = "result"
  /\ captures' = captures \o Taken(wire.transactions)
  /\ LET stop == OutOfWindow(wire.transactions) \/ LastPage(wire.cursor) IN
     /\ cursor' = IF stop THEN cursor ELSE wire.cursor
     /\ phase' = IF ~stop /\ More(captures') THEN "page" ELSE "sort"
  /\ attempt' = 0
  /\ wire' = Idle
  /\ UNCHANGED <<serviceVars, latest, out>>

\* Sorting puts the same transactions in the order of ledger and hash; as no
\* two have the same hash, there is one such list.
Rearranged(list) ==
  {[i \in DOMAIN list |-> list[p[i]]] : p \in Bijection(DOMAIN list, DOMAIN list)}

InOrder(list) ==
  \A i, j \in DOMAIN list : i < j =>
    \/ list[i].ledger < list[j].ledger
    \/ list[i].ledger = list[j].ledger /\ list[i].hash <= list[j].hash

SortCaptures ==
  /\ phase = "sort"
  /\ captures' \in {list \in Rearranged(captures) : InOrder(list)}
  /\ phase' = "open"
  /\ UNCHANGED <<serviceVars, wire, attempt, latest, cursor, out>>

Count(status) == Cardinality({i \in DOMAIN captures : captures[i].status = status})

\* The ledgers of the document are listed in order: a set says as much.
Document ==
  [ledger_range             |-> [from |-> StartLedger, to |-> EndLedger],
   latest_ledger_at_capture |-> latest,
   counts       |-> [total |-> Len(captures), success |-> Count("SUCCESS"),
                     failed |-> Count("FAILED")],
   ledgers      |-> {captures[i].ledger : i \in DOMAIN captures},
   transactions |-> captures]

\* Opening the file empties it; the document is streamed into it.
OpenOut ==
  /\ phase = "open"
  /\ out.is = "old"
  /\ out' = [is |-> "partial"]
  /\ UNCHANGED <<serviceVars, wire, phase, attempt, latest, captures, cursor>>

WriteDocument ==
  /\ phase = "open"
  /\ out.is = "partial"
  /\ out' = [is |-> "whole", doc |-> Document]
  /\ phase' = "written"
  /\ UNCHANGED <<serviceVars, wire, attempt, latest, captures, cursor>>

\* The closing message names the first and the last ledger: without one the
\* tool ends with an IndexError, the file written.
Report ==
  /\ phase = "written"
  /\ phase' = IF out.doc.ledgers = {} THEN "aborted" ELSE "reported"
  /\ UNCHANGED <<serviceVars, wire, attempt, latest, captures, cursor, out>>

Ended == phase \in {"reported", "aborted"}

\* An interrupt, an answer the script cannot read, or an error of the file
\* system.  Nothing catches it, and a file that was opened stays as it is.
Interrupt ==
  /\ ~Ended
  /\ phase' = "aborted"
  /\ wire' = Idle
  /\ UNCHANGED <<serviceVars, attempt, latest, captures, cursor, out>>

Tool ==
  \/ AskLatest
  \/ AskPage
  \/ Retry
  \/ Abort
  \/ ReceiveLatest
  \/ ReceivePage
  \/ SortCaptures
  \/ OpenOut
  \/ WriteDocument
  \/ Report

Answer == ServeLatest \/ ServePage \/ Fault

Next ==
  \/ Tool
  \/ Interrupt
  \/ ~Ended /\ (Answer \/ CloseLedger)

\* The script runs on, and a call is answered or given up after its timeout.
Spec == Init /\ [][Next]_vars /\ WF_vars(Tool) /\ WF_vars(Answer)

-----------------------------------------------------------------------------
\* RecordedCaptureSource::load on the written document: nothing is known of
\* what the transactions touch.
EmptyFootprint == [read_only |-> {}, read_write |-> {}]

RecordedSet(doc) ==
  [i \in DOMAIN doc.transactions |->
     [tx_hash |-> doc.transactions[i].hash, footprint |-> EmptyFootprint]]

-----------------------------------------------------------------------------
\* The transactions of the window among the first n of the chain: those behind
\* all that are before the window, up to the last one that is in it.
Window(n) ==
  SubSeq(history, First(history) + 1, Cardinality({i \in 1..n : InWindow(history[i])}))

\* Through page boundaries, retries of lost answers and a growing chain, what
\* has been captured is the beginning of the window: nothing twice, nothing
\* skipped, nothing from outside.
CapturedPrefix ==
  phase \in {"latest", "page", "sort"} =>
    /\ Len(captures) <= MaxTx
    /\ IsPrefix(captures, Window(Known))

CompleteDocument(doc) ==
  LET listed == ToSet(doc.transactions)
      total  == Len(doc.transactions)
      window == Window(Len(history))
      known  == {t \in ToSet(window) : t.ledger <= doc.latest_ledger_at_capture}
  IN /\ listed = ToSet(SubSeq(window, 1, total))
     /\ total = MaxTx \/ known \subseteq listed
     /\ Cardinality(listed) = total /\ total = doc.counts.total
     /\ doc.counts.success + doc.counts.failed <= total
     /\ InOrder(doc.transactions)
     /\ doc.ledgers = {t.ledger : t \in listed}
     /\ {s.tx_hash : s \in ToSet(RecordedSet(doc))} = {t.hash : t \in listed}

\* A document that says which ledger was the latest holds the window up to
\* that ledger, unless it holds as many transactions as were asked for; and
\* it is the beginning of the window in the end, ordered by ledger and hash,
\* its counts and ledgers those of its transactions, and loads as a set of
\* the same transactions.  The file is not touched before there is such a
\* document: a capture that fails earlier leaves the old file.  One that fails
\* later leaves the document or a part of it, the old file being lost.
DocumentComplete ==
  /\ phase \in {"latest", "page", "sort"} => out.is = "old"
  /\ out.is # "old" => CompleteDocument(Document)
  /\ out.is = "whole" => out.doc = Document
  /\ phase \in {"written", "reported"} => out.is = "whole"

\* The capture ends, with a document or an error, whatever the service does.
Settles == <>Ended
=============================================================================

--------------------------- MODULE StorageVisitor ---------------------------
(***************************************************************************)
(* analyze (crates/analyzer): StorageVisitor walks the syntax tree of one  *)
(* file, and the detectors run on the records it leaves.  The tree is      *)
(* chosen as the walk meets it: a step opens a function or a loop, closes  *)
(* the innermost open node, or visits an expression statement.  Each       *)
(* visiting method saves what it changes in its own frame and puts it back *)
(* when its node is left.  What the method calls of a statement add to the *)
(* records, in a given context, is a parameter; Expression has it.         *)
(***************************************************************************)
EXTENDS Detectors

CONSTANTS
  FunctionNames,   \* names a function item may have
  Statements,      \* expressions, each with what it really does to storage
                   \* (effects) and which clients it really calls (clients)
  AccessesIn(_, _, _),   \* the access records of an expression, given the
                         \* function and whether a loop is open
  CallsIn(_, _, _),      \* its call records, given the same
  MaxNodes         \* bound on the nodes of a tree

NoFunction == "(outside)"
Effect == [kind: {"read", "write"}, key: STRING]
Client == [method: STRING, receiver: STRING]

ASSUME VisitorAssumption ==
  /\ NoFunction \notin FunctionNames
  /\ \A s \in Statements : s.effects \in Seq(Effect) /\ s.clients \in Seq(Client)
  /\ MaxNodes \in Nat

VARIABLES
  open,         \* the open nodes, outermost first, with what they saved
  current_fn,   \* the function records are attributed to
  loop_depth,   \* the number of open loops
  accesses,     \* the storage accesses recorded so far
  calls,        \* the candidate calls recorded so far
  report        \* the findings of the detectors, once the file is walked

VARIABLES       \* auxiliary: the tree as it was walked
  nodes,        \* the number of nodes opened or visited
  sites         \* the statements, each with the nodes it lies in

machineVars == <<open, current_fn, loop_depth, accesses, calls, report>>
visitorVars == <<machineVars, nodes, sites>>

NotRun == [functions |-> <<>>, detectors |-> <<>>]
Walking == report = NotRun

VisitorInit ==
  /\ open = <<>>
  /\ current_fn = NoFunction
  /\ loop_depth = 0
  /\ accesses = <<>>
  /\ calls = <<>>
  /\ report = NotRun
  /\ nodes = 0
  /\ sites = <<>>

-----------------------------------------------------------------------------
Grow == Walking /\ nodes < MaxNodes /\ nodes' = nodes + 1

\* The frame of a node: what it saves and, auxiliary, which node it is.
Opened(node, name) == [node |-> node, name |-> name, prev |-> current_fn, number |-> nodes]

\* A free function or a method of an impl block.
EnterFn(name) ==
  /\ Grow
  /\ open' = Append(open, Opened("fn", name))
  /\ current_fn' = name
  /\ UNCHANGED <<loop_depth, accesses, calls, report, sites>>

\* A default method of a trait: the visitor has no method for it, so the
\* walk goes on with the function that was current before.
EnterTraitFn(name) ==
  /\ Grow
  /\ open' = Append(open, Opened("trait_fn", name))
  /\ UNCHANGED <<current_fn, loop_depth, accesses, calls, report, sites>>

\* while, for or loop; a for loop's iterator is walked inside as well.
EnterLoop ==
  /\ Grow
  /\ open' = Append(open, Opened("loop", NoFunction))
  /\ loop_depth' = loop_depth + 1
  /\ UNCHANGED <<current_fn, accesses, calls, report, sites>>

Leaving(node) == Walking /\ open # <<>> /\ Last(open).node = node

\* Mutant of LeaveFn: the saved function is not put back.
LeaveFnForgetful ==
  /\ Leaving("fn")
  /\ current_fn' = NoFunction
  /\ open' = Front(open)
  /\ UNCHANGED <<loop_depth, accesses, calls, report, nodes, sites>>

LeaveFn ==
  /\ Leaving("fn")
  /\ current_fn' = Last(open).prev
  /\ open' = Front(open)
  /\ UNCHANGED <<loop_depth, accesses, calls, report, nodes, sites>>

LeaveTraitFn ==
  /\ Leaving("trait_fn")
  /\ open' = Front(open)
  /\ UNCHANGED <<current_fn, loop_depth, accesses, calls, report, nodes, sites>>

LeaveLoop ==
  /\ Leaving("loop")
  /\ loop_depth' = loop_depth - 1
  /\ open' = Front(open)
  /\ UNCHANGED <<current_fn, accesses, calls, report, nodes, sites>>

\* Nothing is recorded outside of a function.
VisitStatement(s) ==
  /\ Grow
  /\ IF current_fn = NoFunction THEN UNCHANGED <<accesses, calls>>
     ELSE /\ accesses' = accesses \o AccessesIn(s.expr, current_fn, loop_depth > 0)
          /\ calls' = calls \o CallsIn(s.expr, current_fn, loop_depth > 0)
  /\ sites' = Append(sites, [path |-> open, effects |-> s.effects, clients |-> s.clients])
  /\ UNCHANGED <<open, current_fn, loop_depth, report>>

\* The end of the file: the records are aggregated and searched.
Finish ==
  /\ Walking
  /\ open = <<>>
  /\ sites # <<>>
  /\ report' = [functions |-> Aggregate(accesses), detectors |-> RunDetectors(accesses)]
  /\ UNCHANGED <<open, current_fn, loop_depth, accesses, calls, nodes, sites>>

VisitorNext ==
  \/ \E name \in FunctionNames : EnterFn(name) \/ EnterTraitFn(name)
  \/ EnterLoop
  \/ LeaveFn
  \/ LeaveTraitFn
  \/ LeaveLoop
  \/ \E s \in Statements : VisitStatement(s)
  \/ Finish

VisitorSpec == VisitorInit /\ [][VisitorNext]_visitorVars

-----------------------------------------------------------------------------
FnDepth(path) == SelectLastInSeq(path, LAMBDA frame : frame.node = "fn")
Owner(path) == IF FnDepth(path) = 0 THEN NoFunction ELSE path[FnDepth(path)].name
Loops(path) == {k \in DOMAIN path : path[k].node = "loop"}

\* The function a statement really belongs to, the default method of a trait
\* included: the name its records bear, and which node of the file it is.
BodyDepth(path) ==
  SelectLastInSeq(path, LAMBDA frame : frame.node \in {"fn", "trait_fn"})
FunctionOf(path) == <<Owner(path), path[BodyDepth(path)].number>>

\* A loop of the statement's own function, not one around its declaration.
InOwnLoop(path) == \E k \in Loops(path) : k > BodyDepth(path)

\* What the statements inside functions really do, one entry per effect: the
\* owner, the nodes around it, the effect, and which one it is.
Done ==
  UNION {{[name |-> Owner(sites[i].path),
           path |-> sites[i].path,
           kind |-> sites[i].effects[k].kind,
           key  |-> sites[i].effects[k].key,
           at   |-> <<i, k>>] : k \in DOMAIN sites[i].effects} :
         i \in {j \in DOMAIN sites : Owner(sites[j].path) # NoFunction}}

\* However functions and loops are nested, the current function is the
\* innermost open function item and the depth counts the open loops: leaving
\* a node undoes exactly what entering it did.
ContextMatchesNesting ==
  /\ current_fn = Owner(open)
  /\ loop_depth = Cardinality(Loops(open))

\* The records of what a list of effects, or of client calls, does in a context.
EffectRecords(effects, function, inLoop) ==
  [k \in DOMAIN effects |->
     [function |-> function, kind |-> effects[k].kind, key |-> effects[k].key,
      in_loop |-> inLoop]]

ClientRecords(clients, function, inLoop) ==
  [k \in DOMAIN clients |->
     [function |-> function, method |-> clients[k].method,
      receiver |-> clients[k].receiver, in_loop |-> inLoop]]

\* Wherever the walk is inside a function, the records that visiting a
\* statement leaves are what it does to storage and which clients it calls,
\* in this order, with the context noted on each.
StatementsRecorded ==
  current_fn # NoFunction =>
    \A s \in Statements :
      LET inLoop == loop_depth > 0
      IN /\ AccessesIn(s.expr, current_fn, inLoop) = EffectRecords(s.effects, current_fn, inLoop)
         /\ CallsIn(s.expr, current_fn, inLoop) = ClientRecords(s.clients, current_fn, inLoop)

\* What a site does, each with the function and the loops around it; nothing
\* outside of a function.
Marked(site, list) ==
  IF Owner(site.path) = NoFunction THEN <<>>
  ELSE [k \in DOMAIN list |-> <<Owner(site.path), Loops(site.path) # {}, list[k]>>]

\* Every effect of a statement inside a function is recorded once and in
\* order, under the innermost function's name, marked as in a loop exactly if
\* a loop is open around it, that of an outer function included; and every
\* client call leaves one call record.
EffectsRecorded ==
  /\ FlattenSeq([i \in DOMAIN sites |-> Marked(sites[i], sites[i].effects)]) =
       [i \in DOMAIN accesses |->
          <<accesses[i].function, accesses[i].in_loop,
            [kind |-> accesses[i].kind, key |-> accesses[i].key]>>]
  /\ FlattenSeq([i \in DOMAIN sites |-> Marked(sites[i], sites[i].clients)]) =
       [i \in DOMAIN calls |->
          <<calls[i].function, calls[i].in_loop,
            [method |-> calls[i].method, receiver |-> calls[i].receiver]>>]

\* What the statements did, and the findings named for it.
Writes == {d \in Done : d.kind = "write"}
Reads == {d \in Done : d.kind = "read"}
Blamed(ds) == {<<d.name, d.key>> : d \in ds}
SameKey(d, e) == d.at # e.at /\ d.name = e.name /\ d.key = e.key
OneFunction(d, e) == FunctionOf(d.path) = FunctionOf(e.path)

\* Once the file is walked, no instance of a documented pattern is missed, as
\* far as the functions involved have names of their own: each write in a loop
\* of its function is listed, and so is each static key written under two
\* names, each key one function both reads and writes, and each static key one
\* function reads twice.  And no finding is without its reason: a write has at
\* most one, with a loop open around it; a shared key is static and two
\* functions write it; the accesses a function is blamed for together are its
\* own, or another function's of the same name.
PatternsFound ==
  ~Walking =>
    LET found == report.detectors
    IN /\ Blamed({w \in Writes : InOwnLoop(w.path)}) \subseteq Range(found.write_in_loop)
       /\ Cardinality({w \in Writes : InOwnLoop(w.path)}) <= Cardinality(DOMAIN found.write_in_loop)
       /\ Cardinality(DOMAIN found.write_in_loop) <= Cardinality({w \in Writes : Loops(w.path) # {}})
       /\ Range(found.write_in_loop) \subseteq Blamed({w \in Writes : Loops(w.path) # {}})
       /\ {w.key : w \in {w \in Writes : w.key # Dynamic /\
                            \E v \in Writes : v.key = w.key /\ v.name # w.name}}
            \subseteq found.global_static_write
       /\ found.global_static_write \subseteq
            {w.key : w \in {w \in Writes : w.key # Dynamic /\
                              \E v \in Writes : v.key = w.key /\ ~OneFunction(v, w)}}
       /\ Blamed({w \in Writes : \E r \in Reads : w.key = r.key /\ OneFunction(w, r)})
            \subseteq found.read_modify_write
       /\ found.read_modify_write \subseteq Blamed({w \in Writes : \E r \in Reads : SameKey(w, r)})
       /\ Blamed({r \in Reads : r.key # Dynamic /\ \E s \in Reads : SameKey(r, s) /\ OneFunction(r, s)})
            \subseteq found.duplicate_read
       /\ found.duplicate_read \subseteq Blamed({r \in Reads : \E s \in Reads : SameKey(r, s)})

\* A static key that two functions of the file write is never missed, whatever
\* their names, as the documentation has it.
SharedKeysFound ==
  ~Walking =>
    \A w, v \in Writes :
      w.key # Dynamic /\ v.key = w.key /\ ~OneFunction(v, w) =>
        w.key \in report.detectors.global_static_write
=============================================================================

----------------------------- MODULE Expression -----------------------------
(***************************************************************************)
(* Rust expressions as crates/analyzer looks at them: which method calls   *)
(* are storage accesses, of which key, and which may be calls of another   *)
(* contract.  An expression is a record with the kind of its node; kinds   *)
(* the analyzer does not tell apart (index, await, try, blocks, closures)  *)
(* are "other" with their subexpressions.  A macro's arguments are tokens: *)
(* the tree walk does not enter them.                                      *)
(***************************************************************************)
EXTENDS AccessRecords

Path(segments) == [node |-> "path", segments |-> segments]
Field(base, member) == [node |-> "field", base |-> base, member |-> member]
MethodCall(receiver, method, args) ==
  [node |-> "method_call", receiver |-> receiver, method |-> method, args |-> args]
Call(func, args) == [node |-> "call", func |-> func, args |-> args]
Reference(expr) == [node |-> "reference", expr |-> expr]
Paren(expr) == [node |-> "paren", expr |-> expr]
Literal(text) == [node |-> "literal", text |-> text]
Macro(name, args) == [node |-> "macro", name |-> name, args |-> args]
OtherExpr(children) == [node |-> "other", children |-> children]

NoReceiver == "(none)"
READ_METHODS == {"get", "has"}
WRITE_METHODS == {"put", "set", "remove", "del"}

Classify(method) ==
  IF method \in READ_METHODS THEN "read"
  ELSE IF method \in WRITE_METHODS THEN "write" ELSE "none"

\* Parentheses, a try or an await end the chain: what is behind them is not
\* looked at.
RECURSIVE IsStorageChain(_)
IsStorageChain(expr) ==
  CASE expr.node = "path"        -> "storage" \in ToSet(expr.segments)
    [] expr.node = "field"       -> expr.member = "storage" \/ IsStorageChain(expr.base)
    [] expr.node = "method_call" -> expr.method = "storage" \/ IsStorageChain(expr.receiver)
    [] expr.node = "call"        -> IsStorageChain(expr.func)
    [] expr.node = "reference"   -> IsStorageChain(expr.expr)
    [] OTHER                     -> FALSE

\* The name a call's receiver is reported by; none for a storage chain, for
\* the bare host environment, and for what has no name.
RECURSIVE CallReceiver(_)
CallReceiver(expr) ==
  IF IsStorageChain(expr) THEN NoReceiver
  ELSE CASE expr.node \in {"reference", "paren"} -> CallReceiver(expr.expr)
         [] expr.node = "path"        -> IF expr.segments = <<"env">> THEN NoReceiver
                                         ELSE expr.segments[1]
         [] expr.node = "field"       -> expr.member
         [] expr.node = "call"        -> CallReceiver(expr.func)
         [] expr.node = "method_call" -> CallReceiver(expr.receiver)
         [] OTHER                     -> NoReceiver

\* The key named by the first argument: one leading reference is looked
\* through, a path of several segments is named by its last, a constructor
\* and the symbol macros by their own first argument.
RECURSIVE ExtractKey(_)
ExtractKey(args) ==
  IF args = <<>> THEN Dynamic
  ELSE LET arg == IF args[1].node = "reference" THEN args[1].expr ELSE args[1] IN
       CASE arg.node = "paren"   -> ExtractKey(<<arg.expr>>)
         [] arg.node = "literal" -> arg.text
         [] arg.node = "path" /\ Len(arg.segments) > 1 -> Last(arg.segments)
         [] arg.node = "call" /\ arg.func.node = "path" /\ Last(arg.func.segments) = "new"
              -> ExtractKey(arg.args)
         [] arg.node = "macro" /\ arg.name \in {"symbol_short", "symbol_long"}
              -> ExtractKey(arg.args)
         [] OTHER                -> Dynamic

\* Mutant of MethodCalls: the arguments of a call are not walked.
RECURSIVE MethodCallsOfChain(_)
MethodCallsOfChain(expr) ==
  CASE expr.node = "method_call" -> <<expr>> \o MethodCallsOfChain(expr.receiver)
    [] expr.node = "field"       -> MethodCallsOfChain(expr.base)
    [] expr.node \in {"reference", "paren"} -> MethodCallsOfChain(expr.expr)
    [] OTHER                     -> <<>>

\* The method calls of an expression in the order of the walk: a call before
\* its receiver, the receiver before the arguments.
RECURSIVE MethodCalls(_)
MethodCalls(expr) ==
  LET Each(exprs) == FoldLeft(LAMBDA found, e : found \o MethodCalls(e), <<>>, exprs) IN
  CASE expr.node = "method_call" -> <<expr>> \o MethodCalls(expr.receiver) \o Each(expr.args)
    [] expr.node = "field"       -> MethodCalls(expr.base)
    [] expr.node = "call"        -> MethodCalls(expr.func) \o Each(expr.args)
    [] expr.node \in {"reference", "paren"} -> MethodCalls(expr.expr)
    [] expr.node = "other"       -> Each(expr.children)
    [] OTHER                     -> <<>>

\* What one expression adds to the visitor's records in a given context.
AccessesOf(expr, function, inLoop) ==
  LET touching == SelectSeq(MethodCalls(expr), LAMBDA c :
                    Classify(c.method) # "none" /\ IsStorageChain(c.receiver))
  IN [i \in DOMAIN touching |->
        [function |-> function,
         kind     |-> Classify(touching[i].method),
         key      |-> ExtractKey(touching[i].args),
         in_loop  |-> inLoop]]

CallsOf(expr, function, inLoop) ==
  LET candidates == SelectSeq(MethodCalls(expr), LAMBDA c :
                      CallReceiver(c.receiver) # NoReceiver)
  IN [i \in DOMAIN candidates |->
        [function |-> function,
         method   |-> candidates[i].method,
         receiver |-> CallReceiver(candidates[i].receiver),
         in_loop  |-> inLoop]]
=============================================================================

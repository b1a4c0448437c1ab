------------------------- MODULE EffectiveFootprint -------------------------
(***************************************************************************)
(* The effective footprints of analyze_set (crates/analyzer): for every    *)
(* function of the analysed files, in report order, compute_effective      *)
(* walks the resolved calls depth first and joins the accesses it meets.   *)
(* The memo is shared by all roots, the set of functions being visited is  *)
(* fresh for each.  The recursion is an explicit stack here; one step is   *)
(* one answer of compute_effective or one descent into a callee.           *)
(***************************************************************************)
EXTENDS Naturals, SequencesExt

CONSTANTS
  Access,       \* what a function does to storage: reads and writes of keys
  Programs      \* the analysed programs

\* A program lists its functions in report order, each with its own accesses
\* and its resolved calls in the order of the call sites.  A call resolves
\* only to a function that has accesses of its own.
IsProgram(program) ==
  /\ program \in Seq([own: SUBSET Access, calls: Seq(1..Len(program))])
  /\ \A f \in DOMAIN program : \A c \in ToSet(program[f].calls) :
       program[c].own # {}

ASSUME ProgramsAssumption == \A program \in Programs : IsProgram(program)

VARIABLES
  program,     \* the input
  root,        \* the function whose report entry is being computed
  stack,       \* the active calls: function, result so far, next call site
  visiting,    \* the set of active functions
  memo,        \* the results of the completed calls
  effective    \* the report: the result of every root so far

vars == <<program, root, stack, visiting, memo, effective>>

Functions == 1..Len(program)
Own(f) == program[f].own
Calls(f) == program[f].calls

-----------------------------------------------------------------------------
Init ==
  /\ program \in Programs
  /\ root = 1
  /\ stack = <<>>
  /\ visiting = {}
  /\ memo = [f \in {} |-> {}]
  /\ effective = <<>>

\* The calls waiting for an answer.
Top == stack[Len(stack)]
AtCallSite == stack # <<>> /\ Top.next <= Len(Calls(Top.fn))
Callee == Calls(Top.fn)[Top.next]

\* Mutant of Memoized: the memo is never consulted.
NeverMemoized(f) == FALSE

Memoized(f) == f \in DOMAIN memo

Frame(f) == [fn |-> f, result |-> Own(f), next |-> 1]

\* The innermost call takes an answer in and moves to its next call site.
Answered(frame, answer) ==
  [fn |-> frame.fn, result |-> frame.result \cup answer, next |-> frame.next + 1]

Absorb(frames, answer) ==
  [frames EXCEPT ![Len(frames)] = Answered(frames[Len(frames)], answer)]

ReportMemoized ==
  /\ stack = <<>>
  /\ root <= Len(program)
  /\ Memoized(root)
  /\ effective' = Append(effective, memo[root])
  /\ root' = root + 1
  /\ UNCHANGED <<program, stack, visiting, memo>>

EnterRoot ==
  /\ stack = <<>>
  /\ root <= Len(program)
  /\ ~Memoized(root)
  /\ stack' = <<Frame(root)>>
  /\ visiting' = {root}
  /\ UNCHANGED <<program, root, memo, effective>>

\* Mutant of MemoHit: the callee's own accesses stand for its result.
MemoHitShallow ==
  /\ AtCallSite
  /\ Memoized(Callee)
  /\ stack' = Absorb(stack, Own(Callee))
  /\ UNCHANGED <<program, root, visiting, memo, effective>>

MemoHit ==
  /\ AtCallSite
  /\ Memoized(Callee)
  /\ stack' = Absorb(stack, memo[Callee])
  /\ UNCHANGED <<program, root, visiting, memo, effective>>

\* Mutants of CycleCut: the cut answers with nothing, or the caller stays at
\* its call site.
CycleCutEmpty ==
  /\ AtCallSite
  /\ ~Memoized(Callee)
  /\ Callee \in visiting
  /\ stack' = Absorb(stack, {})
  /\ UNCHANGED <<program, root, visiting, memo, effective>>

CycleCutStays ==
  /\ AtCallSite
  /\ ~Memoized(Callee)
  /\ Callee \in visiting
  /\ stack' = [stack EXCEPT ![Len(stack)].result = @ \cup Own(Callee)]
  /\ UNCHANGED <<program, root, visiting, memo, effective>>

\* A callee that is still active answers with its own accesses only.
CycleCut ==
  /\ AtCallSite
  /\ ~Memoized(Callee)
  /\ Callee \in visiting
  /\ stack' = Absorb(stack, Own(Callee))
  /\ UNCHANGED <<program, root, visiting, memo, effective>>

Descend ==
  /\ AtCallSite
  /\ ~Memoized(Callee)
  /\ Callee \notin visiting
  /\ stack' = Append(stack, Frame(Callee))
  /\ visiting' = visiting \cup {Callee}
  /\ UNCHANGED <<program, root, memo, effective>>

Memoize(f, result) ==
  [g \in DOMAIN memo \cup {f} |-> IF g = f THEN result ELSE memo[g]]

\* Mutants of CompleteCall: the function stays marked as active, or the
\* caller moves on without the answer.
CompleteCallStillVisiting ==
  /\ Len(stack) > 1
  /\ Top.next > Len(Calls(Top.fn))
  /\ memo' = Memoize(Top.fn, Top.result)
  /\ stack' = Absorb(Front(stack), Top.result)
  /\ UNCHANGED <<program, root, visiting, effective>>

CompleteCallUnanswered ==
  /\ Len(stack) > 1
  /\ Top.next > Len(Calls(Top.fn))
  /\ visiting' = visiting \ {Top.fn}
  /\ memo' = Memoize(Top.fn, Top.result)
  /\ stack' = Absorb(Front(stack), {})
  /\ UNCHANGED <<program, root, effective>>

CompleteCall ==
  /\ Len(stack) > 1
  /\ Top.next > Len(Calls(Top.fn))
  /\ visiting' = visiting \ {Top.fn}
  /\ memo' = Memoize(Top.fn, Top.result)
  /\ stack' = Absorb(Front(stack), Top.result)
  /\ UNCHANGED <<program, root, effective>>

CompleteRoot ==
  /\ Len(stack) = 1
  /\ Top.next > Len(Calls(Top.fn))
  /\ visiting' = visiting \ {Top.fn}
  /\ memo' = Memoize(Top.fn, Top.result)
  /\ stack' = <<>>
  /\ effective' = Append(effective, Top.result)
  /\ root' = root + 1
  /\ UNCHANGED program

Next ==
  \/ ReportMemoized
  \/ EnterRoot
  \/ MemoHit
  \/ CycleCut
  \/ Descend
  \/ CompleteCall
  \/ CompleteRoot

\* One thread runs the recursion, and it runs until it returns.
Spec == Init /\ [][Next]_vars /\ WF_vars(Next)

-----------------------------------------------------------------------------
Closed(S) == \A f \in S : ToSet(Calls(f)) \subseteq S

\* The functions a call of f may reach: the least set that holds f and is
\* closed under calls.
Reach(f) ==
  {g \in Functions :
     \A S \in SUBSET Functions : f \in S /\ Closed(S) => g \in S}

\* What the documentation promises: own accesses joined with those of the
\* transitively called functions.
Promised(f) == UNION {Own(g) : g \in Reach(f)}

OnCycle(f) == \E c \in ToSet(Calls(f)) : f \in Reach(c)

\* Types of the state; roots are reported one by one.
EffectiveTypeOK ==
  /\ IsProgram(program)
  /\ root \in 1..(Len(program) + 1)
  /\ stack \in Seq([fn: Functions, result: SUBSET Access, next: Nat \ {0}])
  /\ visiting \subseteq Functions
  /\ DOMAIN memo \subseteq Functions
  /\ \A f \in DOMAIN memo : memo[f] \subseteq Access
  /\ effective \in [1..(root - 1) -> SUBSET Access]

\* The stack is a simple call chain from the root: the set of active functions
\* is exactly the stack's, no function is active twice, each is called by the
\* one below it, and none of them has a memoised result.  This is what bounds
\* the recursion.
SimpleChain ==
  /\ visiting = {stack[k].fn : k \in DOMAIN stack}
  /\ \A k, m \in DOMAIN stack : stack[k].fn = stack[m].fn => k = m
  /\ stack # <<>> => stack[1].fn = root
  /\ \A k \in DOMAIN stack :
       /\ ~Memoized(stack[k].fn)
       /\ k < Len(stack) =>
            /\ stack[k].next <= Len(Calls(stack[k].fn))
            /\ stack[k + 1].fn = Calls(stack[k].fn)[stack[k].next]

\* A memoised result never claims an access no reachable function makes, and
\* never misses one of the function itself or of a function it calls directly.
MemoSound ==
  \A f \in DOMAIN memo :
    /\ memo[f] \subseteq Promised(f)
    /\ Own(f) \subseteq memo[f]
    /\ \A c \in ToSet(Calls(f)) : Own(c) \subseteq memo[f]

\* A function from which no call cycle can be reached gets exactly what is
\* promised, whatever roots and cycles were walked before it.
ExactOffCycles ==
  \A f \in DOMAIN memo :
    (\A g \in Reach(f) : ~OnCycle(g)) => memo[f] = Promised(f)

\* A root gets exactly what is promised, cycles or not, if no earlier root
\* reaches into the functions it reaches; the first root always does.
FreshRootsExact ==
  \A r \in 1..(root - 1) :
    (\A earlier \in 1..(r - 1) : Reach(earlier) \cap Reach(r) = {}) =>
      effective[r] = Promised(r)

\* A memoised result is final: the same function gives the same answer to
\* every later caller and to its own report entry.
MemoFinal ==
  [][\A f \in DOMAIN memo : f \in DOMAIN memo' /\ memo'[f] = memo[f]]_vars

\* The walk ends for every program, recursive ones included: every function
\* gets its report entry.
Terminates == <>(root > Len(program))

\* What the module documentation says without exception: every function's
\* effective footprint is its own accesses joined with those of the
\* transitively called functions.
EveryRootExact ==
  \A r \in 1..(root - 1) : effective[r] = Promised(r)
=============================================================================

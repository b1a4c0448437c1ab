-------------------------- MODULE AnalyzerProofs --------------------------
(***************************************************************************)
(* analyze_set, for every set of files.  First the memoised walk alone,    *)
(* for every program: its stack is a simple call chain, no result claims   *)
(* an access that no reachable function makes or misses one of a direct    *)
(* callee, and off cycles, or from a fresh root, the result is exactly     *)
(* what is promised.  Then the linking of the calls: which calls become    *)
(* edges and which are listed.  Then both together: what the reports say   *)
(* of the calls that are written in the sources, and that the differences  *)
(* of reports add up.  Last the visitor of one file: its context, its      *)
(* records and the findings of the detectors.                              *)
(***************************************************************************)
EXTENDS AnalyzeSet, StorageVisitor, SequenceFacts

FrameSet == [fn: Functions, result: SUBSET Access, next: Nat \ {0}]

\* A set of accesses lies between what a function and its direct callees do
\* themselves and what everything the function reaches does.
SoundFor(f, result) ==
  /\ result \subseteq Promised(f)
  /\ Own(f) \subseteq result
  /\ \A c \in ToSet(Calls(f)) : Own(c) \subseteq result

\* The same for an active call, whose callees are answered up to "next".
FrameSound(frame) ==
  /\ frame.result \subseteq Promised(frame.fn)
  /\ Own(frame.fn) \subseteq frame.result
  /\ \A m \in 1..Len(Calls(frame.fn)) :
       m < frame.next => Own(Calls(frame.fn)[m]) \subseteq frame.result

FramesSound == \A k \in 1..Len(stack) : FrameSound(stack[k])

WalkInv == EffectiveTypeOK /\ SimpleChain /\ MemoSound /\ FramesSound

-----------------------------------------------------------------------------
\* The types of a program's parts.
LEMMA ProgramTypes ==
  ASSUME IsProgram(program)
  PROVE  /\ Len(program) \in Nat
         /\ \A f \in Functions :
              /\ Own(f) \subseteq Access
              /\ Calls(f) \in Seq(Functions)
              /\ Len(Calls(f)) \in Nat
              /\ \A m \in 1..Len(Calls(f)) : Calls(f)[m] \in Functions
<1> DEFINE Entry == [own: SUBSET Access, calls: Seq(1..Len(program))]
<1>1. program \in Seq(Entry)
  BY DEF IsProgram
<1>2. Len(program) \in Nat
  BY <1>1, LenProperties
<1>3. ASSUME NEW f \in Functions
      PROVE  Own(f) \subseteq Access /\ Calls(f) \in Seq(Functions)
  <2>1. program[f] \in Entry
    BY <1>1, ElementOfSeq DEF Functions
  <2> QED BY <2>1 DEF Own, Calls, Functions
<1>4. ASSUME NEW f \in Functions, NEW m \in 1..Len(Calls(f))
      PROVE  Calls(f)[m] \in Functions
  BY <1>3, ElementOfSeq
<1> QED BY <1>2, <1>3, <1>4, LenProperties

\* What a callee reaches, its caller reaches.
LEMMA PromisedOfCallee ==
  ASSUME NEW f \in Functions, NEW c \in ToSet(Calls(f)), c \in Functions
  PROVE  /\ Promised(c) \subseteq Promised(f)
         /\ Own(c) \subseteq Promised(c)
         /\ Own(f) \subseteq Promised(f)
<1>1. f \in Reach(f) /\ c \in Reach(c)
  BY DEF Reach
<1>2. Reach(c) \subseteq Reach(f)
  <2>1. ASSUME NEW g \in Reach(c), NEW S \in SUBSET Functions, f \in S, Closed(S)
        PROVE  g \in S
    <3>1. c \in S
      BY <2>1 DEF Closed
    <3> QED BY <2>1, <3>1 DEF Reach
  <2> QED BY <2>1 DEF Reach
<1> QED BY <1>1, <1>2 DEF Promised

LEMMA OwnPromised ==
  ASSUME NEW f \in Functions
  PROVE  Own(f) \subseteq Promised(f)
BY DEF Promised, Reach

\* Nothing promised lies outside the accesses of the program.
LEMMA PromisedTypes ==
  ASSUME IsProgram(program), NEW f \in Functions
  PROVE  Promised(f) \subseteq Access
BY ProgramTypes DEF Promised, Reach

-----------------------------------------------------------------------------
\* Absorbing an answer touches the last frame only, and keeps its function.
LEMMA AbsorbShape ==
  ASSUME NEW frames \in Seq(FrameSet), Len(frames) > 0, NEW answer \in SUBSET Access
  PROVE  /\ Absorb(frames, answer) \in Seq(FrameSet)
         /\ Len(Absorb(frames, answer)) = Len(frames)
         /\ \A k \in 1..Len(frames) :
              k # Len(frames) => Absorb(frames, answer)[k] = frames[k]
         /\ Absorb(frames, answer)[Len(frames)] =
              Answered(frames[Len(frames)], answer)
<1>1. Len(frames) \in Nat /\ Len(frames) \in 1..Len(frames)
  BY LenProperties
<1>2. frames[Len(frames)] \in FrameSet
  BY <1>1, ElementOfSeq
<1>3. Answered(frames[Len(frames)], answer) \in FrameSet
  BY <1>2 DEF FrameSet, Answered
<1> QED BY <1>1, <1>3, ExceptSeq DEF Absorb

\* A sound frame that absorbs a sound answer is sound.
LEMMA AbsorbSound ==
  ASSUME IsProgram(program),
         NEW frame \in FrameSet, FrameSound(frame),
         frame.next <= Len(Calls(frame.fn)),
         NEW answer \in SUBSET Access,
         Own(Calls(frame.fn)[frame.next]) \subseteq answer,
         answer \subseteq Promised(Calls(frame.fn)[frame.next])
  PROVE  FrameSound(Answered(frame, answer))
<1> DEFINE f == frame.fn
           c == Calls(f)[frame.next]
<1>1. f \in Functions /\ frame.next \in Nat \ {0}
  BY DEF FrameSet
<1>2. /\ Calls(f) \in Seq(Functions)
      /\ Len(Calls(f)) \in Nat
      /\ frame.next \in 1..Len(Calls(f))
      /\ c \in Functions
  BY <1>1, ProgramTypes
<1>3. c \in ToSet(Calls(f))
  BY <1>2, ToSetMember
<1>4. Promised(c) \subseteq Promised(f)
  BY <1>1, <1>2, <1>3, PromisedOfCallee
<1>5. ASSUME NEW m \in 1..Len(Calls(f)), m < frame.next + 1
      PROVE  Own(Calls(f)[m]) \subseteq frame.result \cup answer
  <2>1. m < frame.next \/ m = frame.next
    BY <1>1, <1>2, <1>5
  <2> QED BY <2>1 DEF FrameSound
<1> QED BY <1>4, <1>5 DEF FrameSound, Answered

\* A fresh frame is a sound frame.
LEMMA FreshFrame ==
  ASSUME IsProgram(program), NEW f \in Functions
  PROVE  /\ Frame(f) \in FrameSet
         /\ Frame(f).fn = f
         /\ FrameSound(Frame(f))
<1>1. Own(f) \subseteq Access /\ Own(f) \subseteq Promised(f) /\ Len(Calls(f)) \in Nat
  BY ProgramTypes, OwnPromised
<1>2. \A m \in 1..Len(Calls(f)) : ~(m < 1)
  BY <1>1
<1> QED BY <1>1, <1>2 DEF Frame, FrameSet, FrameSound

\* A frame whose calls are all answered has a result worth memoising.
LEMMA FinishedFrame ==
  ASSUME IsProgram(program),
         NEW frame \in FrameSet, FrameSound(frame),
         frame.next > Len(Calls(frame.fn))
  PROVE  SoundFor(frame.fn, frame.result)
<1>1. /\ frame.fn \in Functions
      /\ frame.next \in Nat
      /\ Calls(frame.fn) \in Seq(Functions)
      /\ Len(Calls(frame.fn)) \in Nat
  BY ProgramTypes DEF FrameSet
<1>2. ASSUME NEW c \in ToSet(Calls(frame.fn)) PROVE Own(c) \subseteq frame.result
  <2>1. PICK m \in 1..Len(Calls(frame.fn)) : Calls(frame.fn)[m] = c
    BY <1>1, ToSetMember
  <2>2. m < frame.next
    BY <1>1
  <2> QED BY <2>1, <2>2 DEF FrameSound
<1> QED BY <1>2 DEF SoundFor, FrameSound

-----------------------------------------------------------------------------
\* The invariant in the next state, stated on the next state's values: the
\* program itself does not change.
LEMMA TypesNext ==
  ASSUME IsProgram(program), program' = program,
         root' \in 1..(Len(program) + 1),
         stack' \in Seq(FrameSet),
         visiting' \subseteq Functions,
         DOMAIN memo' \subseteq Functions,
         \A f \in DOMAIN memo' : memo'[f] \subseteq Access,
         effective' \in [1..(root' - 1) -> SUBSET Access]
  PROVE  EffectiveTypeOK'
BY DEF EffectiveTypeOK, IsProgram, FrameSet, Functions

LEMMA ChainNext ==
  ASSUME program' = program,
         DOMAIN stack' = 1..Len(stack'),
         visiting' = {stack'[k].fn : k \in 1..Len(stack')},
         \A k, m \in 1..Len(stack') : stack'[k].fn = stack'[m].fn => k = m,
         stack' # <<>> => stack'[1].fn = root',
         \A k \in 1..Len(stack') : stack'[k].fn \notin DOMAIN memo',
         \A k \in 1..Len(stack') : k < Len(stack') =>
            /\ stack'[k].next <= Len(Calls(stack'[k].fn))
            /\ stack'[k + 1].fn = Calls(stack'[k].fn)[stack'[k].next]
  PROVE  SimpleChain'
BY DEF SimpleChain, Memoized, Calls

LEMMA MemoNext ==
  ASSUME program' = program,
         \A f \in DOMAIN memo' : SoundFor(f, memo'[f])
  PROVE  MemoSound'
BY DEF MemoSound, SoundFor, Promised, Reach, Closed, Functions, Own, Calls

LEMMA FramesNext ==
  ASSUME program' = program,
         \A k \in 1..Len(stack') : FrameSound(stack'[k])
  PROVE  FramesSound'
BY DEF FramesSound, FrameSound, Promised, Reach, Closed, Functions, Own, Calls

-----------------------------------------------------------------------------
\* What the invariant says of the current state, conjunct by conjunct.
LEMMA WalkFacts ==
  ASSUME WalkInv
  PROVE  /\ IsProgram(program)
         /\ root \in 1..(Len(program) + 1)
         /\ stack \in Seq(FrameSet)
         /\ Len(stack) \in Nat
         /\ DOMAIN stack = 1..Len(stack)
         /\ \A k \in 1..Len(stack) : stack[k] \in FrameSet /\ FrameSound(stack[k])
         /\ visiting \subseteq Functions
         /\ visiting = {stack[k].fn : k \in 1..Len(stack)}
         /\ \A k, m \in 1..Len(stack) : stack[k].fn = stack[m].fn => k = m
         /\ stack # <<>> => stack[1].fn = root
         /\ \A k \in 1..Len(stack) : stack[k].fn \notin DOMAIN memo
         /\ \A k \in 1..Len(stack) : k < Len(stack) =>
              /\ stack[k].next <= Len(Calls(stack[k].fn))
              /\ stack[k + 1].fn = Calls(stack[k].fn)[stack[k].next]
         /\ DOMAIN memo \subseteq Functions
         /\ \A f \in DOMAIN memo : memo[f] \subseteq Access /\ SoundFor(f, memo[f])
         /\ effective \in [1..(root - 1) -> SUBSET Access]
<1>1. /\ EffectiveTypeOK /\ stack \in Seq(FrameSet)
      /\ SimpleChain /\ MemoSound /\ FramesSound
  BY DEF WalkInv, EffectiveTypeOK, FrameSet
<1>2. /\ Len(stack) \in Nat
      /\ DOMAIN stack = 1..Len(stack)
      /\ \A k \in 1..Len(stack) : stack[k] \in FrameSet
  BY <1>1, LenProperties, ElementOfSeq
<1>3. \A k \in 1..Len(stack) : FrameSound(stack[k])
  BY <1>1 DEF FramesSound
<1>4. \A f \in DOMAIN memo : SoundFor(f, memo[f])
  BY <1>1 DEF MemoSound, SoundFor
<1> QED BY <1>1, <1>2, <1>3, <1>4 DEF EffectiveTypeOK, SimpleChain, Memoized

\* The call that waits at a call site, and the function it calls.
LEMMA AtCallSiteFacts ==
  ASSUME WalkInv, AtCallSite
  PROVE  /\ Len(stack) \in 1..Len(stack)
         /\ Top = stack[Len(stack)]
         /\ Top \in FrameSet
         /\ Top.fn \in Functions
         /\ Top.next <= Len(Calls(Top.fn))
         /\ Callee = Calls(Top.fn)[Top.next]
         /\ Callee \in Functions
<1>1. Len(stack) \in 1..Len(stack)
  <2>1. stack \in Seq(FrameSet) /\ stack # <<>>
    BY WalkFacts DEF AtCallSite
  <2>2. Len(stack) \in Nat \ {0}
    BY <2>1, EmptySeq
  <2> QED BY <2>2
<1>2. Top \in FrameSet /\ IsProgram(program)
  BY <1>1, WalkFacts DEF Top
<1>3. Top.fn \in Functions /\ Top.next \in Nat \ {0}
  BY <1>2 DEF FrameSet
<1>4. Top.next <= Len(Calls(Top.fn)) /\ Len(Calls(Top.fn)) \in Nat
  BY <1>2, <1>3, ProgramTypes DEF AtCallSite
<1>5. Top.next \in 1..Len(Calls(Top.fn))
  BY <1>3, <1>4
<1> QED BY <1>1, <1>2, <1>3, <1>4, <1>5, ProgramTypes DEF Top, Callee

\* Taking in a sound answer at a call site keeps the invariant.
LEMMA AnswerKeeps ==
  ASSUME WalkInv, AtCallSite, NEW answer \in SUBSET Access,
         Own(Callee) \subseteq answer, answer \subseteq Promised(Callee),
         stack' = Absorb(stack, answer),
         UNCHANGED <<program, root, visiting, memo, effective>>
  PROVE  WalkInv'
<1> DEFINE n == Len(stack)
<1>1. /\ stack' \in Seq(FrameSet)
      /\ Len(stack') = n
      /\ \A k \in 1..n : k # n => stack'[k] = stack[k]
      /\ stack'[n] = Answered(Top, answer)
  <2>1. stack \in Seq(FrameSet) /\ n > 0 /\ Top = stack[n]
    BY WalkFacts, AtCallSiteFacts
  <2> QED BY <2>1, AbsorbShape
<1>2. /\ n \in Nat /\ n \in 1..n
      /\ \A k \in 1..n : stack'[k].fn = stack[k].fn
  BY <1>1, WalkFacts, AtCallSiteFacts DEF Answered
<1>3. EffectiveTypeOK'
  BY <1>1, WalkFacts, TypesNext
<1>4. SimpleChain'
  <2>1. DOMAIN stack' = 1..Len(stack')
    BY <1>1, LenProperties
  <2>2. visiting' = {stack'[k].fn : k \in 1..Len(stack')}
    <3>1. visiting = {stack[k].fn : k \in 1..n}
      BY WalkFacts
    <3>2. {stack[k].fn : k \in 1..n} = {stack'[k].fn : k \in 1..n}
      BY <1>2
    <3> QED BY <1>1, <3>1, <3>2
  <2>3. stack' # <<>> => stack'[1].fn = root'
    BY <1>1, <1>2, WalkFacts, EmptySeq DEF AtCallSite
  <2>4. \A k, m \in 1..Len(stack') : stack'[k].fn = stack'[m].fn => k = m
    BY <1>1, <1>2, WalkFacts
  <2>5. \A k \in 1..Len(stack') : stack'[k].fn \notin DOMAIN memo'
    BY <1>1, <1>2, WalkFacts
  <2>6. \A k \in 1..Len(stack') : k < Len(stack') =>
            /\ stack'[k].next <= Len(Calls(stack'[k].fn))
            /\ stack'[k + 1].fn = Calls(stack'[k].fn)[stack'[k].next]
    <3> SUFFICES ASSUME NEW k \in 1..n, k < n
                 PROVE  /\ stack'[k].next <= Len(Calls(stack'[k].fn))
                        /\ stack'[k + 1].fn = Calls(stack'[k].fn)[stack'[k].next]
      BY <1>1
    <3>1. stack'[k] = stack[k] /\ k + 1 \in 1..n
      BY <1>1, <1>2
    <3> QED BY <1>2, <3>1, WalkFacts
  <2> QED BY <2>1, <2>2, <2>3, <2>4, <2>5, <2>6, ChainNext
<1>5. MemoSound'
  BY WalkFacts, MemoNext
<1>6. FramesSound'
  <2>1. FrameSound(Answered(Top, answer))
    BY AtCallSiteFacts, WalkFacts, AbsorbSound
  <2> QED BY <1>1, <1>2, <2>1, WalkFacts, FramesNext
<1> QED BY <1>3, <1>4, <1>5, <1>6 DEF WalkInv

-----------------------------------------------------------------------------
\* A call whose call sites are all answered has a result to memoise.
LEMMA CompletedFacts ==
  ASSUME WalkInv, Len(stack) > 0, Top.next > Len(Calls(Top.fn))
  PROVE  /\ Len(stack) \in 1..Len(stack)
         /\ Top = stack[Len(stack)]
         /\ Top.fn \in Functions
         /\ Top.result \in SUBSET Access
         /\ SoundFor(Top.fn, Top.result)
         /\ Top.fn \notin DOMAIN memo
<1>1. Len(stack) \in 1..Len(stack)
  BY WalkFacts
<1>2. Top \in FrameSet /\ FrameSound(Top) /\ IsProgram(program)
  BY <1>1, WalkFacts DEF Top
<1>3. Top.fn \notin DOMAIN memo
  BY <1>1, WalkFacts DEF Top
<1> QED BY <1>1, <1>2, <1>3, FinishedFrame DEF Top, FrameSet

\* Memoising a sound result keeps what the invariant says of the memo.
LEMMA MemoizeKeeps ==
  ASSUME WalkInv, NEW f \in Functions, NEW result \in SUBSET Access,
         SoundFor(f, result)
  PROVE  /\ DOMAIN Memoize(f, result) = DOMAIN memo \cup {f}
         /\ DOMAIN Memoize(f, result) \subseteq Functions
         /\ \A g \in DOMAIN Memoize(f, result) :
              /\ Memoize(f, result)[g] \subseteq Access
              /\ SoundFor(g, Memoize(f, result)[g])
<1>1. DOMAIN Memoize(f, result) = DOMAIN memo \cup {f}
  BY DEF Memoize
<1>2. ASSUME NEW g \in DOMAIN Memoize(f, result)
      PROVE  /\ Memoize(f, result)[g] \subseteq Access
             /\ SoundFor(g, Memoize(f, result)[g])
  <2>1. CASE g = f
    BY <1>1, <2>1 DEF Memoize
  <2>2. CASE g # f
    <3>1. g \in DOMAIN memo /\ Memoize(f, result)[g] = memo[g]
      BY <1>1, <1>2, <2>2 DEF Memoize
    <3> QED BY <3>1, WalkFacts
  <2> QED BY <2>1, <2>2
<1> QED BY <1>1, <1>2, WalkFacts

\* One more report entry.
LEMMA ReportGrows ==
  ASSUME NEW n \in Nat, NEW S, NEW entries \in [1..n -> S], NEW entry \in S
  PROVE  Append(entries, entry) \in [1..(n + 1) -> S]
<1>1. entries = [i \in 1..n |-> entries[i]]
  OBVIOUS
<1>2. entries \in Seq(S)
  BY <1>1, IsASeq
<1>3. Len(entries) = n
  BY <1>2, LenProperties
<1>4. Append(entries, entry) \in Seq(S) /\ Len(Append(entries, entry)) = n + 1
  BY <1>2, <1>3, AppendProperties
<1> QED BY <1>4, LenProperties

-----------------------------------------------------------------------------
\* Before the walk.
Idle ==
  /\ root = 1
  /\ stack = <<>>
  /\ visiting = {}
  /\ memo = [f \in {} |-> {}]
  /\ effective = <<>>

LEMMA WalkBegins == IsProgram(program) /\ Idle => WalkInv
<1> SUFFICES ASSUME IsProgram(program), Idle PROVE WalkInv
  OBVIOUS
<1>2. Len(program) \in Nat
  BY ProgramTypes
<1>3. stack = <<>> /\ Len(stack) = 0 /\ stack \in Seq(FrameSet) /\ DOMAIN stack = {}
  BY EmptySeq DEF Idle
<1>4. EffectiveTypeOK
  <2>1. root \in 1..(Len(program) + 1)
    BY <1>2 DEF Idle
  <2>2. effective \in [1..(root - 1) -> SUBSET Access]
    <3>1. 1..(root - 1) = {}
      BY DEF Idle
    <3>2. effective \in Seq(SUBSET Access) /\ Len(effective) = 0
      BY EmptySeq DEF Idle
    <3>3. effective \in [1..Len(effective) -> SUBSET Access]
      BY <3>2, LenProperties
    <3>4. 1..Len(effective) = {}
      BY <3>2
    <3> QED BY <3>1, <3>3, <3>4
  <2> QED BY <1>3, <2>1, <2>2 DEF Idle, EffectiveTypeOK, FrameSet
<1>5. SimpleChain
  BY <1>3 DEF SimpleChain, Idle
<1>6. MemoSound
  BY DEF MemoSound, Idle
<1>7. FramesSound
  BY <1>3 DEF FramesSound
<1> QED BY <1>4, <1>5, <1>6, <1>7 DEF WalkInv

LEMMA WalkInvInit == Init => WalkInv
BY WalkBegins, ProgramsAssumption DEF Init, Idle

LEMMA MemoHitKeeps ==
  ASSUME WalkInv, MemoHit
  PROVE  WalkInv'
<1>1. Callee \in DOMAIN memo /\ Callee \in Functions
  BY AtCallSiteFacts DEF MemoHit, Memoized
<1>2. /\ memo[Callee] \in SUBSET Access
      /\ SoundFor(Callee, memo[Callee])
  BY <1>1, WalkFacts
<1> QED BY <1>2, AnswerKeeps DEF MemoHit, SoundFor

LEMMA CycleCutKeeps ==
  ASSUME WalkInv, CycleCut
  PROVE  WalkInv'
<1>1. Callee \in Functions /\ IsProgram(program)
  BY AtCallSiteFacts, WalkFacts DEF CycleCut
<1>2. /\ Own(Callee) \in SUBSET Access
      /\ Own(Callee) \subseteq Promised(Callee)
  BY <1>1, ProgramTypes, OwnPromised
<1> QED BY <1>2, AnswerKeeps DEF CycleCut

LEMMA ReportMemoizedKeeps ==
  ASSUME WalkInv, ReportMemoized
  PROVE  WalkInv'
<1>1. /\ root \in Functions /\ root \in Nat /\ root - 1 \in Nat
      /\ root' \in 1..(Len(program) + 1)
      /\ root' - 1 = (root - 1) + 1
  BY WalkFacts, ProgramTypes DEF ReportMemoized, Functions
<1>2. memo[root] \in SUBSET Access
  BY WalkFacts DEF ReportMemoized, Memoized
<1>3. effective' \in [1..(root' - 1) -> SUBSET Access]
  BY <1>1, <1>2, WalkFacts, ReportGrows DEF ReportMemoized
<1>4. EffectiveTypeOK'
  BY <1>1, <1>3, WalkFacts, TypesNext DEF ReportMemoized
<1>5. stack' = <<>> /\ stack' = stack
  BY DEF ReportMemoized
<1>6. SimpleChain'
  BY <1>5, WalkFacts, ChainNext DEF ReportMemoized
<1>7. MemoSound'
  BY WalkFacts, MemoNext DEF ReportMemoized
<1>8. FramesSound'
  BY <1>5, WalkFacts, FramesNext DEF ReportMemoized
<1> QED BY <1>4, <1>6, <1>7, <1>8 DEF WalkInv

LEMMA EnterRootKeeps ==
  ASSUME WalkInv, EnterRoot
  PROVE  WalkInv'
<1>1. root \in Functions /\ IsProgram(program)
  BY WalkFacts, ProgramTypes DEF EnterRoot, Functions
<1>2. /\ Frame(root) \in FrameSet
      /\ Frame(root).fn = root
      /\ FrameSound(Frame(root))
  BY <1>1, FreshFrame
<1>3. /\ stack' = <<Frame(root)>>
      /\ Len(stack') = 1
      /\ stack'[1] = Frame(root)
      /\ stack' \in Seq(FrameSet)
      /\ DOMAIN stack' = 1..Len(stack')
  BY <1>2 DEF EnterRoot
<1>4. \A k \in 1..Len(stack') : k = 1
  BY <1>3
<1>5. EffectiveTypeOK'
  BY <1>1, <1>3, WalkFacts, TypesNext DEF EnterRoot
<1>6. SimpleChain'
  <2>1. visiting' = {stack'[k].fn : k \in 1..Len(stack')}
    BY <1>2, <1>3, <1>4 DEF EnterRoot
  <2>2. \A k \in 1..Len(stack') : ~(k < Len(stack'))
    BY <1>3
  <2>3. \A k \in 1..Len(stack') : stack'[k].fn \notin DOMAIN memo'
    BY <1>2, <1>3, <1>4 DEF EnterRoot, Memoized
  <2>4. /\ stack'[1].fn = root'
        /\ \A k, m \in 1..Len(stack') : stack'[k].fn = stack'[m].fn => k = m
    BY <1>2, <1>3, <1>4 DEF EnterRoot
  <2> QED BY <1>3, <2>1, <2>2, <2>3, <2>4, ChainNext DEF EnterRoot
<1>7. MemoSound'
  BY WalkFacts, MemoNext DEF EnterRoot
<1>8. FramesSound'
  BY <1>2, <1>3, <1>4, FramesNext DEF EnterRoot
<1> QED BY <1>5, <1>6, <1>7, <1>8 DEF WalkInv

LEMMA DescendKeeps ==
  ASSUME WalkInv, Descend
  PROVE  WalkInv'
<1> DEFINE n == Len(stack)
<1>1. /\ n \in Nat /\ n \in 1..n
      /\ Top = stack[n]
      /\ Top.next <= Len(Calls(Top.fn))
      /\ Callee = Calls(Top.fn)[Top.next]
      /\ Callee \in Functions
      /\ IsProgram(program)
  BY WalkFacts, AtCallSiteFacts DEF Descend
<1>2. /\ Frame(Callee) \in FrameSet
      /\ Frame(Callee).fn = Callee
      /\ FrameSound(Frame(Callee))
  BY <1>1, FreshFrame
<1>3. /\ stack' \in Seq(FrameSet)
      /\ Len(stack') = n + 1
      /\ \A k \in 1..n : stack'[k] = stack[k]
      /\ stack'[n + 1] = Frame(Callee)
  BY <1>2, WalkFacts, AppendProperties DEF Descend
<1>4. /\ \A k \in 1..(n + 1) : k \in 1..n \/ k = n + 1
      /\ \A k \in 1..n : k \in 1..(n + 1) /\ k # n + 1
      /\ n + 1 \in 1..(n + 1)
  BY <1>1
<1>5. \A k \in 1..n : stack[k].fn # Callee
  BY WalkFacts DEF Descend
<1>6. EffectiveTypeOK'
  BY <1>1, <1>3, WalkFacts, TypesNext DEF Descend
<1>7. SimpleChain'
  <2>1. DOMAIN stack' = 1..Len(stack')
    BY <1>3, LenProperties
  <2>2. visiting' = {stack'[k].fn : k \in 1..Len(stack')}
    <3>1. visiting' = {stack[k].fn : k \in 1..n} \cup {Callee}
      BY WalkFacts DEF Descend
    <3>2. {stack'[k].fn : k \in 1..(n + 1)} = {stack[k].fn : k \in 1..n} \cup {Callee}
      BY <1>2, <1>3, <1>4
    <3> QED BY <1>3, <3>1, <3>2
  <2>3. \A k, m \in 1..Len(stack') : stack'[k].fn = stack'[m].fn => k = m
    BY <1>2, <1>3, <1>4, <1>5, WalkFacts
  <2>4. stack' # <<>> => stack'[1].fn = root'
    <3>1. 1 \in 1..n /\ stack # <<>>
      BY <1>1 DEF Descend, AtCallSite
    <3> QED BY <1>3, <3>1, WalkFacts DEF Descend
  <2>5. \A k \in 1..Len(stack') : stack'[k].fn \notin DOMAIN memo'
    BY <1>2, <1>3, <1>4, WalkFacts DEF Descend, Memoized
  <2>6. ASSUME NEW k \in 1..Len(stack'), k < Len(stack')
        PROVE  /\ stack'[k].next <= Len(Calls(stack'[k].fn))
               /\ stack'[k + 1].fn = Calls(stack'[k].fn)[stack'[k].next]
    <3>1. k \in 1..n /\ stack'[k] = stack[k]
      BY <1>1, <1>3, <1>4, <2>6
    <3>2. CASE k = n
      BY <1>1, <1>2, <1>3, <3>1, <3>2
    <3>3. CASE k # n
      <4>1. k < n /\ k + 1 \in 1..n
        BY <1>1, <3>1, <3>3
      <4> QED BY <1>3, <3>1, <4>1, WalkFacts
    <3> QED BY <3>2, <3>3
  <2> QED BY <2>1, <2>2, <2>3, <2>4, <2>5, <2>6, ChainNext DEF Descend
<1>8. MemoSound'
  BY WalkFacts, MemoNext DEF Descend
<1>9. FramesSound'
  BY <1>2, <1>3, <1>4, WalkFacts, FramesNext DEF Descend
<1> QED BY <1>6, <1>7, <1>8, <1>9 DEF WalkInv

LEMMA CompleteRootKeeps ==
  ASSUME WalkInv, CompleteRoot
  PROVE  WalkInv'
<1>1. /\ Len(stack) = 1 /\ Len(stack) > 0
      /\ Top = stack[1]
      /\ Top.fn \in Functions
      /\ Top.result \in SUBSET Access
      /\ SoundFor(Top.fn, Top.result)
  BY CompletedFacts DEF CompleteRoot, Top
<1>2. Top.fn = root
  BY <1>1, WalkFacts, EmptySeq
<1>3. /\ root \in Nat /\ root - 1 \in Nat
      /\ root' \in 1..(Len(program) + 1)
      /\ root' - 1 = (root - 1) + 1
  BY <1>1, <1>2, WalkFacts, ProgramTypes DEF CompleteRoot, Functions
<1>4. effective' \in [1..(root' - 1) -> SUBSET Access]
  BY <1>1, <1>3, WalkFacts, ReportGrows DEF CompleteRoot
<1>5. /\ DOMAIN memo' \subseteq Functions
      /\ \A f \in DOMAIN memo' : memo'[f] \subseteq Access /\ SoundFor(f, memo'[f])
  BY <1>1, MemoizeKeeps DEF CompleteRoot
<1>6. /\ stack' = <<>> /\ stack' \in Seq(FrameSet)
      /\ Len(stack') = 0 /\ DOMAIN stack' = 1..Len(stack')
  BY EmptySeq DEF CompleteRoot
<1>7. visiting' = {}
  <2>1. \A k \in 1..Len(stack) : k = 1
    BY <1>1
  <2>2. visiting = {Top.fn}
    BY <1>1, <2>1, WalkFacts
  <2> QED BY <2>2 DEF CompleteRoot
<1>8. EffectiveTypeOK'
  BY <1>3, <1>4, <1>5, <1>6, <1>7, WalkFacts, TypesNext DEF CompleteRoot
<1>9. 1..Len(stack') = {}
  BY <1>6
<1>10. SimpleChain'
  BY <1>6, <1>7, <1>9, ChainNext DEF CompleteRoot
<1>11. MemoSound'
  BY <1>5, MemoNext DEF CompleteRoot
<1>12. FramesSound'
  BY <1>9, FramesNext DEF CompleteRoot
<1> QED BY <1>8, <1>10, <1>11, <1>12 DEF WalkInv

LEMMA CompleteCallKeeps ==
  ASSUME WalkInv, CompleteCall
  PROVE  WalkInv'
<1> DEFINE n == Len(stack)
           below == Front(stack)
           caller == stack[n - 1]
           after == Answered(caller, Top.result)
<1>1. /\ n \in Nat /\ n \in 1..n /\ n > 1
      /\ Top = stack[n]
      /\ Top.fn \in Functions
      /\ Top.result \in SUBSET Access
      /\ SoundFor(Top.fn, Top.result)
      /\ IsProgram(program)
  BY WalkFacts, CompletedFacts DEF CompleteCall
<1>2. /\ n - 1 \in 1..n /\ n - 1 < n /\ n - 1 > 0 /\ (n - 1) + 1 = n
      /\ n - 1 \in Nat /\ n - 1 \in 1..(n - 1)
      /\ \A k \in 1..(n - 1) : k \in 1..n /\ k # n /\ k < n /\ k + 1 \in 1..n
      /\ \A k \in 1..n : k \in 1..(n - 1) \/ k = n
  BY <1>1
<1>3. /\ below \in Seq(FrameSet)
      /\ Len(below) = n - 1
      /\ \A k \in 1..(n - 1) : below[k] = stack[k]
  BY <1>1, WalkFacts, FrontShape
<1>4. /\ stack' \in Seq(FrameSet)
      /\ Len(stack') = n - 1
      /\ \A k \in 1..(n - 1) : k # n - 1 => stack'[k] = stack[k]
      /\ stack'[n - 1] = after
  <2>1. stack' = Absorb(below, Top.result)
    BY DEF CompleteCall
  <2> HIDE DEF below
  <2>2. Len(below) > 0 /\ below[Len(below)] = caller
    BY <1>2, <1>3
  <2>3. /\ stack' \in Seq(FrameSet)
        /\ Len(stack') = Len(below)
        /\ \A k \in 1..Len(below) : k # Len(below) => stack'[k] = below[k]
        /\ stack'[Len(below)] = Answered(below[Len(below)], Top.result)
    BY <1>1, <1>3, <2>1, <2>2, AbsorbShape
  <2> QED BY <1>3, <2>2, <2>3
<1> HIDE DEF below
<1>5. \A k \in 1..(n - 1) : stack'[k].fn = stack[k].fn
  BY <1>4 DEF Answered
<1>6. /\ caller \in FrameSet
      /\ FrameSound(caller)
      /\ caller.next <= Len(Calls(caller.fn))
      /\ Top.fn = Calls(caller.fn)[caller.next]
  BY <1>1, <1>2, WalkFacts
<1>7. FrameSound(after)
  BY <1>1, <1>6, AbsorbSound DEF SoundFor
<1> HIDE DEF after, caller
<1>8. /\ DOMAIN memo' = DOMAIN memo \cup {Top.fn}
      /\ DOMAIN memo' \subseteq Functions
      /\ \A f \in DOMAIN memo' : memo'[f] \subseteq Access /\ SoundFor(f, memo'[f])
  BY <1>1, MemoizeKeeps DEF CompleteCall
<1>9. \A k \in 1..(n - 1) : stack[k].fn # Top.fn
  BY <1>1, <1>2, WalkFacts
<1>10. EffectiveTypeOK'
  <2>1. visiting' \subseteq Functions
    BY WalkFacts DEF CompleteCall
  <2> QED BY <1>4, <1>8, <2>1, WalkFacts, TypesNext DEF CompleteCall
<1>11. SimpleChain'
  <2>1. DOMAIN stack' = 1..Len(stack')
    BY <1>4, LenProperties
  <2>2. visiting' = {stack'[k].fn : k \in 1..Len(stack')}
    <3>1. visiting = {stack[k].fn : k \in 1..n}
      BY WalkFacts
    <3>2. visiting \ {Top.fn} = {stack[k].fn : k \in 1..(n - 1)}
      BY <1>1, <1>2, <1>9, <3>1
    <3>3. {stack[k].fn : k \in 1..(n - 1)} = {stack'[k].fn : k \in 1..(n - 1)}
      BY <1>5
    <3> QED BY <1>4, <3>2, <3>3 DEF CompleteCall
  <2>3. \A k, m \in 1..Len(stack') : stack'[k].fn = stack'[m].fn => k = m
    <3>1. ASSUME NEW k \in 1..(n - 1), NEW m \in 1..(n - 1),
                 stack[k].fn = stack[m].fn
          PROVE  k = m
      BY <1>2, <3>1, WalkFacts
    <3> QED BY <1>4, <1>5, <3>1
  <2>4. stack' # <<>> => stack'[1].fn = root'
    <3>1. 1 \in 1..(n - 1)
      BY <1>1
    <3>2. stack # <<>>
      BY <1>1, EmptySeq
    <3>3. stack'[1].fn = stack[1].fn
      BY <1>5, <3>1
    <3> QED BY <3>2, <3>3, WalkFacts DEF CompleteCall
  <2>5. \A k \in 1..Len(stack') : stack'[k].fn \notin DOMAIN memo'
    <3>1. ASSUME NEW k \in 1..(n - 1)
          PROVE  stack[k].fn \notin DOMAIN memo'
      <4>1. stack[k].fn \notin DOMAIN memo
        BY <1>2, WalkFacts
      <4> QED BY <1>8, <1>9, <4>1
    <3> QED BY <1>4, <1>5, <3>1
  <2>6. ASSUME NEW k \in 1..Len(stack'), k < Len(stack')
        PROVE  /\ stack'[k].next <= Len(Calls(stack'[k].fn))
               /\ stack'[k + 1].fn = Calls(stack'[k].fn)[stack'[k].next]
    <3>1. k \in 1..(n - 1) /\ k < n - 1 /\ k # n - 1 /\ k + 1 \in 1..(n - 1)
      BY <1>1, <1>4, <2>6
    <3>2. stack'[k] = stack[k] /\ stack'[k + 1].fn = stack[k + 1].fn
      BY <1>4, <1>5, <3>1
    <3> QED BY <1>2, <3>1, <3>2, WalkFacts
  <2> QED BY <2>1, <2>2, <2>3, <2>4, <2>5, <2>6, ChainNext DEF CompleteCall
<1>12. MemoSound'
  BY <1>8, MemoNext DEF CompleteCall
<1>13. FramesSound'
  <2>1. \A k \in 1..Len(stack') : FrameSound(stack'[k])
    BY <1>2, <1>4, <1>7, WalkFacts
  <2> QED BY <2>1, FramesNext DEF CompleteCall
<1> QED BY <1>10, <1>11, <1>12, <1>13 DEF WalkInv

\* A step that changes nothing keeps the invariant.
LEMMA WalkStutters ==
  ASSUME WalkInv, UNCHANGED vars
  PROVE  WalkInv'
<1>1. EffectiveTypeOK'
  BY WalkFacts, TypesNext DEF vars
<1>2. SimpleChain'
  BY WalkFacts, ChainNext DEF vars
<1>3. MemoSound'
  BY WalkFacts, MemoNext DEF vars
<1>4. FramesSound'
  BY WalkFacts, FramesNext DEF vars
<1> QED BY <1>1, <1>2, <1>3, <1>4 DEF WalkInv

LEMMA WalkInvStep == WalkInv /\ [Next]_vars => WalkInv'
<1> SUFFICES ASSUME WalkInv, [Next]_vars PROVE WalkInv'
  OBVIOUS
<1>1. CASE ReportMemoized BY <1>1, ReportMemoizedKeeps
<1>2. CASE EnterRoot BY <1>2, EnterRootKeeps
<1>3. CASE MemoHit BY <1>3, MemoHitKeeps
<1>4. CASE CycleCut BY <1>4, CycleCutKeeps
<1>5. CASE Descend BY <1>5, DescendKeeps
<1>6. CASE CompleteCall BY <1>6, CompleteCallKeeps
<1>7. CASE CompleteRoot BY <1>7, CompleteRootKeeps
<1>8. CASE UNCHANGED vars BY <1>8, WalkStutters
<1> QED BY <1>1, <1>2, <1>3, <1>4, <1>5, <1>6, <1>7, <1>8 DEF Next

-----------------------------------------------------------------------------
\* For every program the stack is a simple chain of calls and every memoised
\* result lies between the accesses of a function with its direct callees and
\* those of everything it reaches (compute_effective).
THEOREM WalkCorrect == Spec => [](EffectiveTypeOK /\ SimpleChain /\ MemoSound)
BY WalkInvInit, WalkInvStep, PTL DEF Spec, WalkInv

\* A step leaves the memoised results as they are.
LEMMA MemoGrows ==
  ASSUME WalkInv, Next
  PROVE  \A f \in DOMAIN memo : f \in DOMAIN memo' /\ memo'[f] = memo[f]
<1> DEFINE Final == \A f \in DOMAIN memo : f \in DOMAIN memo' /\ memo'[f] = memo[f]
<1>1. ASSUME NEW f, NEW result, f \notin DOMAIN memo, memo' = Memoize(f, result)
      PROVE  Final
  BY <1>1 DEF Memoize
<1>2. CASE CompleteCall
  <2>1. Top.fn \notin DOMAIN memo /\ memo' = Memoize(Top.fn, Top.result)
    BY <1>2, WalkFacts, CompletedFacts DEF CompleteCall
  <2>2. PICK f, result : f = Top.fn /\ result = Top.result
    OBVIOUS
  <2> QED BY <1>1, <2>1, <2>2
<1>3. CASE CompleteRoot
  <2>1. Top.fn \notin DOMAIN memo /\ memo' = Memoize(Top.fn, Top.result)
    BY <1>3, WalkFacts, CompletedFacts DEF CompleteRoot
  <2>2. PICK f, result : f = Top.fn /\ result = Top.result
    OBVIOUS
  <2> QED BY <1>1, <2>1, <2>2
<1>4. CASE memo' = memo
  BY <1>4
<1> QED BY <1>2, <1>3, <1>4
        DEF Next, ReportMemoized, EnterRoot, MemoHit, CycleCut, Descend

\* For every program a memoised result never changes.
THEOREM MemoNeverChanges == Spec => MemoFinal
<1> DEFINE Final == \A f \in DOMAIN memo : f \in DOMAIN memo' /\ memo'[f] = memo[f]
<1>1. WalkInv /\ [Next]_vars => [Final]_vars
  BY MemoGrows
<1> QED BY <1>1, WalkInvInit, WalkInvStep, PTL DEF Spec, MemoFinal
-----------------------------------------------------------------------------
\* No cycle of calls can be reached from a function.
Acyclic(f) == \A g \in Reach(f) : ~OnCycle(g)

\* An active call that reaches no cycle holds all that its answered callees
\* promise.
FrameExact(frame) ==
  Acyclic(frame.fn) =>
    \A m \in 1..Len(Calls(frame.fn)) :
      m < frame.next => Promised(Calls(frame.fn)[m]) \subseteq frame.result

MemoExact == \A f \in DOMAIN memo : Acyclic(f) => Promised(f) \subseteq memo[f]

FramesExact == \A k \in 1..Len(stack) : FrameExact(stack[k])

ExactInv == MemoExact /\ FramesExact

\* No earlier root reaches what this one reaches.
Fresh(r) == \A earlier \in 1..(r - 1) : Reach(earlier) \cap Reach(r) = {}

\* Every function with a result was walked from a root, the present one only
\* while it is being walked.
WalkedFromRoots ==
  \A g \in DOMAIN memo :
    \E r \in 1..root : g \in Reach(r) /\ (stack = <<>> => r < root)

\* A callee that has been asked has a result or is still active.
Met == DOMAIN memo \cup visiting

CalleesMet == \A g \in DOMAIN memo : ToSet(Calls(g)) \subseteq Met

FramesMet ==
  \A k \in 1..Len(stack) : \A m \in 1..Len(Calls(stack[k].fn)) :
    m < stack[k].next => Calls(stack[k].fn)[m] \in Met

\* Under a fresh root, what a completed function does itself is in the result
\* of some active call, which will hand it down to the root.
Collected ==
  stack # <<>> /\ Fresh(root) =>
    \A g \in DOMAIN memo \cap Reach(root) : \A a \in Own(g) :
      \E k \in 1..Len(stack) : a \in stack[k].result

FreshInv ==
  WalkedFromRoots /\ CalleesMet /\ FramesMet /\ Collected /\ FreshRootsExact
-----------------------------------------------------------------------------
\* What a function reaches is made of functions, closed under calls, and in
\* every closed set with that function; so reaching is transitive.
LEMMA ReachFacts ==
  ASSUME IsProgram(program), NEW f \in Functions
  PROVE  /\ f \in Reach(f)
         /\ Reach(f) \subseteq Functions
         /\ Closed(Reach(f))
         /\ \A S \in SUBSET Functions : f \in S /\ Closed(S) => Reach(f) \subseteq S
         /\ \A g \in Reach(f) : Reach(g) \subseteq Reach(f)
<1>1. f \in Reach(f) /\ Reach(f) \subseteq Functions
  BY DEF Reach
<1>2. \A S \in SUBSET Functions : f \in S /\ Closed(S) => Reach(f) \subseteq S
  BY DEF Reach
<1>3. Closed(Reach(f))
  <2> SUFFICES ASSUME NEW g \in Reach(f), NEW c \in ToSet(Calls(g)) PROVE c \in Reach(f)
    BY DEF Closed
  <2>1. g \in Functions
    BY <1>1
  <2>2. c \in Functions
    <3>1. Calls(g) \in Seq(Functions)
      BY <2>1, ProgramTypes
    <3> QED BY <3>1, ToSetOver
  <2>3. ASSUME NEW S \in SUBSET Functions, f \in S, Closed(S) PROVE c \in S
    <3>1. g \in S
      BY <2>3 DEF Reach
    <3> QED BY <2>3, <3>1 DEF Closed
  <2> QED BY <2>2, <2>3 DEF Reach
<1>4. ASSUME NEW g \in Reach(f) PROVE Reach(g) \subseteq Reach(f)
  BY <1>1, <1>3 DEF Reach
<1> QED BY <1>1, <1>2, <1>3, <1>4

\* What a function reaches is itself and what its callees reach.
LEMMA ReachSplits ==
  ASSUME IsProgram(program), NEW f \in Functions, NEW g \in Reach(f)
  PROVE  g = f \/ \E c \in ToSet(Calls(f)) : c \in Functions /\ g \in Reach(c)
<1> DEFINE Callees == {c \in Functions : c \in ToSet(Calls(f))}
           S == {f} \cup {h \in Functions : \E c \in Callees : h \in Reach(c)}
<1>1. S \in SUBSET Functions /\ f \in S
  OBVIOUS
<1>2. Closed(S)
  <2> SUFFICES ASSUME NEW h \in S, NEW c \in ToSet(Calls(h)) PROVE c \in S
    BY DEF Closed
  <2>1. c \in Functions
    <3>1. Calls(h) \in Seq(Functions)
      BY <1>1, ProgramTypes
    <3> QED BY <3>1, ToSetOver
  <2>2. CASE h = f
    <3>1. c \in Callees /\ c \in Reach(c)
      BY <2>1, <2>2, ReachFacts
    <3> QED BY <2>1, <3>1
  <2>3. CASE h # f
    <3>1. PICK d \in Callees : h \in Reach(d)
      BY <2>3
    <3>2. c \in Reach(d)
      BY <3>1, ReachFacts DEF Closed
    <3> QED BY <2>1, <3>1, <3>2
  <2> QED BY <2>2, <2>3
<1>3. g \in S
  BY <1>1, <1>2, ReachFacts
<1> QED BY <1>3

\* A callee is reached; off cycles, so is it.
LEMMA CalleeReached ==
  ASSUME IsProgram(program), NEW f \in Functions, NEW m \in 1..Len(Calls(f))
  PROVE  /\ Calls(f)[m] \in Functions
         /\ Calls(f)[m] \in ToSet(Calls(f))
         /\ Calls(f)[m] \in Reach(f)
         /\ Reach(Calls(f)[m]) \subseteq Reach(f)
         /\ Acyclic(f) => Acyclic(Calls(f)[m])
<1>1. Calls(f) \in Seq(Functions) /\ Calls(f)[m] \in Functions
  BY ProgramTypes
<1>2. Calls(f)[m] \in ToSet(Calls(f))
  BY <1>1, ToSetMember
<1>3. Calls(f)[m] \in Reach(f)
  BY <1>2, ReachFacts DEF Closed
<1>4. Reach(Calls(f)[m]) \subseteq Reach(f)
  BY <1>3, ReachFacts
<1> QED BY <1>1, <1>2, <1>3, <1>4 DEF Acyclic

\* What is promised is what a function does itself and what its callees promise.
LEMMA PromiseSplits ==
  ASSUME IsProgram(program), NEW f \in Functions, NEW result, Own(f) \subseteq result,
         \A m \in 1..Len(Calls(f)) : Promised(Calls(f)[m]) \subseteq result
  PROVE  Promised(f) \subseteq result
<1> SUFFICES ASSUME NEW g \in Reach(f) PROVE Own(g) \subseteq result
  BY DEF Promised
<1>1. CASE g = f
  BY <1>1
<1>2. CASE g # f
  <2>1. PICK c \in ToSet(Calls(f)) : c \in Functions /\ g \in Reach(c)
    BY <1>2, ReachSplits
  <2>2. Calls(f) \in Seq(Functions)
    BY ProgramTypes
  <2>3. PICK m \in 1..Len(Calls(f)) : Calls(f)[m] = c
    BY <2>2, ToSetMember
  <2>4. Own(g) \subseteq Promised(c)
    BY <2>1 DEF Promised
  <2> QED BY <2>3, <2>4
<1> QED BY <1>1, <1>2

\* On the stack, everybody is reached from everybody below.
LEMMA StackReaches ==
  ASSUME WalkInv, NEW j \in 1..Len(stack), NEW k \in 1..Len(stack), j <= k
  PROVE  stack[k].fn \in Reach(stack[j].fn)
<1> DEFINE n == Len(stack)
           base == stack[j].fn
           Good == {d \in 0..(n - j) : stack[j + d].fn \in Reach(base)}
<1>1. /\ n \in Nat /\ n - j \in Nat /\ j + 0 = j
      /\ IsProgram(program)
      /\ \A i \in 1..n : stack[i].fn \in Functions
  BY WalkFacts DEF FrameSet
<1>2. 0 \in Good
  BY <1>1, ReachFacts
<1>3. ASSUME NEW d \in 0..((n - j) - 1), d \in Good PROVE d + 1 \in Good
  <2>1. /\ d + 1 \in 0..(n - j) /\ j + d \in 1..n /\ j + d < n
        /\ (j + d) + 1 = j + (d + 1)
    BY <1>1
  <2> DEFINE frame == stack[j + d]
  <2>2. /\ frame.next <= Len(Calls(frame.fn))
        /\ stack[j + (d + 1)].fn = Calls(frame.fn)[frame.next]
        /\ frame \in FrameSet
    BY <2>1, WalkFacts
  <2>3. frame.fn \in Functions /\ frame.next \in Nat \ {0} /\ frame.fn \in Reach(base)
    BY <1>3, <2>2 DEF FrameSet
  <2>4. frame.next \in 1..Len(Calls(frame.fn))
    <3> HIDE DEF frame, base, Good
    <3>1. \A f \in Functions : Len(Calls(f)) \in Nat
      BY <1>1, ProgramTypes
    <3> QED BY <2>2, <2>3, <3>1
  <2> HIDE DEF frame
  <2>5. Calls(frame.fn)[frame.next] \in Reach(frame.fn)
    BY <1>1, <2>3, <2>4, CalleeReached
  <2>6. Reach(frame.fn) \subseteq Reach(base)
    BY <1>1, <2>3, ReachFacts
  <2> QED BY <2>1, <2>2, <2>5, <2>6
<1>4. 0..(n - j) \subseteq Good
  <2>1. \A d \in 0..((n - j) - 1) : d \in Good => d + 1 \in Good
    BY <1>3
  <2> HIDE DEF Good
  <2>7. Inductive(Good, n - j)
    BY <1>1, <1>2, <2>1 DEF Inductive
  <2> QED BY <1>1, <2>7, InductionTo
<1>5. k - j \in 0..(n - j) /\ j + (k - j) = k
  BY <1>1
<1>6. k - j \in Good
  BY <1>4, <1>5
<1> QED BY <1>5, <1>6

\* An active callee closes a cycle, so the caller is not off cycles.
LEMMA CutOnCycle ==
  ASSUME WalkInv, AtCallSite, Callee \in visiting
  PROVE  ~Acyclic(Top.fn)
<1>1. /\ IsProgram(program) /\ Len(stack) \in 1..Len(stack) /\ Len(stack) \in Nat
      /\ Top = stack[Len(stack)] /\ Top \in FrameSet /\ Top.fn \in Functions
      /\ Top.next <= Len(Calls(Top.fn))
      /\ Callee = Calls(Top.fn)[Top.next]
  BY WalkFacts, AtCallSiteFacts
<1>2. PICK j \in 1..Len(stack) : stack[j].fn = Callee
  BY WalkFacts
<1>3. Top.fn \in Reach(Callee)
  BY <1>1, <1>2, StackReaches
<1>4. Top.next \in 1..Len(Calls(Top.fn))
  <2>1. Top.next \in Nat \ {0} /\ Len(Calls(Top.fn)) \in Nat
    BY <1>1, ProgramTypes DEF FrameSet
  <2> QED BY <1>1, <2>1
<1>5. Callee \in ToSet(Calls(Top.fn))
  BY <1>1, <1>4, CalleeReached
<1>6. Top.fn \in Reach(Top.fn)
  BY <1>1, ReachFacts
<1> QED BY <1>3, <1>5, <1>6 DEF Acyclic, OnCycle
-----------------------------------------------------------------------------
\* The stack after an answer at a call site.
LEMMA AnswerShape ==
  ASSUME WalkInv, AtCallSite, NEW answer \in SUBSET Access,
         stack' = Absorb(stack, answer)
  PROVE  /\ Len(stack') = Len(stack)
         /\ \A k \in 1..Len(stack) : k # Len(stack) => stack'[k] = stack[k]
         /\ stack'[Len(stack)] = Answered(Top, answer)
<1>1. stack \in Seq(FrameSet) /\ Len(stack) > 0 /\ Top = stack[Len(stack)]
  BY WalkFacts, AtCallSiteFacts
<1> QED BY <1>1, AbsorbShape

\* The stack after a completed call: its result has gone to its caller, which
\* was waiting for it.
LEMMA ReturnShape ==
  ASSUME WalkInv, CompleteCall
  PROVE  /\ Len(stack) - 1 \in 1..Len(stack)
         /\ Len(stack') = Len(stack) - 1
         /\ \A k \in 1..Len(stack') : k # Len(stack') => stack'[k] = stack[k]
         /\ stack'[Len(stack')] = Answered(stack[Len(stack')], Top.result)
         /\ stack[Len(stack')].next <= Len(Calls(stack[Len(stack')].fn))
         /\ Top.fn = Calls(stack[Len(stack')].fn)[stack[Len(stack')].next]
<1> DEFINE n == Len(stack)
           below == Front(stack)
<1>1. /\ n \in Nat /\ n \in 1..n /\ n > 1
      /\ Top = stack[n]
      /\ Top.result \in SUBSET Access
  BY WalkFacts, CompletedFacts DEF CompleteCall
<1>2. /\ n - 1 \in 1..n /\ n - 1 < n /\ n - 1 > 0 /\ (n - 1) + 1 = n
      /\ n - 1 \in 1..(n - 1)
  BY <1>1
<1>3. /\ below \in Seq(FrameSet)
      /\ Len(below) = n - 1
      /\ \A k \in 1..(n - 1) : below[k] = stack[k]
  BY <1>1, WalkFacts, FrontShape
<1>4. stack' = Absorb(below, Top.result)
  BY DEF CompleteCall
<1> HIDE DEF below
<1>5. /\ Len(stack') = Len(below)
      /\ \A k \in 1..Len(below) : k # Len(below) => stack'[k] = below[k]
      /\ stack'[Len(below)] = Answered(below[Len(below)], Top.result)
  BY <1>1, <1>2, <1>3, <1>4, AbsorbShape
<1>6. /\ stack[n - 1].next <= Len(Calls(stack[n - 1].fn))
      /\ Top.fn = Calls(stack[n - 1].fn)[stack[n - 1].next]
  BY <1>1, <1>2, WalkFacts
<1> QED BY <1>2, <1>3, <1>5, <1>6

-----------------------------------------------------------------------------
\* An exact frame that takes in an exact answer is exact.
LEMMA AbsorbExact ==
  ASSUME IsProgram(program), NEW frame \in FrameSet, FrameExact(frame),
         frame.next <= Len(Calls(frame.fn)), NEW answer,
         Acyclic(frame.fn) => Promised(Calls(frame.fn)[frame.next]) \subseteq answer
  PROVE  FrameExact(Answered(frame, answer))
<1> DEFINE f == frame.fn
<1>1. /\ f \in Functions /\ frame.next \in Nat
      /\ Len(Calls(f)) \in Nat
  BY ProgramTypes DEF FrameSet
<1>2. ASSUME Acyclic(f), NEW m \in 1..Len(Calls(f)), m < frame.next + 1
      PROVE  Promised(Calls(f)[m]) \subseteq frame.result \cup answer
  <2>1. m < frame.next \/ m = frame.next
    BY <1>1, <1>2
  <2> QED BY <1>2, <2>1 DEF FrameExact
<1> QED BY <1>2 DEF FrameExact, Answered

\* An exact frame whose calls are all answered has an exact result.
LEMMA FinishedExact ==
  ASSUME IsProgram(program), NEW frame \in FrameSet,
         FrameSound(frame), FrameExact(frame),
         frame.next > Len(Calls(frame.fn)), Acyclic(frame.fn)
  PROVE  Promised(frame.fn) \subseteq frame.result
<1>1. /\ frame.fn \in Functions /\ frame.next \in Nat
      /\ Len(Calls(frame.fn)) \in Nat
  BY ProgramTypes DEF FrameSet
<1>2. \A m \in 1..Len(Calls(frame.fn)) :
        Promised(Calls(frame.fn)[m]) \subseteq frame.result
  <2> SUFFICES ASSUME NEW m \in 1..Len(Calls(frame.fn))
               PROVE  Promised(Calls(frame.fn)[m]) \subseteq frame.result
    OBVIOUS
  <2>1. m < frame.next
    BY <1>1
  <2> QED BY <2>1 DEF FrameExact
<1>3. Own(frame.fn) \subseteq frame.result
  BY DEF FrameSound
<1> QED BY <1>1, <1>2, <1>3, PromiseSplits

\* A fresh frame has no answers to be inexact about.
LEMMA FreshExact ==
  ASSUME IsProgram(program), NEW f \in Functions
  PROVE  FrameExact(Frame(f))
<1>1. Len(Calls(f)) \in Nat
  BY ProgramTypes
<1>2. \A m \in 1..Len(Calls(f)) : ~(m < 1)
  BY <1>1
<1> QED BY <1>2 DEF Frame, FrameExact

\* What is said of the program stays true while it stays the same.
LEMMA SameProgram ==
  ASSUME program' = program
  PROVE  /\ \A f : Calls(f)' = Calls(f)
         /\ \A f : Own(f)' = Own(f)
         /\ \A f : Reach(f)' = Reach(f)
         /\ \A f : Promised(f)' = Promised(f)
         /\ \A f : Acyclic(f)' <=> Acyclic(f)
<1>1. \A f : Calls(f)' = Calls(f)
  BY DEF Calls
<1>2. \A f : Own(f)' = Own(f)
  BY DEF Own
<1>3. \A S : Closed(S)' <=> Closed(S)
  BY <1>1 DEF Closed
<1>4. \A f : Reach(f)' = Reach(f)
  BY <1>3 DEF Reach, Functions
<1>5. \A f : Promised(f)' = Promised(f)
  BY <1>2, <1>4 DEF Promised
<1>6. \A f : OnCycle(f)' <=> OnCycle(f)
  BY <1>1, <1>4 DEF OnCycle
<1>7. \A f : Acyclic(f)' <=> Acyclic(f)
  BY <1>4, <1>6 DEF Acyclic
<1> QED BY <1>1, <1>2, <1>4, <1>5, <1>7

\* The invariant in the next state, stated on the next state's values.
LEMMA ExactNext ==
  ASSUME program' = program,
         \A f \in DOMAIN memo' : Acyclic(f) => Promised(f) \subseteq memo'[f],
         \A k \in 1..Len(stack') : FrameExact(stack'[k])
  PROVE  ExactInv'
<1>1. MemoExact'
  BY SameProgram DEF MemoExact
<1>2. FramesExact'
  BY SameProgram DEF FramesExact, FrameExact
<1> QED BY <1>1, <1>2 DEF ExactInv

LEMMA ExactFacts ==
  ASSUME ExactInv
  PROVE  /\ \A f \in DOMAIN memo : Acyclic(f) => Promised(f) \subseteq memo[f]
         /\ \A k \in 1..Len(stack) : FrameExact(stack[k])
BY DEF ExactInv, MemoExact, FramesExact

\* An exact answer at a call site keeps frames exact.
LEMMA AnswerExact ==
  ASSUME WalkInv, ExactInv, AtCallSite, NEW answer \in SUBSET Access,
         Acyclic(Top.fn) => Promised(Callee) \subseteq answer,
         stack' = Absorb(stack, answer), UNCHANGED <<program, memo>>
  PROVE  ExactInv'
<1>1. /\ IsProgram(program) /\ Len(stack) \in 1..Len(stack)
      /\ Top = stack[Len(stack)] /\ Top \in FrameSet
      /\ Top.next <= Len(Calls(Top.fn))
      /\ Callee = Calls(Top.fn)[Top.next]
  BY WalkFacts, AtCallSiteFacts
<1>2. FrameExact(Top)
  BY <1>1, ExactFacts
<1>3. FrameExact(Answered(Top, answer))
  BY <1>1, <1>2, AbsorbExact
<1>4. \A k \in 1..Len(stack') : FrameExact(stack'[k])
  BY <1>3, AnswerShape, ExactFacts
<1> QED BY <1>4, ExactFacts, ExactNext

\* So does the result of a completed call, for the memo and for the caller.
LEMMA CompletedExact ==
  ASSUME WalkInv, ExactInv, Len(stack) > 0, Top.next > Len(Calls(Top.fn)),
         memo' = Memoize(Top.fn, Top.result)
  PROVE  /\ Acyclic(Top.fn) => Promised(Top.fn) \subseteq Top.result
         /\ \A f \in DOMAIN memo' : Acyclic(f) => Promised(f) \subseteq memo'[f]
<1>1. /\ IsProgram(program) /\ Top \in FrameSet /\ FrameSound(Top) /\ FrameExact(Top)
  <2>1. Len(stack) \in 1..Len(stack) /\ Top = stack[Len(stack)]
    BY CompletedFacts
  <2> QED BY <2>1, WalkFacts, ExactFacts
<1>2. Acyclic(Top.fn) => Promised(Top.fn) \subseteq Top.result
  BY <1>1, FinishedExact
<1>3. \A f \in DOMAIN memo' : f = Top.fn \/ (f \in DOMAIN memo /\ f # Top.fn)
  BY DEF Memoize
<1>4. \A f \in DOMAIN memo' : memo'[f] = IF f = Top.fn THEN Top.result ELSE memo[f]
  BY DEF Memoize
<1> QED BY <1>2, <1>3, <1>4, ExactFacts

LEMMA ExactStep == WalkInv /\ ExactInv /\ [Next]_vars => ExactInv'
<1> SUFFICES ASSUME WalkInv, ExactInv, [Next]_vars PROVE ExactInv'
  OBVIOUS
<1>1. CASE stack' = stack /\ UNCHANGED <<program, memo>>
  BY <1>1, ExactFacts, ExactNext
<1>2. CASE EnterRoot
  <2>1. root \in Functions /\ IsProgram(program)
    BY <1>2, WalkFacts, ProgramTypes DEF EnterRoot, Functions
  <2>2. stack' = <<Frame(root)>> /\ Len(stack') = 1 /\ stack'[1] = Frame(root)
    BY <1>2 DEF EnterRoot
  <2>3. \A k \in 1..Len(stack') : FrameExact(stack'[k])
    BY <2>1, <2>2, FreshExact
  <2> QED BY <1>2, <2>3, ExactFacts, ExactNext DEF EnterRoot
<1>3. CASE MemoHit
  <2>1. /\ Callee \in DOMAIN memo /\ IsProgram(program)
        /\ Top \in FrameSet /\ Top.fn \in Functions
        /\ Top.next <= Len(Calls(Top.fn)) /\ Callee = Calls(Top.fn)[Top.next]
    BY <1>3, WalkFacts, AtCallSiteFacts DEF MemoHit, Memoized
  <2>2. memo[Callee] \in SUBSET Access
    BY <2>1, WalkFacts
  <2>3. Top.next \in 1..Len(Calls(Top.fn))
    <3>1. Top.next \in Nat \ {0} /\ Len(Calls(Top.fn)) \in Nat
      BY <2>1, ProgramTypes DEF FrameSet
    <3> QED BY <2>1, <3>1
  <2>4. Acyclic(Top.fn) => Acyclic(Callee)
    BY <2>1, <2>3, CalleeReached
  <2>5. Acyclic(Top.fn) => Promised(Callee) \subseteq memo[Callee]
    BY <2>1, <2>4, ExactFacts
  <2> QED BY <1>3, <2>2, <2>5, AnswerExact DEF MemoHit
<1>4. CASE CycleCut
  <2>1. Own(Callee) \in SUBSET Access
    BY <1>4, WalkFacts, AtCallSiteFacts, ProgramTypes DEF CycleCut
  <2>2. ~Acyclic(Top.fn)
    BY <1>4, CutOnCycle DEF CycleCut
  <2> QED BY <1>4, <2>1, <2>2, AnswerExact DEF CycleCut
<1>5. CASE Descend
  <2>1. Callee \in Functions /\ IsProgram(program) /\ stack \in Seq(FrameSet)
    BY <1>5, WalkFacts, AtCallSiteFacts DEF Descend
  <2>2. Frame(Callee) \in FrameSet
    BY <2>1, FreshFrame
  <2>3. /\ Len(stack') = Len(stack) + 1 /\ Len(stack) \in Nat
        /\ \A k \in 1..Len(stack) : stack'[k] = stack[k]
        /\ stack'[Len(stack) + 1] = Frame(Callee)
    BY <1>5, <2>1, <2>2, AppendProperties, LenProperties DEF Descend
  <2>4. \A k \in 1..Len(stack') : k \in 1..Len(stack) \/ k = Len(stack) + 1
    BY <2>3
  <2>5. \A k \in 1..Len(stack') : FrameExact(stack'[k])
    BY <2>1, <2>3, <2>4, FreshExact, ExactFacts
  <2> QED BY <1>5, <2>5, ExactFacts, ExactNext DEF Descend
<1>6. CASE CompleteCall
  <2> DEFINE caller == stack[Len(stack')]
  <2>1. /\ Acyclic(Top.fn) => Promised(Top.fn) \subseteq Top.result
        /\ \A f \in DOMAIN memo' : Acyclic(f) => Promised(f) \subseteq memo'[f]
    <3>1. Len(stack) > 0
      BY <1>6, WalkFacts DEF CompleteCall
    <3> QED BY <1>6, <3>1, CompletedExact DEF CompleteCall
  <2>2. /\ Len(stack') = Len(stack) - 1 /\ Len(stack') \in 1..Len(stack)
        /\ \A k \in 1..Len(stack') : k # Len(stack') => stack'[k] = stack[k]
        /\ stack'[Len(stack')] = Answered(caller, Top.result)
        /\ caller.next <= Len(Calls(caller.fn))
        /\ Top.fn = Calls(caller.fn)[caller.next]
    BY <1>6, ReturnShape
  <2>3. /\ IsProgram(program) /\ caller \in FrameSet /\ FrameExact(caller)
        /\ Len(stack) \in Nat
    BY <2>2, WalkFacts, ExactFacts
  <2> HIDE DEF caller
  <2>4. caller.fn \in Functions /\ caller.next \in 1..Len(Calls(caller.fn))
    <3>1. caller.fn \in Functions /\ caller.next \in Nat \ {0}
      BY <2>3 DEF FrameSet
    <3>2. Len(Calls(caller.fn)) \in Nat
      BY <2>3, <3>1, ProgramTypes
    <3> QED BY <2>2, <3>1, <3>2
  <2>5. Acyclic(caller.fn) => Acyclic(Top.fn)
    BY <2>2, <2>3, <2>4, CalleeReached
  <2>6. FrameExact(Answered(caller, Top.result))
    BY <2>1, <2>2, <2>3, <2>5, AbsorbExact
  <2>7. \A k \in 1..Len(stack') : FrameExact(stack'[k])
    <3> SUFFICES ASSUME NEW k \in 1..Len(stack') PROVE FrameExact(stack'[k])
      OBVIOUS
    <3>1. k \in 1..Len(stack)
      BY <2>2, <2>3
    <3> QED BY <2>2, <2>6, <3>1, ExactFacts
  <2> QED BY <1>6, <2>1, <2>7, ExactNext DEF CompleteCall
<1>7. CASE CompleteRoot
  <2>1. \A f \in DOMAIN memo' : Acyclic(f) => Promised(f) \subseteq memo'[f]
    BY <1>7, CompletedExact DEF CompleteRoot
  <2>2. Len(stack') = 0
    BY <1>7 DEF CompleteRoot
  <2>3. \A k \in 1..Len(stack') : FrameExact(stack'[k])
    BY <2>2
  <2> QED BY <1>7, <2>1, <2>3, ExactNext DEF CompleteRoot
<1> QED BY <1>1, <1>2, <1>3, <1>4, <1>5, <1>6, <1>7 DEF Next, ReportMemoized, vars

LEMMA ExactBegins == Idle => ExactInv
<1> SUFFICES ASSUME Idle PROVE ExactInv
  OBVIOUS
<1>1. Len(stack) = 0 /\ DOMAIN memo = {}
  BY EmptySeq DEF Idle
<1> QED BY <1>1 DEF ExactInv, MemoExact, FramesExact

\* What is promised is neither missed nor exceeded off cycles.
LEMMA ExactMemo ==
  ASSUME WalkInv, ExactInv, NEW f \in DOMAIN memo, Acyclic(f)
  PROVE  memo[f] = Promised(f)
<1>1. memo[f] \subseteq Promised(f)
  BY WalkFacts DEF SoundFor
<1> QED BY <1>1, ExactFacts

\* For every program, whatever roots and cycles were walked before: a function
\* that reaches no cycle of calls is memoised with exactly what is promised.
THEOREM OffCyclesExact == Spec => []ExactOffCycles
<1>1. Init => ExactInv
  BY ExactBegins DEF Init, Idle
<1>2. WalkInv /\ ExactInv => ExactOffCycles
  BY ExactMemo DEF ExactOffCycles, Acyclic
<1> QED BY <1>1, <1>2, ExactStep, WalkInvInit, WalkInvStep, PTL DEF Spec
-----------------------------------------------------------------------------
\* One more report entry leaves the earlier ones alone.
LEMMA ReportKeeps ==
  ASSUME NEW n \in Nat, NEW S, NEW entries \in [1..n -> S], NEW entry \in S
  PROVE  /\ \A r \in 1..n : Append(entries, entry)[r] = entries[r]
         /\ Append(entries, entry)[n + 1] = entry
<1>1. entries = [i \in 1..n |-> entries[i]]
  OBVIOUS
<1>2. entries \in Seq(S)
  BY <1>1, IsASeq
<1>3. Len(entries) = n
  BY <1>2, LenProperties
<1> QED BY <1>2, <1>3, AppendProperties

\* The invariant conjunct by conjunct, and in the next state on the next
\* state's values.
LEMMA FreshFacts ==
  ASSUME FreshInv
  PROVE  /\ \A g \in DOMAIN memo :
              \E r \in 1..root : g \in Reach(r) /\ (stack = <<>> => r < root)
         /\ \A g \in DOMAIN memo : ToSet(Calls(g)) \subseteq Met
         /\ \A k \in 1..Len(stack) : \A m \in 1..Len(Calls(stack[k].fn)) :
              m < stack[k].next => Calls(stack[k].fn)[m] \in Met
         /\ stack # <<>> /\ Fresh(root) =>
              \A g \in DOMAIN memo \cap Reach(root) : \A a \in Own(g) :
                \E k \in 1..Len(stack) : a \in stack[k].result
         /\ \A r \in 1..(root - 1) : Fresh(r) => effective[r] = Promised(r)
BY DEF FreshInv, WalkedFromRoots, CalleesMet, FramesMet, Collected, FreshRootsExact, Fresh

LEMMA FreshNext ==
  ASSUME program' = program,
         \A g \in DOMAIN memo' :
           \E r \in 1..root' : g \in Reach(r) /\ (stack' = <<>> => r < root'),
         \A g \in DOMAIN memo' : ToSet(Calls(g)) \subseteq Met',
         \A k \in 1..Len(stack') : \A m \in 1..Len(Calls(stack'[k].fn)) :
           m < stack'[k].next => Calls(stack'[k].fn)[m] \in Met',
         stack' # <<>> /\ Fresh(root') =>
           \A g \in DOMAIN memo' \cap Reach(root') : \A a \in Own(g) :
             \E k \in 1..Len(stack') : a \in stack'[k].result,
         \A r \in 1..(root' - 1) : Fresh(r) => effective'[r] = Promised(r)
  PROVE  FreshInv'
<1>1. \A r : Fresh(r)' <=> Fresh(r)
  BY SameProgram DEF Fresh
<1>2. WalkedFromRoots'
  BY SameProgram DEF WalkedFromRoots
<1>3. CalleesMet'
  BY SameProgram DEF CalleesMet
<1>4. FramesMet'
  BY SameProgram DEF FramesMet
<1>5. Collected'
  BY <1>1, SameProgram DEF Collected
<1>6. \A r \in 1..(root' - 1) : Fresh(r)' => effective'[r] = Promised(r)'
  BY <1>1, SameProgram
<1>7. FreshRootsExact'
  BY <1>6 DEF FreshRootsExact, Fresh
<1> QED BY <1>2, <1>3, <1>4, <1>5, <1>7 DEF FreshInv

\* An answer of a callee that has been met.
LEMMA AnswerFresh ==
  ASSUME WalkInv, FreshInv, AtCallSite, Callee \in Met, NEW answer \in SUBSET Access,
         stack' = Absorb(stack, answer),
         UNCHANGED <<program, root, visiting, memo, effective>>
  PROVE  FreshInv'
<1> DEFINE n == Len(stack)
<1>1. /\ Len(stack') = n
      /\ \A k \in 1..n : k # n => stack'[k] = stack[k]
      /\ stack'[n] = Answered(Top, answer)
  BY AnswerShape
<1>2. /\ n \in 1..n /\ Top = stack[n] /\ Top \in FrameSet
      /\ Callee = Calls(Top.fn)[Top.next]
  BY AtCallSiteFacts
<1>3. stack # <<>> /\ stack' # <<>>
  <2>1. stack # <<>> /\ n \in Nat
    BY WalkFacts DEF AtCallSite
  <2> QED BY <1>1, <1>2, <2>1, EmptySeq
<1>4. Met' = Met
  BY DEF Met
<1>5. ASSUME NEW k \in 1..Len(stack'), NEW m \in 1..Len(Calls(stack'[k].fn)),
             m < stack'[k].next
      PROVE  Calls(stack'[k].fn)[m] \in Met
  <2>1. CASE k # n
    BY <1>1, <1>5, <2>1, FreshFacts
  <2>2. CASE k = n
    <3>1. /\ stack'[k].fn = Top.fn /\ stack'[k].next = Top.next + 1
          /\ Top.next \in Nat
      BY <1>1, <1>2, <2>2 DEF Answered, FrameSet
    <3>2. m < Top.next \/ m = Top.next
      BY <1>5, <3>1
    <3> QED BY <1>2, <1>5, <3>1, <3>2, FreshFacts
  <2> QED BY <2>1, <2>2
<1>6. \A k \in 1..n : stack[k].result \subseteq stack'[k].result
  BY <1>1, <1>2 DEF Answered
<1>7. Fresh(root) =>
        \A g \in DOMAIN memo \cap Reach(root) : \A a \in Own(g) :
          \E k \in 1..Len(stack') : a \in stack'[k].result
  BY <1>1, <1>3, <1>6, FreshFacts
<1> QED BY <1>3, <1>4, <1>5, <1>7, FreshFacts, FreshNext

LEMMA ReportMemoizedFresh ==
  ASSUME WalkInv, FreshInv, ReportMemoized
  PROVE  FreshInv'
<1>1. /\ stack = <<>> /\ stack' = <<>> /\ Len(stack') = 0
      /\ root \in DOMAIN memo /\ root \in Functions /\ IsProgram(program)
      /\ root \in Nat /\ root - 1 \in Nat /\ root' = root + 1 /\ (root - 1) + 1 = root
  BY WalkFacts, ProgramTypes DEF ReportMemoized, Memoized, Functions
<1>2. Met' = Met /\ memo' = memo /\ program' = program
  BY DEF ReportMemoized, Met
<1>3. \A g \in DOMAIN memo : \E r \in 1..root' : g \in Reach(r) /\ r < root'
  <2>1. \A r \in 1..root : r \in 1..root' /\ r < root'
    BY <1>1
  <2> QED BY <2>1, FreshFacts
<1>4. ~Fresh(root)
  <2>1. PICK r \in 1..root : root \in Reach(r) /\ r < root
    BY <1>1, FreshFacts
  <2>2. r \in 1..(root - 1)
    BY <1>1, <2>1
  <2>3. root \in Reach(root)
    BY <1>1, ReachFacts
  <2> QED BY <2>1, <2>2, <2>3 DEF Fresh
<1>5. \A r \in 1..(root - 1) : effective'[r] = effective[r]
  <2>1. memo[root] \in SUBSET Access
    BY <1>1, WalkFacts
  <2> QED BY <1>1, <2>1, WalkFacts, ReportKeeps DEF ReportMemoized
<1>6. ASSUME NEW r \in 1..(root' - 1), Fresh(r)
      PROVE  effective'[r] = Promised(r)
  <2>1. r \in 1..(root - 1)
    BY <1>1, <1>4, <1>6
  <2> QED BY <1>5, <1>6, <2>1, FreshFacts
<1>7. 1..Len(stack') = {}
  BY <1>1
<1> QED BY <1>1, <1>2, <1>3, <1>6, <1>7, FreshFacts, FreshNext

LEMMA EnterRootFresh ==
  ASSUME WalkInv, FreshInv, EnterRoot
  PROVE  FreshInv'
<1>1. /\ root \in Functions /\ IsProgram(program) /\ root \in Nat
      /\ stack = <<>> /\ root' = root /\ memo' = memo /\ program' = program
      /\ effective' = effective
  BY WalkFacts, ProgramTypes DEF EnterRoot, Functions
<1>2. stack' = <<Frame(root)>> /\ Len(stack') = 1 /\ stack'[1] = Frame(root)
  BY DEF EnterRoot
<1>3. visiting = {}
  BY <1>1, WalkFacts, EmptySeq
<1>4. Met \subseteq Met'
  BY <1>1, <1>3 DEF Met
<1>5. ASSUME NEW k \in 1..Len(stack'), NEW m \in 1..Len(Calls(stack'[k].fn)),
             m < stack'[k].next
      PROVE  FALSE
  <2>1. k = 1 /\ stack'[k].next = 1
    BY <1>2 DEF Frame
  <2> QED BY <1>5, <2>1
<1>6. Fresh(root) => DOMAIN memo \cap Reach(root) = {}
  <2> SUFFICES ASSUME NEW g \in DOMAIN memo PROVE ~(Fresh(root) /\ g \in Reach(root))
    OBVIOUS
  <2>1. PICK r \in 1..root : g \in Reach(r) /\ r < root
    BY <1>1, FreshFacts
  <2>2. r \in 1..(root - 1)
    BY <1>1, <2>1
  <2> QED BY <2>1, <2>2 DEF Fresh
<1>7. /\ \A g \in DOMAIN memo : ToSet(Calls(g)) \subseteq Met'
      /\ \A g \in DOMAIN memo : \E r \in 1..root : g \in Reach(r)
  BY <1>4, FreshFacts
<1>8. stack' # <<>>
  BY <1>2
<1> QED BY <1>1, <1>5, <1>6, <1>7, <1>8, FreshFacts, FreshNext

LEMMA DescendFresh ==
  ASSUME WalkInv, FreshInv, Descend
  PROVE  FreshInv'
<1> DEFINE n == Len(stack)
<1>1. /\ n \in Nat /\ n \in 1..n /\ stack \in Seq(FrameSet) /\ stack # <<>>
      /\ Callee \in Functions /\ IsProgram(program)
      /\ root' = root /\ memo' = memo /\ program' = program /\ effective' = effective
  BY WalkFacts, AtCallSiteFacts DEF Descend, AtCallSite
<1>2. /\ Frame(Callee) \in FrameSet /\ Frame(Callee).next = 1
  BY <1>1, FreshFrame DEF Frame
<1>3. /\ Len(stack') = n + 1
      /\ \A k \in 1..n : stack'[k] = stack[k]
      /\ stack'[n + 1] = Frame(Callee)
  BY <1>1, <1>2, AppendProperties DEF Descend
<1>4. /\ \A k \in 1..(n + 1) : k \in 1..n \/ k = n + 1
      /\ \A k \in 1..n : k \in 1..(n + 1)
  BY <1>1
<1>5. Met \subseteq Met'
  BY <1>1 DEF Met, Descend
<1>6. ASSUME NEW k \in 1..Len(stack'), NEW m \in 1..Len(Calls(stack'[k].fn)),
             m < stack'[k].next
      PROVE  Calls(stack'[k].fn)[m] \in Met'
  <2>1. CASE k \in 1..n
    BY <1>3, <1>5, <1>6, <2>1, FreshFacts
  <2>2. CASE k = n + 1
    BY <1>2, <1>3, <1>6, <2>2
  <2> QED BY <1>3, <1>4, <2>1, <2>2
<1>7. Fresh(root) =>
        \A g \in DOMAIN memo \cap Reach(root) : \A a \in Own(g) :
          \E k \in 1..Len(stack') : a \in stack'[k].result
  BY <1>1, <1>3, <1>4, FreshFacts
<1>8. stack' # <<>>
  BY <1>1, <1>3
<1>9. /\ \A g \in DOMAIN memo : ToSet(Calls(g)) \subseteq Met'
      /\ \A g \in DOMAIN memo : \E r \in 1..root : g \in Reach(r)
  BY <1>5, FreshFacts
<1> QED BY <1>1, <1>6, <1>7, <1>8, <1>9, FreshFacts, FreshNext

\* A completed call leaves everything it has asked met.
LEMMA CompletedMet ==
  ASSUME WalkInv, FreshInv, Len(stack) > 0, Top.next > Len(Calls(Top.fn))
  PROVE  ToSet(Calls(Top.fn)) \subseteq Met
<1>1. /\ Len(stack) \in 1..Len(stack) /\ Top = stack[Len(stack)]
      /\ Top.fn \in Functions /\ IsProgram(program) /\ Top \in FrameSet
  BY CompletedFacts, WalkFacts
<1>2. /\ Calls(Top.fn) \in Seq(Functions) /\ Len(Calls(Top.fn)) \in Nat
      /\ Top.next \in Nat
  BY <1>1, ProgramTypes DEF FrameSet
<1> SUFFICES ASSUME NEW c \in ToSet(Calls(Top.fn)) PROVE c \in Met
  OBVIOUS
<1>3. PICK m \in 1..Len(Calls(Top.fn)) : Calls(Top.fn)[m] = c
  BY <1>2, ToSetMember
<1>4. m < Top.next
  BY <1>2
<1> QED BY <1>1, <1>3, <1>4, FreshFacts

LEMMA CompleteCallFresh ==
  ASSUME WalkInv, FreshInv, CompleteCall
  PROVE  FreshInv'
<1> DEFINE n == Len(stack)
           below == Len(stack')
<1>1. /\ n \in Nat /\ n \in 1..n /\ 1 \in 1..n /\ n > 0 /\ stack # <<>>
      /\ Top = stack[n] /\ Top.fn \in Functions /\ SoundFor(Top.fn, Top.result)
      /\ IsProgram(program) /\ root \in 1..root
      /\ root' = root /\ program' = program /\ effective' = effective
  <2>1. n \in Nat /\ n > 1 /\ n \in 1..n /\ 1 \in 1..n
    BY WalkFacts DEF CompleteCall
  <2>2. stack # <<>>
    BY <2>1, EmptySeq
  <2>3. root \in 1..root
    BY WalkFacts, ProgramTypes
  <2> QED BY <2>1, <2>2, <2>3, WalkFacts, CompletedFacts DEF CompleteCall
<1>2. /\ below = n - 1 /\ below \in 1..n /\ below \in 1..below
      /\ \A k \in 1..below : k # below => stack'[k] = stack[k]
      /\ stack'[below] = Answered(stack[below], Top.result)
      /\ Top.fn = Calls(stack[below].fn)[stack[below].next]
  <2>1. /\ below = n - 1 /\ below \in 1..n
        /\ \A k \in 1..below : k # below => stack'[k] = stack[k]
        /\ stack'[below] = Answered(stack[below], Top.result)
        /\ Top.fn = Calls(stack[below].fn)[stack[below].next]
    BY ReturnShape
  <2>2. below \in 1..below
    BY <1>1, <2>1
  <2> QED BY <2>1, <2>2
<1>3. \A k \in 1..n : k \in 1..below \/ k = n
  BY <1>1, <1>2
<1>4. \A k \in 1..below : k \in 1..n
  BY <1>1, <1>2
<1> HIDE DEF below, n
<1>5. DOMAIN memo' = DOMAIN memo \cup {Top.fn} /\ Met \subseteq Met' /\ Top.fn \in Met'
  <2>1. DOMAIN memo' = DOMAIN memo \cup {Top.fn}
    BY DEF CompleteCall, Memoize
  <2> QED BY <2>1 DEF Met, CompleteCall
<1>6. stack' # <<>>
  <2>1. below # 0
    BY <1>2
  <2> QED BY <2>1, EmptySeq DEF below
<1>7. \A g \in DOMAIN memo' : \E r \in 1..root : g \in Reach(r)
  <2>1. Top.fn \in Reach(root)
    <3>1. stack[1].fn = root
      BY <1>1, WalkFacts
    <3>2. stack[n].fn \in Reach(stack[1].fn)
      <4>1. 1 <= n
        BY <1>1
      <4> QED BY <1>1, <4>1, StackReaches DEF n
    <3> QED BY <1>1, <3>1, <3>2
  <2> QED BY <1>1, <1>5, <2>1, FreshFacts
<1>8. \A g \in DOMAIN memo' : ToSet(Calls(g)) \subseteq Met'
  <2>1. ToSet(Calls(Top.fn)) \subseteq Met
    BY <1>1, CompletedMet DEF CompleteCall, n
  <2> QED BY <1>5, <2>1, FreshFacts
<1>9. ASSUME NEW k \in 1..below, NEW m \in 1..Len(Calls(stack'[k].fn)),
             m < stack'[k].next
      PROVE  Calls(stack'[k].fn)[m] \in Met'
  <2>1. k \in 1..Len(stack)
    BY <1>4 DEF n
  <2>2. CASE k # below
    BY <1>2, <1>5, <1>9, <2>1, <2>2, FreshFacts
  <2>3. CASE k = below
    <3>1. stack[k] \in FrameSet
      BY <2>1, WalkFacts
    <3>2. /\ stack'[k].fn = stack[k].fn /\ stack'[k].next = stack[k].next + 1
          /\ stack[k].next \in Nat
      BY <1>2, <2>3, <3>1 DEF Answered, FrameSet
    <3>3. m < stack[k].next \/ m = stack[k].next
      BY <1>9, <3>2
    <3>4. m < stack[k].next => Calls(stack[k].fn)[m] \in Met
      BY <1>9, <2>1, <3>2, FreshFacts
    <3> QED BY <1>2, <1>5, <2>3, <3>2, <3>3, <3>4
  <2> QED BY <2>2, <2>3
<1>10. /\ \A k \in 1..below : stack[k].result \subseteq stack'[k].result
       /\ stack[n].result \subseteq stack'[below].result
  BY <1>1, <1>2 DEF Answered
<1>11. ASSUME Fresh(root), NEW g \in DOMAIN memo' \cap Reach(root), NEW a \in Own(g)
       PROVE  \E k \in 1..below : a \in stack'[k].result
  <2>1. CASE g = Top.fn
    <3>1. a \in stack[n].result
      BY <1>1, <1>11, <2>1 DEF SoundFor
    <3> QED BY <1>2, <1>10, <3>1
  <2>2. CASE g \in DOMAIN memo
    <3>1. PICK k \in 1..n : a \in stack[k].result
      BY <1>1, <1>11, <2>2, FreshFacts DEF n
    <3> QED BY <1>2, <1>3, <1>10, <3>1
  <2> QED BY <1>5, <2>1, <2>2
<1>12. \A k \in 1..Len(stack') : \A m \in 1..Len(Calls(stack'[k].fn)) :
         m < stack'[k].next => Calls(stack'[k].fn)[m] \in Met'
  BY <1>9 DEF below
<1>13. Fresh(root') =>
         \A g \in DOMAIN memo' \cap Reach(root') : \A a \in Own(g) :
           \E k \in 1..Len(stack') : a \in stack'[k].result
  BY <1>1, <1>11 DEF below
<1>14. /\ \A r \in 1..(root' - 1) : Fresh(r) => effective'[r] = Promised(r)
       /\ \A g \in DOMAIN memo' : \E r \in 1..root' : g \in Reach(r)
  BY <1>1, <1>7, FreshFacts
<1> QED BY <1>1, <1>6, <1>8, <1>12, <1>13, <1>14, FreshNext

LEMMA CompleteRootFresh ==
  ASSUME WalkInv, FreshInv, CompleteRoot
  PROVE  FreshInv'
<1>1. /\ Len(stack) = 1 /\ Len(stack) > 0 /\ stack # <<>>
      /\ Top = stack[1] /\ Top.fn = root /\ root \in Functions
      /\ Top.result \in SUBSET Access /\ SoundFor(root, Top.result)
      /\ IsProgram(program) /\ root \in Nat /\ root - 1 \in Nat
      /\ root \in 1..root' /\ root' = root + 1 /\ (root - 1) + 1 = root
      /\ program' = program
  <2>1. /\ Len(stack) = 1 /\ Len(stack) > 0 /\ stack # <<>>
    <3>1. Len(stack) = 1
      BY DEF CompleteRoot
    <3>2. stack # <<>>
      BY <3>1, EmptySeq
    <3> QED BY <3>1, <3>2
  <2>2. Top = stack[1] /\ Top.fn = root
    BY <2>1, WalkFacts DEF Top
  <2>3. /\ root \in Functions /\ Top.result \in SUBSET Access
        /\ SoundFor(root, Top.result)
    BY <2>1, <2>2, CompletedFacts DEF CompleteRoot
  <2> QED BY <2>1, <2>2, <2>3, WalkFacts, ProgramTypes DEF CompleteRoot, Functions
<1>2. visiting = {root}
  <2>1. \A k \in 1..Len(stack) : k = 1
    BY <1>1
  <2> QED BY <1>1, <2>1, WalkFacts
<1>3. /\ DOMAIN memo' = DOMAIN memo \cup {root} /\ DOMAIN memo \subseteq Functions
      /\ Met' = DOMAIN memo' /\ Met = DOMAIN memo'
  <2>1. DOMAIN memo' = DOMAIN memo \cup {root}
    BY <1>1 DEF CompleteRoot, Memoize
  <2>2. visiting' = {}
    BY <1>1, <1>2 DEF CompleteRoot
  <2> QED BY <1>2, <2>1, <2>2, WalkFacts DEF Met
<1>4. /\ stack' = <<>> /\ 1..Len(stack') = {}
  BY DEF CompleteRoot
<1>5. \A g \in DOMAIN memo' : ToSet(Calls(g)) \subseteq DOMAIN memo'
  <2>1. ToSet(Calls(root)) \subseteq Met
    BY <1>1, CompletedMet DEF CompleteRoot
  <2> QED BY <1>3, <2>1, FreshFacts
<1>6. \A g \in DOMAIN memo' : \E r \in 1..root' : g \in Reach(r) /\ r < root'
  <2>1. \A r \in 1..root : r \in 1..root' /\ r < root'
    BY <1>1
  <2>2. root \in Reach(root) /\ root \in 1..root
    BY <1>1, ReachFacts
  <2> QED BY <1>3, <2>1, <2>2, FreshFacts
<1>7. Fresh(root) => Top.result = Promised(root)
  <2> SUFFICES ASSUME Fresh(root) PROVE Promised(root) \subseteq Top.result
    BY <1>1 DEF SoundFor
  <2> SUFFICES ASSUME NEW g \in Reach(root) PROVE Own(g) \subseteq Top.result
    BY DEF Promised
  <2>1. Closed(DOMAIN memo') /\ DOMAIN memo' \in SUBSET Functions /\ root \in DOMAIN memo'
    BY <1>1, <1>3, <1>5 DEF Closed
  <2>2. g \in DOMAIN memo \/ g = root
    BY <1>1, <1>3, <2>1, ReachFacts
  <2>3. CASE g = root
    BY <1>1, <2>3 DEF SoundFor
  <2>4. CASE g \in DOMAIN memo
    <3> SUFFICES ASSUME NEW a \in Own(g) PROVE a \in Top.result
      OBVIOUS
    <3>1. PICK k \in 1..Len(stack) : a \in stack[k].result
      BY <1>1, <2>4, FreshFacts
    <3>2. k = 1
      BY <1>1
    <3> QED BY <1>1, <3>1, <3>2
  <2> QED BY <2>2, <2>3, <2>4
<1>8. /\ \A r \in 1..(root - 1) : effective'[r] = effective[r]
      /\ effective'[root] = Top.result
  <2>1. /\ effective' = Append(effective, Top.result)
        /\ effective \in [1..(root - 1) -> SUBSET Access]
    BY WalkFacts DEF CompleteRoot
  <2>2. /\ \A r \in 1..(root - 1) : effective'[r] = effective[r]
        /\ effective'[(root - 1) + 1] = Top.result
    BY <1>1, <2>1, ReportKeeps
  <2> QED BY <1>1, <2>2
<1>9. ASSUME NEW r \in 1..(root' - 1), Fresh(r)
      PROVE  effective'[r] = Promised(r)
  <2>1. r \in 1..(root - 1) \/ r = root
    BY <1>1
  <2>2. CASE r \in 1..(root - 1)
    BY <1>8, <1>9, <2>2, FreshFacts
  <2>3. CASE r = root
    BY <1>7, <1>8, <1>9, <2>3
  <2> QED BY <2>1, <2>2, <2>3
<1>10. \A g \in DOMAIN memo' : ToSet(Calls(g)) \subseteq Met'
  BY <1>3, <1>5
<1> QED BY <1>1, <1>4, <1>6, <1>9, <1>10, FreshNext

LEMMA FreshStep == WalkInv /\ FreshInv /\ [Next]_vars => FreshInv'
<1> SUFFICES ASSUME WalkInv, FreshInv, [Next]_vars PROVE FreshInv'
  OBVIOUS
<1>1. CASE ReportMemoized BY <1>1, ReportMemoizedFresh
<1>2. CASE EnterRoot BY <1>2, EnterRootFresh
<1>3. CASE MemoHit
  <2>1. Callee \in DOMAIN memo
    BY <1>3 DEF MemoHit, Memoized
  <2>2. memo[Callee] \in SUBSET Access /\ Callee \in Met
    BY <2>1, WalkFacts DEF Met
  <2> QED BY <1>3, <2>2, AnswerFresh DEF MemoHit
<1>4. CASE CycleCut
  <2>1. Own(Callee) \in SUBSET Access
    BY <1>4, WalkFacts, AtCallSiteFacts, ProgramTypes DEF CycleCut
  <2>2. Callee \in Met
    BY <1>4 DEF CycleCut, Met
  <2> QED BY <1>4, <2>1, <2>2, AnswerFresh DEF CycleCut
<1>5. CASE Descend BY <1>5, DescendFresh
<1>6. CASE CompleteCall BY <1>6, CompleteCallFresh
<1>7. CASE CompleteRoot BY <1>7, CompleteRootFresh
<1>8. CASE UNCHANGED vars
  <2>1. Met' = Met
    BY <1>8 DEF vars, Met
  <2> QED BY <1>8, <2>1, FreshFacts, FreshNext DEF vars
<1> QED BY <1>1, <1>2, <1>3, <1>4, <1>5, <1>6, <1>7, <1>8 DEF Next

\* For every program, cycles or not: a root that shares no reachable function
\* with an earlier root is reported with exactly what is promised.
THEOREM FreshRootExact == Spec => []FreshRootsExact
<1>1. Init => FreshInv
  <2> SUFFICES ASSUME Init PROVE FreshInv
    OBVIOUS
  <2>1. Len(stack) = 0 /\ DOMAIN memo = {} /\ stack = <<>> /\ 1..(root - 1) = {}
    BY EmptySeq DEF Init
  <2> QED BY <2>1 DEF FreshInv, WalkedFromRoots, CalleesMet, FramesMet, Collected,
                      FreshRootsExact
<1>2. FreshInv => FreshRootsExact
  BY DEF FreshInv
<1> QED BY <1>1, <1>2, FreshStep, WalkInvInit, WalkInvStep, PTL DEF Spec

-----------------------------------------------------------------------------
\* The report repeats the memoised results.
ReportIsMemo == \A r \in 1..(root - 1) : r \in DOMAIN memo /\ effective[r] = memo[r]

\* One more entry of the report, of a function with a result.
LEMMA EntryAdded ==
  ASSUME WalkInv, ReportIsMemo, NEW entry \in SUBSET Access,
         root' = root + 1, effective' = Append(effective, entry),
         \A f \in DOMAIN memo : f \in DOMAIN memo' /\ memo'[f] = memo[f],
         root \in DOMAIN memo', memo'[root] = entry
  PROVE  ReportIsMemo'
<1>1. /\ root \in Nat \ {0} /\ root - 1 \in Nat
      /\ effective \in [1..(root - 1) -> SUBSET Access]
  BY WalkFacts
<1>2. /\ \A r \in 1..(root - 1) : effective'[r] = effective[r]
      /\ effective'[(root - 1) + 1] = entry
  BY <1>1, ReportKeeps
<1>3. ASSUME NEW r \in 1..root PROVE r \in DOMAIN memo' /\ effective'[r] = memo'[r]
  <2>1. r \in 1..(root - 1) \/ r = root
    BY <1>1
  <2>2. (root - 1) + 1 = root
    BY <1>1
  <2> QED BY <1>2, <2>1, <2>2 DEF ReportIsMemo
<1>4. root' - 1 = root
  BY <1>1
<1> QED BY <1>3, <1>4 DEF ReportIsMemo

LEMMA ReportStep == WalkInv /\ ReportIsMemo /\ [Next]_vars => ReportIsMemo'
<1> SUFFICES ASSUME WalkInv, ReportIsMemo, [Next]_vars PROVE ReportIsMemo'
  OBVIOUS
<1>1. CASE UNCHANGED vars
  BY <1>1 DEF vars, ReportIsMemo
<1>2. ASSUME Next PROVE \A f \in DOMAIN memo : f \in DOMAIN memo' /\ memo'[f] = memo[f]
  BY <1>2, MemoGrows
<1>3. CASE ReportMemoized
  <2>1. root \in DOMAIN memo /\ memo' = memo /\ memo[root] \in SUBSET Access
    BY <1>3, WalkFacts DEF ReportMemoized, Memoized
  <2> QED BY <1>3, <2>1, EntryAdded DEF ReportMemoized
<1>4. CASE CompleteRoot
  <2>1. /\ Top.fn = root /\ Top.result \in SUBSET Access
        /\ memo' = Memoize(Top.fn, Top.result)
    <3>1. Len(stack) = 1 /\ memo' = Memoize(Top.fn, Top.result)
      BY <1>4 DEF CompleteRoot
    <3>2. stack # <<>>
      BY <3>1
    <3>3. stack[1].fn = root
      BY <3>2, WalkFacts
    <3>4. Top.result \in SUBSET Access
      BY <1>4, CompletedFacts DEF CompleteRoot
    <3> QED BY <3>1, <3>3, <3>4 DEF Top
  <2>2. root \in DOMAIN memo' /\ memo'[root] = Top.result
    BY <2>1 DEF Memoize
  <2>3. PICK entry \in SUBSET Access : entry = Top.result
    BY <2>1
  <2> QED BY <1>2, <1>4, <2>2, <2>3, EntryAdded DEF CompleteRoot, Next
<1>5. CASE root' = root /\ effective' = effective /\ Next
  BY <1>2, <1>5 DEF ReportIsMemo
<1> QED BY <1>1, <1>3, <1>4, <1>5
        DEF Next, EnterRoot, MemoHit, CycleCut, Descend, CompleteCall

-----------------------------------------------------------------------------
(* The set of files: what CallResolution computes of the records.          *)

FunctionSet == [source: 1..Len(files), name: ToSet(NameOrder)]

\* The files that define a function of a name, with accesses of its own.
Defining(method) == {s \in 1..Len(files) : method \in FunctionsIn(files[s].accesses)}

\* The parts of an input file.
LEMMA FileTypes ==
  ASSUME files \in FileSets
  PROVE  /\ Len(files) \in Nat /\ DOMAIN files = 1..Len(files)
         /\ \A s \in 1..Len(files) :
              /\ files[s].accesses \in Seq(AccessRecord)
              /\ files[s].calls \in Seq(CallRecord)
              /\ Len(files[s].calls) \in Nat
              /\ FunctionsIn(files[s].accesses) \subseteq ToSet(NameOrder)
              /\ \A k \in 1..Len(files[s].calls) :
                   files[s].calls[k] \in CallRecord
              /\ ReportedNames(s) \subseteq ToSet(NameOrder)
<1> DEFINE File == [accesses: Seq(AccessRecord), calls: Seq(CallRecord)]
<1>1. files \in Seq(File)
  BY FilesAssumption
<1>2. Len(files) \in Nat /\ DOMAIN files = 1..Len(files)
  BY <1>1, LenProperties
<1>3. ASSUME NEW s \in 1..Len(files)
      PROVE  /\ files[s].accesses \in Seq(AccessRecord)
             /\ files[s].calls \in Seq(CallRecord)
             /\ Len(files[s].calls) \in Nat
             /\ FunctionsIn(files[s].accesses) \subseteq ToSet(NameOrder)
             /\ \A k \in 1..Len(files[s].calls) : files[s].calls[k] \in CallRecord
             /\ ReportedNames(s) \subseteq ToSet(NameOrder)
  <2>1. files[s] \in File
    BY <1>1, ElementOfSeq
  <2>2. files[s].accesses \in Seq(AccessRecord) /\ files[s].calls \in Seq(CallRecord)
    BY <2>1
  <2>3. /\ ToSet(files[s].accesses) \subseteq AccessRecord
        /\ ToSet(files[s].calls) \subseteq CallRecord
    BY <2>2, ToSetOver
  <2>4. FunctionsIn(files[s].accesses) \subseteq ToSet(NameOrder)
    BY <2>3 DEF FunctionsIn, AccessRecord
  <2>5. {c.function : c \in ToSet(files[s].calls)} \subseteq ToSet(NameOrder)
    BY <2>3 DEF CallRecord
  <2> QED BY <2>2, <2>4, <2>5, LenProperties, ElementOfSeq DEF ReportedNames
<1> QED BY <1>2, <1>3

\* The position of an element of a list is a position it is at.
LEMMA PositionFound ==
  ASSUME NEW S, NEW list \in Seq(S), NEW x, NEW p \in 1..Len(list), list[p] = x
  PROVE  Position(list, x) \in 1..Len(list) /\ list[Position(list, x)] = x
<1> DEFINE I == {i \in 1..Len(list) : list[i] = x}
<1>1. I \subseteq Nat /\ I # {}
  BY LenProperties
<1>2. Position(list, x) = Min(I)
  BY <1>1 DEF Position, SelectInSeq
<1>3. Min(I) \in I
  BY <1>1, MinLeast
<1> QED BY <1>2, <1>3

LEMMA ReportedFunctions ==
  ASSUME files \in FileSets
  PROVE  /\ \A f : f \in Reported <=>
              \E s \in 1..Len(files) : \E n \in ReportedNames(s) : f = Function(s, n)
         /\ Reported \subseteq FunctionSet
         /\ \A f \in Reported : f.name \in ReportedNames(f.source)
<1>1. \A f : f \in Reported <=>
        \E s \in 1..Len(files) : \E n \in ReportedNames(s) : f = Function(s, n)
  BY FileTypes DEF Reported
<1>2. \A s \in 1..Len(files) : \A n \in ReportedNames(s) :
        /\ Function(s, n) \in FunctionSet
        /\ Function(s, n).name \in ReportedNames(Function(s, n).source)
  BY FileTypes DEF Function, FunctionSet
<1> QED BY <1>1, <1>2

\* The reported functions are finitely many.
LEMMA ReportedFinite ==
  ASSUME files \in FileSets
  PROVE  IsFiniteSet(Reported)
<1> DEFINE Pairs == (1..Len(files)) \X ToSet(NameOrder)
           pairOf == [f \in FunctionSet |-> <<f.source, f.name>>]
<1>1. IsFiniteSet(1..Len(files)) /\ IsFiniteSet(ToSet(NameOrder))
  BY FileTypes, UpToSize, ToSetFinite, NamesAssumption
<1>2. IsFiniteSet(Pairs)
  BY <1>1, FS_Product
<1>3. pairOf \in Injection(FunctionSet, Pairs)
  <2>1. pairOf \in [FunctionSet -> Pairs]
    BY DEF FunctionSet
  <2>2. \A f, g \in FunctionSet : pairOf[f] = pairOf[g] => f = g
    BY DEF FunctionSet
  <2> QED BY <2>1, <2>2 DEF Injection, IsInjective
<1>4. IsFiniteSet(FunctionSet)
  BY <1>2, <1>3, FS_Injection
<1> QED BY <1>4, ReportedFunctions, FS_Subset

BeforePairs == {e \in Reported \X Reported : ListedBefore(e[1], e[2])}

\* Files and names order any two functions.
LEMMA ListedOrders ==
  ASSUME files \in FileSets
  PROVE  OrdersAll(BeforePairs, Reported)
<1> DEFINE place == [f \in Reported |-> Position(NameOrder, f.name)]
<1>1. \A a, b \in Reported : <<a, b>> \in BeforePairs <=> ListedBefore(a, b)
  BY DEF BeforePairs
<1>2. ASSUME NEW f \in Reported
      PROVE  f \in FunctionSet /\ place[f] \in Nat /\ NameOrder[place[f]] = f.name
  <2>1. f \in FunctionSet /\ f.name \in ToSet(NameOrder)
    BY ReportedFunctions DEF FunctionSet
  <2>2. PICK p \in 1..Len(NameOrder) : NameOrder[p] = f.name
    BY <2>1, NamesAssumption, ToSetMember
  <2>3. /\ Position(NameOrder, f.name) \in 1..Len(NameOrder)
        /\ NameOrder[Position(NameOrder, f.name)] = f.name
    BY <2>2, NamesAssumption, PositionFound
  <2> QED BY <2>1, <2>3, NamesAssumption, LenProperties
<1>3. \A a, b \in Reported : ListedBefore(a, b) <=>
        a.source < b.source \/ (a.source = b.source /\ place[a] < place[b])
  BY DEF ListedBefore
<1>4. \A a, b \in Reported : a.source = b.source /\ place[a] = place[b] => a = b
  BY <1>2 DEF FunctionSet
<1>5. \A a \in Reported : a.source \in Nat
  BY <1>2, FileTypes DEF FunctionSet
<1> HIDE DEF place
<1>6. \A a \in Reported : ~ListedBefore(a, a)
  BY <1>2, <1>3, <1>5
<1>7. \A a, b, c \in Reported : ListedBefore(a, b) /\ ListedBefore(b, c) => ListedBefore(a, c)
  BY <1>2, <1>3, <1>5
<1>8. \A a, b \in Reported : a # b => ListedBefore(a, b) \/ ListedBefore(b, a)
  BY <1>2, <1>3, <1>4, <1>5
<1> QED BY <1>1, <1>6, <1>7, <1>8 DEF OrdersAll

\* The report has every function at one place.
LEMMA OrderFacts ==
  ASSUME files \in FileSets
  PROVE  /\ ReportOrder \in Seq(Reported)
         /\ Len(ReportOrder) \in Nat /\ DOMAIN ReportOrder = 1..Len(ReportOrder)
         /\ \A i \in 1..Len(ReportOrder) : ReportOrder[i] \in Reported
         /\ \A i, j \in 1..Len(ReportOrder) : ReportOrder[i] = ReportOrder[j] => i = j
         /\ \A f \in Reported :
              /\ Position(ReportOrder, f) \in 1..Len(ReportOrder)
              /\ ReportOrder[Position(ReportOrder, f)] = f
<1> DEFINE R == BeforePairs
           E == Reported
           n == Cardinality(E)
<1>1. \A e \in E : Preceding(R, E, e) = {f \in E : ListedBefore(f, e)}
  BY DEF BeforePairs, Preceding
<1>2. ReportOrder = [k \in 1..Cardinality(E) |->
        CHOOSE e \in E : Cardinality({f \in E : ListedBefore(f, e)}) = k - 1]
  BY DEF ReportOrder, Ranked
<1>3. IsFiniteSet(E) /\ n \in Nat
  BY ReportedFinite, FS_CardinalityType
<1>4. OrdersAll(R, E)
  BY ListedOrders
<1> HIDE DEF R, E
<1>5. ASSUME NEW k
      PROVE  (CHOOSE e \in E : Cardinality(Preceding(R, E, e)) = k - 1)
               = (CHOOSE e \in E : Cardinality({f \in E : ListedBefore(f, e)}) = k - 1)
  <2>1. \A e : (e \in E /\ Cardinality(Preceding(R, E, e)) = k - 1)
                 <=> (e \in E /\ Cardinality({f \in E : ListedBefore(f, e)}) = k - 1)
    BY <1>1
  <2> QED BY <2>1
<1>6. IsRanking(ReportOrder, R, E)
  <2> DEFINE one(k) == CHOOSE e \in E : Cardinality(Preceding(R, E, e)) = k - 1
             two(k) == CHOOSE e \in E : Cardinality({f \in E : ListedBefore(f, e)}) = k - 1
  <2>1. \A k : one(k) = two(k)
    BY <1>5
  <2>2. ReportOrder = [k \in 1..Cardinality(E) |-> two(k)]
    BY <1>2
  <2> HIDE DEF one, two
  <2>3. ReportOrder = [k \in 1..Cardinality(E) |-> one(k)]
    BY <2>1, <2>2
  <2> USE DEF one
  <2> QED BY <2>3 DEF IsRanking
<1>7. ReportOrder \in Bijection(1..n, E)
  BY <1>3, <1>4, <1>6, RankedList
<1>8. /\ ReportOrder \in [1..n -> Reported]
      /\ \A i, j \in 1..n : ReportOrder[i] = ReportOrder[j] => i = j
      /\ \A f \in Reported : \E i \in 1..n : ReportOrder[i] = f
  BY <1>7 DEF Bijection, Injection, IsInjective, Surjection, E
<1> HIDE DEF n
<1>9. ReportOrder = [i \in 1..n |-> ReportOrder[i]]
  BY <1>8
<1>10. ReportOrder \in Seq(Reported) /\ Len(ReportOrder) = n
  BY <1>3, <1>8, <1>9, IsASeq, LenProperties
<1>11. \A f \in Reported :
         /\ Position(ReportOrder, f) \in 1..Len(ReportOrder)
         /\ ReportOrder[Position(ReportOrder, f)] = f
  BY <1>8, <1>10, PositionFound
<1> QED BY <1>3, <1>8, <1>10, <1>11

\* A function has accesses of its own in the files that define it.
LEMMA OwnByRecords ==
  ASSUME files \in FileSets, NEW f \in FunctionSet
  PROVE  OwnAccesses(f) # {} <=> f.source \in Defining(f.name)
<1>1. f.source \in 1..Len(files)
  BY DEF FunctionSet
<1>2. OwnAccesses(f) # {} <=>
        \E a \in ToSet(files[f.source].accesses) : a.function = f.name
  BY DEF OwnAccesses
<1> QED BY <1>1, <1>2 DEF Defining, FunctionsIn

\* The functions that a name may mean.
LEMMA NamedFunctions ==
  ASSUME files \in FileSets, NEW method
  PROVE  /\ \A f \in Named(method) : f \in Reported /\ f \in FunctionSet /\ f.name = method
         /\ \A s \in Defining(method) :
              /\ s \in 1..Len(files)
              /\ Function(s, method) \in Named(method)
              /\ Function(s, method) \in FunctionSet
              /\ OwnAccesses(Function(s, method)) # {}
         /\ \A f \in Named(method) : OwnAccesses(f) # {} => f = Function(f.source, method)
                                       /\ f.source \in Defining(method)
<1>1. \A f \in Named(method) : f \in Reported /\ f \in FunctionSet /\ f.name = method
  BY ReportedFunctions DEF Named
<1>2. ASSUME NEW s \in Defining(method)
      PROVE  /\ s \in 1..Len(files)
             /\ Function(s, method) \in Named(method)
             /\ Function(s, method) \in FunctionSet
             /\ OwnAccesses(Function(s, method)) # {}
  <2>1. s \in 1..Len(files) /\ method \in FunctionsIn(files[s].accesses)
    BY DEF Defining
  <2>2. method \in ReportedNames(s)
    BY <2>1 DEF ReportedNames
  <2>3. Function(s, method) \in Reported /\ Function(s, method).name = method
        /\ Function(s, method).source = s
    BY <2>1, <2>2, ReportedFunctions DEF Function
  <2>4. Function(s, method) \in FunctionSet
    BY <2>3, ReportedFunctions
  <2> QED BY <2>1, <2>3, <2>4, OwnByRecords DEF Named
<1>3. ASSUME NEW f \in Named(method), OwnAccesses(f) # {}
      PROVE  f = Function(f.source, method) /\ f.source \in Defining(method)
  BY <1>1, <1>3, OwnByRecords DEF Function, FunctionSet
<1> QED BY <1>1, <1>2, <1>3

-----------------------------------------------------------------------------
(* The linked program.                                                     *)

EdgeSet == [from: FunctionSet, to: FunctionSet]

EdgesTyped == edges \in Seq(EdgeSet)

\* A resolved call was written in a file, and its name has one meaning.
RightEdge(e) ==
  /\ \E k \in 1..Len(files[e.from.source].calls) :
       files[e.from.source].calls[k].function = e.from.name
         /\ files[e.from.source].calls[k].method = e.to.name
  /\ Defining(e.to.name) = {e.to.source}

EdgesRight == \A k \in 1..Len(edges) : RightEdge(edges[k])

\* A list of positions of edges has those of one caller's edges, and all of them.
ListsEdgesOf(out, f) ==
  LET K == {k \in DOMAIN edges : edges[k].from = f}
  IN /\ Len(out) \in Nat /\ DOMAIN out = 1..Len(out)
     /\ \A m \in 1..Len(out) : out[m] \in K
     /\ \A k \in K : \E m \in 1..Len(out) : out[m] = k

\* The resolved calls of a function are all listed, in the order of the sites.
LEMMA EdgesListed ==
  ASSUME EdgesTyped, NEW f, NEW out, out = EdgesFrom(f)
  PROVE  ListsEdgesOf(out, f)
<1> DEFINE K == {k \in DOMAIN edges : edges[k].from = f}
           R == {e \in K \X K : e[1] < e[2]}
           n == Cardinality(K)
<1>1. Len(edges) \in Nat /\ DOMAIN edges = 1..Len(edges)
  BY LenProperties DEF EdgesTyped
<1>2. K \subseteq 1..Len(edges) /\ IsFiniteSet(1..Len(edges))
  BY <1>1, UpToSize
<1>3. IsFiniteSet(K) /\ n \in Nat
  BY <1>2, FS_Subset, FS_CardinalityType
<1>4. \A e \in K : Preceding(R, K, e) = {g \in K : g < e}
  BY DEF Preceding
<1>5. OrdersAll(R, K)
  <2>1. K \subseteq Nat
    BY <1>1, <1>2
  <2>2. \A a, b \in K : <<a, b>> \in R <=> a < b
    OBVIOUS
  <2> HIDE DEF R
  <2> QED BY <2>1, <2>2 DEF OrdersAll
<1>6. out = [k \in 1..Cardinality(K) |->
        CHOOSE e \in K : Cardinality({g \in K : g < e}) = k - 1]
  BY DEF EdgesFrom, Ranked
<1> HIDE DEF R
<1>7. IsRanking(out, R, K)
  <2> DEFINE one(k) == CHOOSE e \in K : Cardinality(Preceding(R, K, e)) = k - 1
             two(k) == CHOOSE e \in K : Cardinality({g \in K : g < e}) = k - 1
  <2>1. ASSUME NEW k PROVE one(k) = two(k)
    <3>1. \A e : (e \in K /\ Cardinality(Preceding(R, K, e)) = k - 1)
                   <=> (e \in K /\ Cardinality({g \in K : g < e}) = k - 1)
      BY <1>4
    <3> QED BY <3>1
  <2>2. out = [k \in 1..Cardinality(K) |-> two(k)]
    BY <1>6
  <2> HIDE DEF one, two
  <2>3. out = [k \in 1..Cardinality(K) |-> one(k)]
    BY <2>1, <2>2
  <2> USE DEF one
  <2> QED BY <2>3 DEF IsRanking
<1>8. out \in Bijection(1..n, K)
  BY <1>3, <1>5, <1>7, RankedList
<1>9. out \in [1..n -> K] /\ \A k \in K : \E m \in 1..n : out[m] = k
  BY <1>8 DEF Bijection, Surjection
<1> HIDE DEF n
<1>10. out = [m \in 1..n |-> out[m]]
  BY <1>9
<1>11. out \in Seq(K) /\ Len(out) = n
  BY <1>3, <1>9, <1>10, IsASeq, LenProperties
<1> QED BY <1>3, <1>9, <1>11 DEF ListsEdgesOf

\* What the walk is given, function by function.
LEMMA ProgramShape ==
  ASSUME files \in FileSets, EdgesTyped, EdgesRight
  PROVE  /\ DOMAIN Program = 1..Len(ReportOrder)
         /\ \A i \in 1..Len(ReportOrder) :
              /\ Program[i] = [own |-> Program[i].own, calls |-> Program[i].calls]
              /\ Program[i].own = OwnAccesses(ReportOrder[i])
              /\ Program[i].calls \in Seq(1..Len(ReportOrder))
              /\ \A c \in ToSet(Program[i].calls) :
                   /\ c \in 1..Len(ReportOrder)
                   /\ \E k \in 1..Len(edges) :
                        edges[k].from = ReportOrder[i] /\ edges[k].to = ReportOrder[c]
              /\ \A k \in 1..Len(edges) : edges[k].from = ReportOrder[i] =>
                   Position(ReportOrder, edges[k].to) \in ToSet(Program[i].calls)
<1> DEFINE order == ReportOrder
           n == Len(order)
<1>1. /\ n \in Nat /\ DOMAIN order = 1..n
      /\ \A i \in 1..n : order[i] \in Reported
  BY OrderFacts
<1>2. ASSUME NEW k \in 1..Len(edges)
      PROVE  /\ edges[k].to \in Reported
             /\ Position(order, edges[k].to) \in 1..n
             /\ order[Position(order, edges[k].to)] = edges[k].to
  <2>1. edges[k] \in EdgeSet /\ RightEdge(edges[k])
    BY ElementOfSeq DEF EdgesTyped, EdgesRight
  <2>2. PICK e \in EdgeSet : e = edges[k] /\ RightEdge(e)
    BY <2>1
  <2>3. e.to \in FunctionSet /\ e.to.source \in Defining(e.to.name)
    BY <2>2 DEF EdgeSet, RightEdge
  <2>4. Function(e.to.source, e.to.name) \in Reported
    BY <2>3, NamedFunctions
  <2>5. e.to = Function(e.to.source, e.to.name)
    BY <2>3 DEF FunctionSet, Function
  <2> QED BY <2>2, <2>4, <2>5, OrderFacts
<1>3. Program = [i \in 1..n |->
        [own   |-> OwnAccesses(order[i]),
         calls |-> LET out == EdgesFrom(order[i])
                   IN [k \in DOMAIN out |-> Position(order, edges[out[k]].to)]]]
  BY <1>1 DEF Program
<1>4. ASSUME NEW i \in 1..n
      PROVE  /\ Program[i] = [own |-> Program[i].own, calls |-> Program[i].calls]
             /\ Program[i].own = OwnAccesses(order[i])
             /\ Program[i].calls \in Seq(1..n)
             /\ \A c \in ToSet(Program[i].calls) :
                  /\ c \in 1..n
                  /\ \E k \in 1..Len(edges) : edges[k].from = order[i] /\ edges[k].to = order[c]
             /\ \A k \in 1..Len(edges) : edges[k].from = order[i] =>
                  Position(order, edges[k].to) \in ToSet(Program[i].calls)
  <2> DEFINE out == EdgesFrom(order[i])
             K == {k \in DOMAIN edges : edges[k].from = order[i]}
             list == [m \in DOMAIN out |-> Position(order, edges[out[m]].to)]
  <2>1. DOMAIN edges = 1..Len(edges)
    BY LenProperties DEF EdgesTyped
  <2>2. /\ Len(out) \in Nat /\ DOMAIN out = 1..Len(out)
        /\ \A m \in 1..Len(out) : out[m] \in K
        /\ \A k \in K : \E m \in 1..Len(out) : out[m] = k
    <3>1. PICK g, l : g = order[i] /\ l = EdgesFrom(g)
      OBVIOUS
    <3>2. ListsEdgesOf(l, g)
      BY <3>1, EdgesListed
    <3>3. ListsEdgesOf(out, order[i])
      BY <3>1, <3>2
    <3> QED BY <3>3 DEF ListsEdgesOf
  <2>3. Program[i] = [own |-> OwnAccesses(order[i]), calls |-> list]
    BY <1>3
  <2>4. /\ Program[i] = [own |-> Program[i].own, calls |-> Program[i].calls]
        /\ Program[i].own = OwnAccesses(order[i]) /\ Program[i].calls = list
    BY <2>3
  <2> HIDE DEF out, order
  <2>5. \A m \in 1..Len(out) : list[m] \in 1..n
    BY <1>2, <2>1, <2>2
  <2>6. list \in Seq(1..n) /\ Len(list) = Len(out)
    BY <2>2, <2>5, IsASeq, LenProperties
  <2>7. \A c : c \in ToSet(list) <=> \E m \in 1..Len(out) : list[m] = c
    BY <2>6, ToSetMember
  <2>8. ASSUME NEW c \in ToSet(list)
        PROVE  /\ c \in 1..n
               /\ \E k \in 1..Len(edges) : edges[k].from = order[i] /\ edges[k].to = order[c]
    <3>1. PICK m \in 1..Len(out) : list[m] = c
      BY <2>7
    <3>2. out[m] \in 1..Len(edges) /\ edges[out[m]].from = order[i]
      BY <2>1, <2>2
    <3>3. c = Position(order, edges[out[m]].to)
      BY <2>2, <3>1
    <3> QED BY <1>2, <3>2, <3>3
  <2>9. ASSUME NEW k \in 1..Len(edges), edges[k].from = order[i]
        PROVE  Position(order, edges[k].to) \in ToSet(list)
    <3>1. PICK m \in 1..Len(out) : out[m] = k
      BY <2>1, <2>2, <2>9
    <3>2. list[m] = Position(order, edges[k].to)
      BY <2>2, <3>1
    <3> QED BY <2>7, <3>2
  <2> HIDE DEF list
  <2> QED BY <2>4, <2>6, <2>8, <2>9 DEF order
<1> HIDE DEF order
<1>5. DOMAIN Program = 1..n
  BY <1>3
<1> QED BY <1>4, <1>5 DEF order

-----------------------------------------------------------------------------
(* Linking.                                                                *)

Reasons == {"ambiguous", "no such function"}
UnresolvedSet == [from: FunctionSet, method: STRING, reason: Reasons]

ResolveTypes ==
  /\ files \in FileSets
  /\ phase \in {"index", "link", "linked"}
  /\ file \in 1..(Len(files) + 1)
  /\ call \in Nat \ {0}
  /\ index \in [ToSet(NameOrder) -> SUBSET (1..Len(files))]
  /\ EdgesTyped
  /\ unresolved \in Seq(UnresolvedSet)
  /\ phase = "index" => call = 1
  /\ phase = "linked" => file = Len(files) + 1

\* The index has the files seen so far that define a name.
Indexed == IF phase = "index" THEN file - 1 ELSE Len(files)
IndexRight ==
  \A name \in ToSet(NameOrder) :
    index[name] = {s \in Defining(name) : s <= Indexed}

Linked(f, method) ==
  \E k \in 1..Len(edges) : edges[k].from = f /\ edges[k].to.name = method
Mentioned(f, method) ==
  \E k \in 1..Len(unresolved) : unresolved[k].from = f /\ unresolved[k].method = method

\* A call is linked if its name has one meaning, and otherwise listed, unless
\* its name is library-like and nothing defines it.
SettledFor(f, method) ==
  /\ (\E t : Defining(method) = {t}) => Linked(f, method)
  /\ (\A t : Defining(method) # {t}) =>
       Mentioned(f, method) \/ (method \in NOISE_METHODS /\ Defining(method) = {})

\* The calls passed so far.
Passed(s, k) == phase # "index" /\ (s < file \/ (s = file /\ k < call))

SitesSettled ==
  \A s \in 1..Len(files) : \A k \in 1..Len(files[s].calls) :
    Passed(s, k) => SettledFor(Function(s, files[s].calls[k].function),
                               files[s].calls[k].method)

ResolveInv == ResolveTypes /\ IndexRight /\ EdgesRight /\ SitesSettled

\* While the files stay the same, so does what they define.
LEMMA SameFiles ==
  ASSUME files' = files
  PROVE  /\ \A m : Defining(m)' = Defining(m)
         /\ FunctionSet' = FunctionSet
         /\ EdgeSet' = EdgeSet /\ UnresolvedSet' = UnresolvedSet
         /\ \A e : RightEdge(e)' <=> RightEdge(e)
<1>1. \A m : Defining(m)' = Defining(m)
  BY DEF Defining
<1>2. FunctionSet' = FunctionSet
  BY DEF FunctionSet
<1>3. EdgeSet' = EdgeSet /\ UnresolvedSet' = UnresolvedSet
  BY <1>2 DEF EdgeSet, UnresolvedSet
<1>4. \A e : RightEdge(e)' <=> RightEdge(e)
  BY <1>1 DEF RightEdge
<1> QED BY <1>1, <1>2, <1>3, <1>4

\* Whatever leaves the lists of calls alone keeps what is said of them.
LEMMA SameLists ==
  ASSUME files' = files, edges' = edges, unresolved' = unresolved
  PROVE  /\ EdgesTyped => EdgesTyped'
         /\ EdgesRight => EdgesRight'
         /\ \A f, m : SettledFor(f, m) => SettledFor(f, m)'
<1>1. EdgesTyped => EdgesTyped'
  BY SameFiles DEF EdgesTyped
<1>2. EdgesRight => EdgesRight'
  BY SameFiles DEF EdgesRight
<1>3. \A f, m : SettledFor(f, m) => SettledFor(f, m)'
  BY SameFiles DEF SettledFor, Linked, Mentioned
<1> QED BY <1>1, <1>2, <1>3

LEMMA ResolveInitInv == ResolveInit => ResolveInv
<1> SUFFICES ASSUME ResolveInit PROVE ResolveInv
  OBVIOUS
<1>1. files \in FileSets /\ Len(files) \in Nat
  BY FileTypes DEF ResolveInit
<1>2. /\ Len(edges) = 0 /\ EdgesTyped
      /\ unresolved \in Seq(UnresolvedSet)
  BY EmptySeq DEF ResolveInit, EdgesTyped
<1>3. ResolveTypes
  BY <1>1, <1>2 DEF ResolveTypes, ResolveInit
<1>4. IndexRight
  <2>1. \A m : {s \in Defining(m) : s <= 0} = {}
    BY <1>1 DEF Defining
  <2> QED BY <2>1 DEF IndexRight, Indexed, ResolveInit
<1>5. EdgesRight
  BY <1>2 DEF EdgesRight
<1>6. SitesSettled
  BY DEF SitesSettled, Passed, ResolveInit
<1> QED BY <1>3, <1>4, <1>5, <1>6 DEF ResolveInv

\* The call to be linked, and the files its name is looked up in.
LEMMA SiteFacts ==
  ASSUME ResolveInv, AtCall
  PROVE  /\ Len(files) \in Nat /\ file \in 1..Len(files)
         /\ call \in 1..Len(files[file].calls)
         /\ Site = files[file].calls[call]
         /\ Site \in CallRecord
         /\ Function(file, Site.function) \in FunctionSet
         /\ Candidates = Defining(Site.method)
         /\ IsFiniteSet(Candidates)
         /\ Candidates \subseteq Nat
<1>1. /\ files \in FileSets /\ phase = "link" /\ file \in 1..(Len(files) + 1)
      /\ call \in Nat \ {0} /\ index \in [ToSet(NameOrder) -> SUBSET (1..Len(files))]
  BY DEF ResolveInv, ResolveTypes, AtCall
<1>2. Len(files) \in Nat
  BY <1>1, FileTypes
<1>3. file \in 1..Len(files)
  BY <1>1, <1>2 DEF AtCall
<1>4. Len(files[file].calls) \in Nat /\ call \in 1..Len(files[file].calls)
  BY <1>1, <1>3, FileTypes DEF AtCall
<1>5. Site = files[file].calls[call] /\ Site \in CallRecord
  BY <1>1, <1>3, <1>4, FileTypes DEF Site
<1>6. Function(file, Site.function) \in FunctionSet
  BY <1>3, <1>5 DEF Function, FunctionSet, CallRecord
<1>7. Candidates = Defining(Site.method)
  <2>1. CASE Site.method \in ToSet(NameOrder)
    <3>1. Candidates = index[Site.method]
      BY <1>1, <2>1 DEF Candidates
    <3>2. index[Site.method] = {s \in Defining(Site.method) : s <= Len(files)}
      BY <1>1, <2>1 DEF ResolveInv, IndexRight, Indexed
    <3>3. \A s \in Defining(Site.method) : s <= Len(files)
      BY <1>2 DEF Defining
    <3> QED BY <3>1, <3>2, <3>3
  <2>2. CASE Site.method \notin ToSet(NameOrder)
    <3>1. Candidates = {}
      BY <1>1, <2>2 DEF Candidates
    <3>2. Defining(Site.method) = {}
      BY <1>1, <2>2, FileTypes DEF Defining
    <3> QED BY <3>1, <3>2
  <2> QED BY <2>1, <2>2
<1>8. Candidates \subseteq 1..Len(files)
  BY <1>7 DEF Defining
<1>9. IsFiniteSet(Candidates)
  BY <1>2, <1>8, UpToSize, FS_Subset
<1> QED BY <1>2, <1>3, <1>4, <1>5, <1>6, <1>7, <1>8, <1>9

\* One more call is passed: what was said of the earlier ones stays true.
LEMMA SitePassed ==
  ASSUME ResolveInv, AtCall,
         files' = files, phase' = phase, file' = file, call' = call + 1, index' = index,
         EdgesTyped', EdgesRight', unresolved' \in Seq(UnresolvedSet),
         \A f, m : Linked(f, m) => Linked(f, m)',
         \A f, m : Mentioned(f, m) => Mentioned(f, m)',
         NEW from, NEW method, from = Function(file, Site.function), method = Site.method,
         SettledFor(from, method)'
  PROVE  ResolveInv'
<1>1. ResolveTypes'
  BY SameFiles DEF ResolveInv, ResolveTypes, AtCall
<1>2. IndexRight'
  BY SameFiles DEF ResolveInv, IndexRight, Indexed
<1>3. \A f, m : SettledFor(f, m) => SettledFor(f, m)'
  BY SameFiles DEF SettledFor
<1>4. SitesSettled'
  <2>1. ASSUME NEW s \in 1..Len(files), NEW k \in 1..Len(files[s].calls), Passed(s, k)',
               NEW f, f = Function(s, files[s].calls[k].function),
               NEW m, m = files[s].calls[k].method
        PROVE  SettledFor(f, m)'
    <3>1. /\ Len(files) \in Nat /\ Len(files[s].calls) \in Nat
          /\ file \in Nat /\ call \in Nat /\ phase = "link"
      BY FileTypes, SiteFacts DEF ResolveInv, ResolveTypes, AtCall
    <3>2. Passed(s, k) \/ (s = file /\ k = call)
      BY <2>1, <3>1 DEF Passed
    <3>3. CASE Passed(s, k)
      BY <1>3, <2>1, <3>3 DEF ResolveInv, SitesSettled
    <3>4. CASE s = file /\ k = call
      <4>1. f = from /\ m = method
        BY <2>1, <3>4 DEF Site
      <4> QED BY <4>1
    <3> QED BY <3>2, <3>3, <3>4
  <2> QED BY <2>1 DEF SitesSettled
<1> QED BY <1>1, <1>2, <1>4 DEF ResolveInv

\* One more edge.
LEMMA EdgeAdded ==
  ASSUME EdgesTyped, EdgesRight, NEW e \in EdgeSet, RightEdge(e),
         edges' = Append(edges, e), files' = files
  PROVE  /\ EdgesTyped' /\ EdgesRight'
         /\ \A f, m : Linked(f, m) => Linked(f, m)'
         /\ Linked(e.from, e.to.name)'
<1>1. /\ edges' \in Seq(EdgeSet)
      /\ Len(edges') = Len(edges) + 1 /\ Len(edges) \in Nat
      /\ \A k \in 1..Len(edges) : edges'[k] = edges[k]
      /\ edges'[Len(edges) + 1] = e
  BY AppendProperties, LenProperties DEF EdgesTyped
<1>2. EdgesTyped'
  BY <1>1, SameFiles DEF EdgesTyped
<1>3. ASSUME NEW k \in 1..Len(edges') PROVE RightEdge(edges'[k])
  <2>1. k \in 1..Len(edges) \/ k = Len(edges) + 1
    BY <1>1
  <2> QED BY <1>1, <2>1 DEF EdgesRight
<1>4. EdgesRight'
  BY <1>3, SameFiles DEF EdgesRight
<1>5. \A f, m : Linked(f, m) => Linked(f, m)'
  BY <1>1 DEF Linked
<1>6. Len(edges) + 1 \in 1..Len(edges')
  BY <1>1
<1>7. Linked(e.from, e.to.name)'
  BY <1>1, <1>6 DEF Linked
<1> QED BY <1>2, <1>4, <1>5, <1>7

\* One more call that is listed as unresolved.
LEMMA MentionAdded ==
  ASSUME ResolveInv, AtCall, NEW reason \in Reasons,
         unresolved' = Append(unresolved, Unresolved(reason)), edges' = edges, files' = files
  PROVE  /\ unresolved' \in Seq(UnresolvedSet) /\ EdgesTyped' /\ EdgesRight'
         /\ \A f, m : Linked(f, m) => Linked(f, m)'
         /\ \A f, m : Mentioned(f, m) => Mentioned(f, m)'
         /\ \A f, m : f = Function(file, Site.function) /\ m = Site.method => Mentioned(f, m)'
<1>1. PICK u : u = Unresolved(reason)
  OBVIOUS
<1>2. u \in UnresolvedSet /\ u.from = Function(file, Site.function) /\ u.method = Site.method
  BY <1>1, SiteFacts DEF Unresolved, UnresolvedSet, CallRecord
<1>3. unresolved \in Seq(UnresolvedSet) /\ unresolved' = Append(unresolved, u)
  BY <1>1 DEF ResolveInv, ResolveTypes
<1>4. /\ unresolved' \in Seq(UnresolvedSet)
      /\ Len(unresolved') = Len(unresolved) + 1 /\ Len(unresolved) \in Nat
      /\ \A k \in 1..Len(unresolved) : unresolved'[k] = unresolved[k]
      /\ unresolved'[Len(unresolved) + 1] = u
  BY <1>2, <1>3, AppendProperties, LenProperties
<1>5. \A f, m : Mentioned(f, m) => Mentioned(f, m)'
  BY <1>4 DEF Mentioned
<1>6. Len(unresolved) + 1 \in 1..Len(unresolved')
  BY <1>4
<1>7. \A f, m : f = u.from /\ m = u.method => Mentioned(f, m)'
  BY <1>4, <1>6 DEF Mentioned
<1>8. EdgesTyped' /\ EdgesRight' /\ \A f, m : Linked(f, m) => Linked(f, m)'
  <2>1. EdgesTyped' /\ EdgesRight'
    BY SameFiles DEF ResolveInv, ResolveTypes, EdgesTyped, EdgesRight
  <2> QED BY <2>1 DEF Linked
<1> QED BY <1>2, <1>4, <1>5, <1>7, <1>8

LEMMA LinkCallKeeps ==
  ASSUME ResolveInv, LinkCall
  PROVE  ResolveInv'
<1> DEFINE from == Function(file, Site.function)
           method == Site.method
           e == [from |-> from, to |-> Function(Min(Candidates), method)]
<1>1. /\ Candidates = Defining(method) /\ IsFiniteSet(Candidates) /\ Candidates \subseteq Nat
      /\ from \in FunctionSet /\ Site \in CallRecord /\ Site = files[file].calls[call]
      /\ file \in 1..Len(files) /\ call \in 1..Len(files[file].calls)
  BY SiteFacts DEF LinkCall
<1>2. PICK t : Candidates = {t}
  <2>1. Cardinality(Candidates) = 1
    BY DEF LinkCall
  <2> QED BY <1>1, <2>1, FS_Singleton
<1>3. t \in Nat /\ Min(Candidates) = t
  <2>1. t \in Nat /\ t \in Candidates /\ \A k \in Candidates : t <= k
    BY <1>1, <1>2
  <2>2. Candidates \subseteq Nat
    BY <1>1
  <2> QED BY <2>1, <2>2, MinIs
<1>4. t \in Defining(method) /\ files \in FileSets
  BY <1>1, <1>2 DEF ResolveInv, ResolveTypes
<1>5. Function(t, method) \in FunctionSet
  BY <1>4, NamedFunctions
<1>6. /\ e \in EdgeSet
      /\ e.from = from /\ e.to.name = method /\ e.to.source = t
      /\ e.from.source = file /\ e.from.name = Site.function
  <2>1. e = [from |-> from, to |-> Function(t, method)]
    BY <1>3
  <2>2. e \in EdgeSet /\ e.from = from /\ e.to = Function(t, method)
    BY <1>1, <1>5, <2>1 DEF EdgeSet
  <2> QED BY <2>2 DEF Function
<1>7. RightEdge(e)
  BY <1>1, <1>2, <1>6 DEF RightEdge
<1>8. edges' = Append(edges, e) /\ files' = files /\ unresolved' = unresolved
  BY DEF LinkCall
<1> HIDE DEF e
<1>9. PICK new : new = e
  OBVIOUS
<1>10. PICK g, m : g = from /\ m = method
  OBVIOUS
<1>11. /\ new \in EdgeSet /\ RightEdge(new) /\ edges' = Append(edges, new)
       /\ new.from = g /\ new.to.name = m
  BY <1>6, <1>7, <1>8, <1>9, <1>10
<1>12. /\ EdgesTyped' /\ EdgesRight'
       /\ \A f, x : Linked(f, x) => Linked(f, x)'
       /\ Linked(g, m)'
  <2>1. EdgesTyped /\ EdgesRight
    BY DEF ResolveInv, ResolveTypes
  <2>2. /\ EdgesTyped' /\ EdgesRight'
        /\ \A f, x : Linked(f, x) => Linked(f, x)'
        /\ Linked(new.from, new.to.name)'
    BY <1>8, <1>11, <2>1, EdgeAdded
  <2> QED BY <1>11, <2>2
<1>13. SettledFor(g, m)'
  <2>1. Defining(m)' = {t}
    BY <1>1, <1>2, <1>8, <1>10, SameFiles
  <2> QED BY <1>12, <2>1 DEF SettledFor
<1>14. \A f, x : Mentioned(f, x) => Mentioned(f, x)'
  BY <1>8 DEF Mentioned
<1>15. unresolved' \in Seq(UnresolvedSet)
  BY <1>8 DEF ResolveInv, ResolveTypes
<1> QED BY <1>10, <1>12, <1>13, <1>14, <1>15, SitePassed DEF LinkCall

\* A call that is listed, whatever its name may mean, unless it has one
\* meaning.
LEMMA MentionKeeps ==
  ASSUME ResolveInv, AtCall, NEW reason \in Reasons, Cardinality(Candidates) # 1,
         unresolved' = Append(unresolved, Unresolved(reason)), call' = call + 1,
         UNCHANGED <<files, phase, file, index, edges>>
  PROVE  ResolveInv'
<1>1. PICK g, m : g = Function(file, Site.function) /\ m = Site.method
  OBVIOUS
<1>2. /\ unresolved' \in Seq(UnresolvedSet) /\ EdgesTyped' /\ EdgesRight'
      /\ \A f, x : Linked(f, x) => Linked(f, x)'
      /\ \A f, x : Mentioned(f, x) => Mentioned(f, x)'
      /\ Mentioned(g, m)'
  BY <1>1, MentionAdded
<1>3. \A t : Defining(m) # {t}
  <2>1. Candidates = Defining(m)
    BY <1>1, SiteFacts
  <2> QED BY <2>1, FS_Singleton
<1>4. SettledFor(g, m)'
  BY <1>2, <1>3, SameFiles DEF SettledFor
<1> QED BY <1>1, <1>2, <1>4, SitePassed

LEMMA SkipNoiseKeeps ==
  ASSUME ResolveInv, SkipNoise
  PROVE  ResolveInv'
<1>1. PICK g, m : g = Function(file, Site.function) /\ m = Site.method
  OBVIOUS
<1>2. files' = files /\ edges' = edges /\ unresolved' = unresolved
  BY DEF SkipNoise
<1>3. /\ EdgesTyped' /\ EdgesRight'
      /\ \A f, x : Linked(f, x) => Linked(f, x)'
      /\ \A f, x : Mentioned(f, x) => Mentioned(f, x)'
  BY <1>2, SameLists DEF ResolveInv, ResolveTypes, Linked, Mentioned
<1>4. SettledFor(g, m)'
  <2>1. Defining(m) = {} /\ m \in NOISE_METHODS
    BY <1>1, SiteFacts DEF SkipNoise
  <2>2. Defining(m)' = {}
    BY <1>2, <2>1, SameFiles
  <2> QED BY <2>1, <2>2 DEF SettledFor
<1> QED BY <1>1, <1>3, <1>4, SitePassed DEF SkipNoise, ResolveInv, ResolveTypes

\* The steps that pass no call.
LEMMA SitesKept ==
  ASSUME ResolveInv, files' = files, edges' = edges, unresolved' = unresolved,
         ResolveTypes', IndexRight',
         \A s \in 1..Len(files) : \A k \in 1..Len(files[s].calls) :
           Passed(s, k)' => Passed(s, k)
  PROVE  ResolveInv'
<1>1. EdgesRight' /\ \A f, m : SettledFor(f, m) => SettledFor(f, m)'
  BY SameLists DEF ResolveInv
<1>2. SitesSettled'
  <2>1. ASSUME NEW s \in 1..Len(files), NEW k \in 1..Len(files[s].calls), Passed(s, k)',
               NEW f, f = Function(s, files[s].calls[k].function),
               NEW m, m = files[s].calls[k].method
        PROVE  SettledFor(f, m)'
    BY <1>1, <2>1 DEF ResolveInv, SitesSettled
  <2> QED BY <2>1 DEF SitesSettled
<1> QED BY <1>1, <1>2 DEF ResolveInv

LEMMA IndexFileKeeps ==
  ASSUME ResolveInv, IndexFile
  PROVE  ResolveInv'
<1>1. /\ files \in FileSets /\ phase = "index" /\ file \in 1..Len(files)
      /\ Len(files) \in Nat /\ index \in [ToSet(NameOrder) -> SUBSET (1..Len(files))]
  BY FileTypes DEF ResolveInv, ResolveTypes, IndexFile
<1>2. /\ files' = files /\ phase' = phase /\ file' = file + 1 /\ call' = call
      /\ edges' = edges /\ unresolved' = unresolved
      /\ index' = [name \in DOMAIN index |->
           IF name \in FunctionsIn(files[file].accesses)
           THEN index[name] \cup {file} ELSE index[name]]
  BY DEF IndexFile
<1>3. index' \in [ToSet(NameOrder) -> SUBSET (1..Len(files))]
  BY <1>1, <1>2
<1>4. EdgesTyped' /\ unresolved' \in Seq(UnresolvedSet')
  BY <1>2, SameFiles, SameLists DEF ResolveInv, ResolveTypes
<1>5. ResolveTypes'
  BY <1>1, <1>2, <1>3, <1>4 DEF ResolveInv, ResolveTypes
<1>6. IndexRight'
  <2>1. ASSUME NEW name \in ToSet(NameOrder)
        PROVE  index'[name] = {s \in Defining(name) : s <= file}
    <3>1. index[name] = {s \in Defining(name) : s <= file - 1}
      BY <1>1 DEF ResolveInv, IndexRight, Indexed
    <3>2. file \in Defining(name) <=> name \in FunctionsIn(files[file].accesses)
      BY <1>1 DEF Defining
    <3>3. Defining(name) \subseteq Nat /\ file \in Nat
      BY <1>1 DEF Defining
    <3>4. \A s \in Nat : s <= file <=> (s <= file - 1 \/ s = file)
      BY <3>3
    <3>5. index'[name] = IF file \in Defining(name)
                         THEN index[name] \cup {file} ELSE index[name]
      BY <1>1, <1>2, <3>2
    <3> QED BY <3>1, <3>3, <3>4, <3>5
  <2>2. Indexed' = file
    BY <1>1, <1>2 DEF Indexed
  <2>3. \A name : Defining(name)' = Defining(name)
    BY <1>2, SameFiles
  <2> QED BY <2>1, <2>2, <2>3 DEF IndexRight
<1>7. \A s, k : Passed(s, k)' => Passed(s, k)
  BY <1>1, <1>2 DEF Passed
<1> QED BY <1>2, <1>5, <1>6, <1>7, SitesKept

LEMMA StartLinkingKeeps ==
  ASSUME ResolveInv, StartLinking
  PROVE  ResolveInv'
<1>1. /\ files \in FileSets /\ phase = "index" /\ file = Len(files) + 1
      /\ Len(files) \in Nat /\ call \in Nat \ {0}
  BY FileTypes DEF ResolveInv, ResolveTypes, StartLinking
<1>2. /\ files' = files /\ phase' = "link" /\ file' = 1 /\ call' = call /\ index' = index
      /\ edges' = edges /\ unresolved' = unresolved
  BY DEF StartLinking
<1>3. EdgesTyped' /\ unresolved' \in Seq(UnresolvedSet')
  BY <1>2, SameFiles, SameLists DEF ResolveInv, ResolveTypes
<1>4. ResolveTypes'
  BY <1>1, <1>2, <1>3 DEF ResolveInv, ResolveTypes
<1>5. IndexRight'
  <2>1. Indexed' = Indexed
    BY <1>1, <1>2 DEF Indexed
  <2> QED BY <1>2, <2>1, SameFiles DEF ResolveInv, IndexRight
<1>6. ASSUME NEW s \in 1..Len(files), NEW k \in 1..Len(files[s].calls)
      PROVE  ~Passed(s, k)'
  <2>1. call = 1 /\ Len(files[s].calls) \in Nat
    BY <1>1, FileTypes DEF ResolveInv, ResolveTypes
  <2> QED BY <1>1, <1>2, <2>1 DEF Passed
<1> QED BY <1>2, <1>4, <1>5, <1>6, SitesKept

LEMMA NextFileKeeps ==
  ASSUME ResolveInv, NextFile
  PROVE  ResolveInv'
<1>1. /\ files \in FileSets /\ phase = "link" /\ file \in 1..Len(files)
      /\ Len(files) \in Nat /\ call \in Nat \ {0} /\ call > Len(files[file].calls)
  BY FileTypes DEF ResolveInv, ResolveTypes, NextFile
<1>2. /\ files' = files /\ phase' = phase /\ file' = file + 1 /\ call' = 1 /\ index' = index
      /\ edges' = edges /\ unresolved' = unresolved
  BY DEF NextFile
<1>3. EdgesTyped' /\ unresolved' \in Seq(UnresolvedSet')
  BY <1>2, SameFiles, SameLists DEF ResolveInv, ResolveTypes
<1>4. ResolveTypes'
  BY <1>1, <1>2, <1>3 DEF ResolveInv, ResolveTypes
<1>5. IndexRight'
  <2>1. Indexed' = Indexed
    BY <1>1, <1>2 DEF Indexed
  <2> QED BY <1>2, <2>1, SameFiles DEF ResolveInv, IndexRight
<1>6. ASSUME NEW s \in 1..Len(files), NEW k \in 1..Len(files[s].calls), Passed(s, k)'
      PROVE  Passed(s, k)
  <2>1. Len(files[s].calls) \in Nat
    BY <1>1, FileTypes
  <2>2. s < file \/ s = file
    BY <1>1, <1>2, <1>6, <2>1 DEF Passed
  <2> QED BY <1>1, <2>1, <2>2 DEF Passed
<1> QED BY <1>2, <1>4, <1>5, <1>6, SitesKept

LEMMA FinishLinkingKeeps ==
  ASSUME ResolveInv, FinishLinking
  PROVE  ResolveInv'
<1>1. /\ files \in FileSets /\ phase = "link" /\ file = Len(files) + 1
      /\ Len(files) \in Nat
  BY FileTypes DEF ResolveInv, ResolveTypes, FinishLinking
<1>2. /\ files' = files /\ phase' = "linked" /\ file' = file /\ call' = call /\ index' = index
      /\ edges' = edges /\ unresolved' = unresolved
  BY DEF FinishLinking
<1>3. EdgesTyped' /\ unresolved' \in Seq(UnresolvedSet')
  BY <1>2, SameFiles, SameLists DEF ResolveInv, ResolveTypes
<1>4. ResolveTypes'
  BY <1>1, <1>2, <1>3 DEF ResolveInv, ResolveTypes
<1>5. IndexRight'
  <2>1. Indexed' = Indexed
    BY <1>1, <1>2 DEF Indexed
  <2> QED BY <1>2, <2>1, SameFiles DEF ResolveInv, IndexRight
<1>6. \A s, k : Passed(s, k)' => Passed(s, k)
  BY <1>1, <1>2 DEF Passed
<1> QED BY <1>2, <1>4, <1>5, <1>6, SitesKept

LEMMA ResolveStutters ==
  ASSUME ResolveInv, UNCHANGED resolveVars
  PROVE  ResolveInv'
<1>1. /\ files' = files /\ phase' = phase /\ file' = file /\ call' = call /\ index' = index
      /\ edges' = edges /\ unresolved' = unresolved
  BY DEF resolveVars
<1>2. EdgesTyped' /\ unresolved' \in Seq(UnresolvedSet')
  BY <1>1, SameFiles, SameLists DEF ResolveInv, ResolveTypes
<1>3. ResolveTypes'
  BY <1>1, <1>2 DEF ResolveInv, ResolveTypes
<1>4. IndexRight'
  BY <1>1, SameFiles DEF ResolveInv, IndexRight, Indexed
<1>5. \A s, k : Passed(s, k)' => Passed(s, k)
  BY <1>1 DEF Passed
<1> QED BY <1>1, <1>3, <1>4, <1>5, SitesKept

LEMMA ResolveInvStep == ResolveInv /\ [AnalyzeNext]_analyzeVars => ResolveInv'
<1> SUFFICES ASSUME ResolveInv, [AnalyzeNext]_analyzeVars PROVE ResolveInv'
  OBVIOUS
<1>1. CASE IndexFile BY <1>1, IndexFileKeeps
<1>2. CASE StartLinking BY <1>2, StartLinkingKeeps
<1>3. CASE LinkCall BY <1>3, LinkCallKeeps
<1>4. CASE ReportAmbiguous
  <2>1. Cardinality(Candidates) # 1
    BY <1>4, SiteFacts, FS_CardinalityType DEF ReportAmbiguous
  <2>2. PICK reason \in Reasons : reason = "ambiguous"
    BY DEF Reasons
  <2> QED BY <1>4, <2>1, <2>2, MentionKeeps DEF ReportAmbiguous
<1>5. CASE SkipNoise BY <1>5, SkipNoiseKeeps
<1>6. CASE ReportMissing
  <2>1. Cardinality(Candidates) # 1
    <3>1. Candidates = {} /\ Cardinality({}) = 0
      BY <1>6, FS_EmptySet DEF ReportMissing
    <3> QED BY <3>1
  <2>2. PICK reason \in Reasons : reason = "no such function"
    BY DEF Reasons
  <2> QED BY <1>6, <2>1, <2>2, MentionKeeps DEF ReportMissing
<1>7. CASE NextFile BY <1>7, NextFileKeeps
<1>8. CASE FinishLinking BY <1>8, FinishLinkingKeeps
<1>9. CASE UNCHANGED resolveVars BY <1>9, ResolveStutters
<1> QED BY <1>1, <1>2, <1>3, <1>4, <1>5, <1>6, <1>7, <1>8, <1>9
        DEF AnalyzeNext, ResolveStep, ResolveNext, HandOver, EffectiveStep, analyzeVars

-----------------------------------------------------------------------------
(* The walk of the linked program.                                         *)

\* Until all calls are linked the walk has not begun; then it has the program.
HandInv == IF phase = "linked" THEN program = Program ELSE Idle

WalkedInv == phase = "linked" => WalkInv /\ ExactInv /\ ReportIsMemo

\* All calls are linked and the walk is given them.
LinkedProgram == phase = "linked" /\ ResolveInv /\ program = Program

\* The program is a function of the files and the edges.
LEMMA ProgramKept ==
  ASSUME files' = files, edges' = edges
  PROVE  Program' = Program
<1>1. Reported' = Reported
  BY DEF Reported, ReportedNames, FunctionsIn
<1>2. ReportOrder' = ReportOrder
  BY <1>1 DEF ReportOrder, Ranked
<1>3. \A f : OwnAccesses(f)' = OwnAccesses(f)
  BY DEF OwnAccesses
<1>4. \A f : EdgesFrom(f)' = EdgesFrom(f)
  BY DEF EdgesFrom, Ranked
<1> QED BY <1>2, <1>3, <1>4 DEF Program

\* What a function does itself is what its records say.
LEMMA OwnTypes ==
  ASSUME files \in FileSets, NEW f \in Reported
  PROVE  OwnAccesses(f) \subseteq Access
<1>1. f.source \in DOMAIN files
  BY ReportedFunctions, FileTypes DEF FunctionSet
<1>2. \A a \in ToSet(files[f.source].accesses) : <<a.kind, a.key>> \in Access
  BY <1>1, AccessAssumption
<1> QED BY <1>2 DEF OwnAccesses

\* The walk's assumption on its input.
LEMMA ProgramIsProgram ==
  ASSUME ResolveInv
  PROVE  IsProgram(Program)
<1> DEFINE n == Len(ReportOrder)
           Entry == [own: SUBSET Access, calls: Seq(1..n)]
<1>1. files \in FileSets /\ EdgesTyped /\ EdgesRight
  BY DEF ResolveInv, ResolveTypes
<1>2. n \in Nat /\ \A i \in 1..n : ReportOrder[i] \in Reported
  BY <1>1, OrderFacts
<1>3. ASSUME NEW i \in 1..n PROVE Program[i] \in Entry
  <2>1. /\ Program[i] = [own |-> Program[i].own, calls |-> Program[i].calls]
        /\ Program[i].own = OwnAccesses(ReportOrder[i])
        /\ Program[i].calls \in Seq(1..n)
    BY <1>1, ProgramShape
  <2>2. Program[i].own \in SUBSET Access
    BY <1>1, <1>2, <2>1, OwnTypes
  <2> QED BY <2>1, <2>2
<1>4. Program = [i \in 1..n |-> Program[i]]
  <2>1. DOMAIN Program = 1..n
    BY <1>1, ProgramShape
  <2> QED BY <2>1 DEF Program
<1>5. Program \in Seq(Entry) /\ Len(Program) = n
  BY <1>2, <1>3, <1>4, IsASeq, LenProperties
<1>6. ASSUME NEW i \in 1..n, NEW c \in ToSet(Program[i].calls)
      PROVE  Program[c].own # {}
  <2>1. PICK k \in 1..Len(edges) : c \in 1..n /\ edges[k].to = ReportOrder[c]
    BY <1>1, ProgramShape
  <2>2. PICK e \in EdgeSet : e = edges[k] /\ RightEdge(e)
    BY <1>1, ElementOfSeq DEF EdgesTyped, EdgesRight
  <2>3. e.to \in FunctionSet /\ e.to.source \in Defining(e.to.name)
    BY <2>2 DEF EdgeSet, RightEdge
  <2>4. OwnAccesses(e.to) # {}
    BY <1>1, <2>3, OwnByRecords
  <2> QED BY <1>1, <2>1, <2>2, <2>4, ProgramShape
<1>7. DOMAIN Program = 1..n
  BY <1>1, ProgramShape
<1> QED BY <1>5, <1>6, <1>7 DEF IsProgram

\* The invariant of the whole analysis.
AnalyzeInv == ResolveInv /\ HandInv /\ WalkedInv

LEMMA AnalyzeInitInv == AnalyzeInit => AnalyzeInv
<1> SUFFICES ASSUME AnalyzeInit PROVE AnalyzeInv
  OBVIOUS
<1>1. ResolveInv
  BY ResolveInitInv DEF AnalyzeInit
<1>2. phase = "index" /\ Idle
  BY DEF AnalyzeInit, ResolveInit, Idle
<1> QED BY <1>1, <1>2 DEF AnalyzeInv, HandInv, WalkedInv

LEMMA HandInvStep ==
  ASSUME AnalyzeInv, [AnalyzeNext]_analyzeVars
  PROVE  HandInv'
<1>1. CASE ResolveStep
  <2>1. phase # "linked" /\ phase' # "linked"
    BY <1>1 DEF ResolveStep, ResolveNext, IndexFile, StartLinking, LinkCall, ReportAmbiguous,
       SkipNoise, ReportMissing, NextFile, AtCall
  <2> QED BY <1>1, <2>1 DEF AnalyzeInv, HandInv, Idle, ResolveStep, vars
<1>2. CASE HandOver
  <2>1. phase' = "linked" /\ program' = Program /\ Program' = Program
    BY <1>2, ProgramKept DEF HandOver, FinishLinking
  <2> QED BY <2>1 DEF HandInv
<1>3. CASE EffectiveStep
  <2>1. program' = program /\ phase = "linked" /\ phase' = phase
    BY <1>3 DEF EffectiveStep, Next, ReportMemoized, EnterRoot, MemoHit, CycleCut, Descend,
       CompleteCall, CompleteRoot, resolveVars
  <2>2. Program' = Program
    BY <1>3, ProgramKept DEF EffectiveStep, resolveVars
  <2> QED BY <2>1, <2>2 DEF AnalyzeInv, HandInv
<1>4. CASE UNCHANGED analyzeVars
  <2>1. Program' = Program
    BY <1>4, ProgramKept DEF analyzeVars, resolveVars
  <2> QED BY <1>4, <2>1 DEF AnalyzeInv, HandInv, Idle, analyzeVars, resolveVars, vars
<1> QED BY <1>1, <1>2, <1>3, <1>4 DEF AnalyzeNext

\* The walk begins with a program of the right shape.
LEMMA HandOverBegins ==
  AnalyzeInv /\ HandOver => (IsProgram(program) /\ Idle /\ root = 1)'
<1> SUFFICES ASSUME AnalyzeInv, HandOver PROVE (IsProgram(program) /\ Idle /\ root = 1)'
  OBVIOUS
<1>1. phase = "link" /\ program' = Program
  BY DEF HandOver, FinishLinking
<1>2. Idle
  BY <1>1 DEF AnalyzeInv, HandInv
<1>3. IsProgram(Program)
  BY ProgramIsProgram DEF AnalyzeInv
<1>4. IsProgram(program)'
  BY <1>1, <1>3 DEF IsProgram
<1> QED BY <1>2, <1>4 DEF HandOver, Idle

LEMMA WalkStarts ==
  IsProgram(program) /\ Idle /\ root = 1 => WalkInv /\ ExactInv /\ ReportIsMemo
<1> SUFFICES ASSUME IsProgram(program), Idle, root = 1
             PROVE  WalkInv /\ ExactInv /\ ReportIsMemo
  OBVIOUS
<1>1. 1..(root - 1) = {}
  OBVIOUS
<1> QED BY <1>1, WalkBegins, ExactBegins DEF ReportIsMemo

LEMMA WalkedInvStep == AnalyzeInv /\ [AnalyzeNext]_analyzeVars => WalkedInv'
<1>1. AnalyzeInv /\ ResolveStep => WalkedInv'
  BY DEF WalkedInv, ResolveStep, ResolveNext, IndexFile, StartLinking, LinkCall,
     ReportAmbiguous, SkipNoise, ReportMissing, NextFile, AtCall
<1>2. AnalyzeInv /\ HandOver => WalkedInv'
  <2>1. WalkInv /\ ExactInv /\ ReportIsMemo => WalkedInv
    BY DEF WalkedInv
  <2> QED BY <2>1, HandOverBegins, WalkStarts, PTL
<1>3. AnalyzeInv /\ EffectiveStep => WalkedInv'
  <2>1. AnalyzeInv /\ EffectiveStep => WalkInv /\ ExactInv /\ ReportIsMemo /\ [Next]_vars
    BY DEF AnalyzeInv, WalkedInv, EffectiveStep
  <2>2. WalkInv /\ ExactInv /\ ReportIsMemo => WalkedInv
    BY DEF WalkedInv
  <2> QED BY <2>1, <2>2, WalkInvStep, ExactStep, ReportStep, PTL
<1>4. AnalyzeInv /\ UNCHANGED analyzeVars => WalkedInv'
  <2>1. UNCHANGED analyzeVars => phase' = phase /\ [Next]_vars
    BY DEF analyzeVars, resolveVars
  <2>2. AnalyzeInv => (phase = "linked" => WalkInv /\ ExactInv /\ ReportIsMemo)
    BY DEF AnalyzeInv, WalkedInv
  <2>3. WalkInv /\ ExactInv /\ ReportIsMemo /\ [Next]_vars
          => WalkInv' /\ ExactInv' /\ ReportIsMemo'
    BY WalkInvStep, ExactStep, ReportStep
  <2> QED BY <2>1, <2>2, <2>3 DEF WalkedInv
<1> QED BY <1>1, <1>2, <1>3, <1>4 DEF AnalyzeNext

LEMMA AnalyzeInvStep == AnalyzeInv /\ [AnalyzeNext]_analyzeVars => AnalyzeInv'
BY ResolveInvStep, HandInvStep, WalkedInvStep DEF AnalyzeInv

LEMMA AnalyzeInvariant == AnalyzeSpec => []AnalyzeInv
BY AnalyzeInitInv, AnalyzeInvStep, PTL DEF AnalyzeSpec

-----------------------------------------------------------------------------
(* What the reports say of the calls in the sources.                       *)

LEMMA LinkedFacts ==
  ASSUME LinkedProgram
  PROVE  /\ files \in FileSets /\ EdgesTyped /\ EdgesRight /\ IsProgram(program)
         /\ Len(program) = Len(ReportOrder) /\ Functions = 1..Len(ReportOrder)
         /\ \A i \in Functions :
              ReportOrder[i] \in Reported /\ Own(i) = OwnAccesses(ReportOrder[i])
         /\ \A f \in Reported :
              /\ Position(ReportOrder, f) \in Functions
              /\ ReportOrder[Position(ReportOrder, f)] = f
<1>1. files \in FileSets /\ EdgesTyped /\ EdgesRight /\ program = Program
  BY DEF LinkedProgram, ResolveInv, ResolveTypes
<1>2. IsProgram(program)
  BY <1>1, ProgramIsProgram DEF LinkedProgram
<1>3. Len(program) = Len(ReportOrder)
  <2>1. program \in Seq([own: SUBSET Access, calls: Seq(1..Len(program))])
    BY <1>2 DEF IsProgram
  <2>2. Len(program) \in Nat /\ DOMAIN program = 1..Len(program)
    BY <2>1, LenProperties
  <2>3. Len(ReportOrder) \in Nat /\ DOMAIN program = 1..Len(ReportOrder)
    BY <1>1, OrderFacts, ProgramShape
  <2> QED BY <2>2, <2>3
<1>4. Functions = 1..Len(ReportOrder)
  BY <1>3 DEF Functions
<1> QED BY <1>1, <1>2, <1>3, <1>4, OrderFacts, ProgramShape DEF Own

\* Every recorded call is settled.
LEMMA SiteSettled ==
  ASSUME LinkedProgram, NEW site \in CallSites
  PROVE  site.from \in Reported /\ SettledFor(site.from, site.method)
<1>1. files \in FileSets /\ phase = "linked" /\ SitesSettled /\ file = Len(files) + 1
  BY DEF LinkedProgram, ResolveInv, ResolveTypes
<1>2. PICK s \in DOMAIN files : \E c \in ToSet(files[s].calls) :
        site = [from |-> Function(s, c.function), method |-> c.method]
  BY DEF CallSites
<1>3. PICK c \in ToSet(files[s].calls) :
        site = [from |-> Function(s, c.function), method |-> c.method]
  BY <1>2
<1>4. s \in 1..Len(files) /\ Len(files) \in Nat /\ files[s].calls \in Seq(CallRecord)
  BY <1>1, FileTypes
<1>5. PICK k \in 1..Len(files[s].calls) : files[s].calls[k] = c
  BY <1>4, ToSetMember
<1>6. site.from = Function(s, c.function) /\ site.method = c.method
  BY <1>3
<1>7. Passed(s, k)
  BY <1>1, <1>4 DEF Passed
<1>8. SettledFor(Function(s, c.function), c.method)
  BY <1>1, <1>4, <1>5, <1>7 DEF SitesSettled
<1>9. c.function \in ReportedNames(s)
  BY DEF ReportedNames
<1>10. Function(s, c.function) \in Reported
  BY <1>1, <1>4, <1>9, ReportedFunctions
<1> QED BY <1>6, <1>8, <1>10

\* A resolved call was written where it starts, names what it leads to, and
\* the name means nothing else.
LEMMA EdgeOfSite ==
  ASSUME LinkedProgram, NEW k \in 1..Len(edges), NEW e, e = edges[k]
  PROVE  /\ e.from \in Reported /\ e.to \in Reported
         /\ [from |-> e.from, method |-> e.to.name] \in CallSites
         /\ e.to \in Named(e.to.name)
         /\ e.to = Function(e.to.source, e.to.name)
         /\ Defining(e.to.name) = {e.to.source}
<1>1. files \in FileSets /\ EdgesTyped /\ EdgesRight
  BY LinkedFacts
<1>2. e \in EdgeSet /\ RightEdge(e)
  BY <1>1, ElementOfSeq DEF EdgesTyped, EdgesRight
<1>3. /\ e.from \in FunctionSet /\ e.to \in FunctionSet
      /\ Defining(e.to.name) = {e.to.source}
  BY <1>2 DEF EdgeSet, RightEdge
<1>4. e.to = Function(e.to.source, e.to.name) /\ e.from = Function(e.from.source, e.from.name)
  BY <1>3 DEF FunctionSet, Function
<1>5. e.to \in Named(e.to.name) /\ e.to \in Reported
  BY <1>1, <1>3, <1>4, NamedFunctions
<1>6. PICK s : s = e.from.source
  OBVIOUS
<1>7. /\ s \in 1..Len(files) /\ DOMAIN files = 1..Len(files)
      /\ files[s].calls \in Seq(CallRecord)
  BY <1>1, <1>3, <1>6, FileTypes DEF FunctionSet
<1>8. PICK j \in 1..Len(files[s].calls) :
        files[s].calls[j].function = e.from.name /\ files[s].calls[j].method = e.to.name
  BY <1>2, <1>6 DEF RightEdge
<1>9. PICK c \in ToSet(files[s].calls) : c.function = e.from.name /\ c.method = e.to.name
  BY <1>7, <1>8, ToSetMember
<1>10. Function(s, c.function) = e.from
  BY <1>4, <1>6, <1>9
<1>11. [from |-> e.from, method |-> e.to.name] \in CallSites
  BY <1>7, <1>9, <1>10 DEF CallSites
<1>12. e.from \in Reported
  <2>1. c.function \in ReportedNames(s)
    BY DEF ReportedNames
  <2> QED BY <1>1, <1>7, <1>10, <2>1, ReportedFunctions
<1> QED BY <1>3, <1>4, <1>5, <1>11, <1>12

\* The calls of the program are calls of the sources, and the calls that are
\* linked are in the program.
LEMMA CallsFollowed ==
  ASSUME LinkedProgram, NEW i \in Functions
  PROVE  /\ \A c \in ToSet(Calls(i)) :
              /\ c \in Functions
              /\ \E site \in CallSites :
                   site.from = ReportOrder[i] /\ ReportOrder[c] \in Named(site.method)
         /\ \A k \in 1..Len(edges) : edges[k].from = ReportOrder[i] =>
              /\ Position(ReportOrder, edges[k].to) \in ToSet(Calls(i))
              /\ ReportOrder[Position(ReportOrder, edges[k].to)] = edges[k].to
<1>1. /\ files \in FileSets /\ EdgesTyped /\ EdgesRight /\ Functions = 1..Len(ReportOrder)
      /\ program = Program
  BY LinkedFacts DEF LinkedProgram
<1>2. Calls(i) = Program[i].calls
  BY <1>1 DEF Calls
<1>3. ASSUME NEW c \in ToSet(Calls(i))
      PROVE  /\ c \in Functions
             /\ \E site \in CallSites :
                  site.from = ReportOrder[i] /\ ReportOrder[c] \in Named(site.method)
  <2>1. PICK k \in 1..Len(edges) :
          c \in Functions /\ edges[k].from = ReportOrder[i] /\ edges[k].to = ReportOrder[c]
    <3>1. \A j \in 1..Len(ReportOrder) : \A d \in ToSet(Program[j].calls) :
            /\ d \in 1..Len(ReportOrder)
            /\ \E k \in 1..Len(edges) :
                 edges[k].from = ReportOrder[j] /\ edges[k].to = ReportOrder[d]
      BY <1>1, ProgramShape
    <3>2. i \in 1..Len(ReportOrder) /\ c \in ToSet(Program[i].calls)
      BY <1>1, <1>2
    <3> QED BY <1>1, <3>1, <3>2
  <2>2. PICK e : e = edges[k]
    OBVIOUS
  <2>3. PICK site \in CallSites : site = [from |-> e.from, method |-> e.to.name]
    BY <2>2, EdgeOfSite
  <2>4. site.from = e.from /\ e.to \in Named(site.method)
    BY <2>2, <2>3, EdgeOfSite
  <2> QED BY <2>1, <2>2, <2>4
<1>4. ASSUME NEW k \in 1..Len(edges), edges[k].from = ReportOrder[i]
      PROVE  /\ Position(ReportOrder, edges[k].to) \in ToSet(Calls(i))
             /\ ReportOrder[Position(ReportOrder, edges[k].to)] = edges[k].to
  <2>1. edges[k].to \in Reported
    BY EdgeOfSite
  <2> QED BY <1>1, <1>2, <1>4, <2>1, LinkedFacts, ProgramShape
<1> QED BY <1>3, <1>4

\* What a call site may mean, with accesses of its own.
LEMMA TargetsOfSite ==
  ASSUME LinkedProgram, NEW m, NEW t
  PROVE  Defining(m) = {t} <=> {f \in Named(m) : OwnAccesses(f) # {}} = {Function(t, m)}
<1> DEFINE T == {f \in Named(m) : OwnAccesses(f) # {}}
<1>1. files \in FileSets
  BY LinkedFacts
<1>2. \A s \in Defining(m) : Function(s, m) \in T
  BY <1>1, NamedFunctions
<1>3. \A f \in T : f = Function(f.source, m) /\ f.source \in Defining(m)
  BY <1>1, NamedFunctions
<1>4. \A a, b : Function(a, m) = Function(b, m) => a = b
  BY DEF Function
<1>5. \A a : Function(a, m).source = a
  BY DEF Function
<1> HIDE DEF T
<1>6. Defining(m) = {t} => T = {Function(t, m)}
  BY <1>2, <1>3
<1>7. T = {Function(t, m)} => Defining(m) = {t}
  BY <1>2, <1>3, <1>4, <1>5
<1> QED BY <1>6, <1>7 DEF T

LEMMA EdgesAreCalls ==
  ASSUME LinkedProgram
  PROVE  {<<e.from, e.to>> : e \in ToSet(edges)} =
           UNION {{<<ReportOrder[i], ReportOrder[c]>> : c \in ToSet(program[i].calls)} :
                    i \in DOMAIN program}
<1> DEFINE Left == {<<e.from, e.to>> : e \in ToSet(edges)}
           Row(i) == {<<ReportOrder[i], ReportOrder[c]>> : c \in ToSet(program[i].calls)}
           Right == UNION {Row(i) : i \in DOMAIN program}
<1>1. EdgesTyped /\ DOMAIN program = Functions
  <2>1. program \in Seq([own: SUBSET Access, calls: Seq(1..Len(program))])
    BY LinkedFacts DEF IsProgram
  <2> QED BY <2>1, LinkedFacts, LenProperties DEF Functions
<1>2. \A e : e \in ToSet(edges) <=> \E k \in 1..Len(edges) : edges[k] = e
  BY <1>1, ToSetMember DEF EdgesTyped
<1>3. ASSUME NEW e \in ToSet(edges) PROVE <<e.from, e.to>> \in Right
  <2>1. PICK k \in 1..Len(edges) : edges[k] = e
    BY <1>2
  <2>2. e.from \in Reported
    BY <2>1, EdgeOfSite
  <2>3. PICK i \in Functions : ReportOrder[i] = e.from
    BY <2>2, LinkedFacts
  <2>4. PICK c \in ToSet(Calls(i)) : ReportOrder[c] = e.to
    BY <2>1, <2>3, CallsFollowed
  <2>5. c \in ToSet(program[i].calls)
    BY DEF Calls
  <2>6. <<e.from, e.to>> \in Row(i)
    BY <2>3, <2>4, <2>5
  <2> QED BY <1>1, <2>6
<1>4. ASSUME NEW i \in Functions, NEW c \in ToSet(program[i].calls)
      PROVE  <<ReportOrder[i], ReportOrder[c]>> \in Left
  <2>1. program = Program /\ Functions = 1..Len(ReportOrder)
    BY LinkedFacts DEF LinkedProgram
  <2>2. \A j \in 1..Len(ReportOrder) : \A d \in ToSet(Program[j].calls) :
          \E k \in 1..Len(edges) :
            edges[k].from = ReportOrder[j] /\ edges[k].to = ReportOrder[d]
    BY LinkedFacts, ProgramShape
  <2>3. PICK k \in 1..Len(edges) :
          edges[k].from = ReportOrder[i] /\ edges[k].to = ReportOrder[c]
    BY <2>1, <2>2
  <2>4. edges[k] \in ToSet(edges)
    BY <1>2
  <2> QED BY <2>3, <2>4
<1>5. Left \subseteq Right
  BY <1>3
<1>6. Right \subseteq Left
  BY <1>1, <1>4
<1> QED BY <1>5, <1>6

\* A call is linked if and only if its name means one function with accesses.
LEMMA LinkedIfUnique ==
  ASSUME LinkedProgram, NEW site \in CallSites,
         NEW targets, targets = {f \in Named(site.method) : OwnAccesses(f) # {}}
  PROVE  (\E e \in ToSet(edges) : e.from = site.from /\ e.to.name = site.method)
           <=> Cardinality(targets) = 1
<1> DEFINE m == site.method
<1>1. files \in FileSets /\ EdgesTyped
  BY LinkedFacts
<1>2. IsFiniteSet(targets)
  <2>1. targets \subseteq Reported
    BY <1>1, NamedFunctions
  <2> QED BY <1>1, <2>1, ReportedFinite, FS_Subset
<1>3. \A e : e \in ToSet(edges) <=> \E k \in 1..Len(edges) : edges[k] = e
  BY <1>1, ToSetMember DEF EdgesTyped
<1>4. ASSUME NEW e \in ToSet(edges), e.from = site.from, e.to.name = m
      PROVE  Cardinality(targets) = 1
  <2>1. PICK k \in 1..Len(edges) : edges[k] = e
    BY <1>3
  <2>2. Defining(m) = {e.to.source}
    BY <1>4, <2>1, EdgeOfSite
  <2>3. PICK t : Defining(m) = {t}
    BY <2>2
  <2>4. targets = {Function(t, m)}
    BY <2>3, TargetsOfSite
  <2> QED BY <2>4, FS_Singleton
<1>5. ASSUME Cardinality(targets) = 1
      PROVE  \E e \in ToSet(edges) : e.from = site.from /\ e.to.name = m
  <2>1. PICK f : targets = {f}
    BY <1>2, <1>5, FS_Singleton
  <2>2. f = Function(f.source, m)
    <3>1. f \in Named(m) /\ OwnAccesses(f) # {}
      BY <2>1
    <3> QED BY <1>1, <3>1, NamedFunctions
  <2>3. PICK t : targets = {Function(t, m)}
    BY <2>1, <2>2
  <2>4. Defining(m) = {t}
    BY <2>3, TargetsOfSite
  <2>5. Linked(site.from, m)
    BY <2>4, SiteSettled DEF SettledFor
  <2> QED BY <1>3, <2>5 DEF Linked
<1> QED BY <1>4, <1>5

LEMMA WellFormed == LinkedProgram => ProgramWellFormed
<1> SUFFICES ASSUME LinkedProgram PROVE ProgramWellFormed
  OBVIOUS
<1>1. /\ files \in FileSets /\ IsProgram(program)
      /\ DOMAIN ReportOrder = 1..Len(ReportOrder)
  BY LinkedFacts, OrderFacts
<1>2. \A i, j \in DOMAIN ReportOrder : ReportOrder[i] = ReportOrder[j] => i = j
  BY <1>1, OrderFacts
<1>3. \A i \in DOMAIN program : \A c \in ToSet(program[i].calls) :
        c \in DOMAIN program /\ program[c].own # {}
  <2>1. DOMAIN program = Functions
    <3>1. program \in Seq([own: SUBSET Access, calls: Seq(1..Len(program))])
      BY <1>1 DEF IsProgram
    <3> QED BY <3>1, LenProperties DEF Functions
  <2>2. \A i \in Functions : \A c \in ToSet(program[i].calls) : c \in Functions
    BY CallsFollowed DEF Calls
  <2> QED BY <1>1, <2>1, <2>2 DEF IsProgram
<1>4. \A site \in CallSites :
        LET targets == {f \in Named(site.method) : OwnAccesses(f) # {}}
        IN (\E e \in ToSet(edges) : e.from = site.from /\ e.to.name = site.method)
             <=> Cardinality(targets) = 1
  BY LinkedIfUnique
<1> QED BY <1>2, <1>3, <1>4, EdgesAreCalls DEF ProgramWellFormed

LEMMA LinkedWhenHanded == AnalyzeInv /\ phase = "linked" => LinkedProgram
BY DEF AnalyzeInv, HandInv, LinkedProgram

\* For every set of files: the walk is given a program of the shape it relies
\* on, whose calls are exactly the calls of the sources that have one meaning.
THEOREM ProgramAlwaysWellFormed == AnalyzeSpec => []ProgramWellFormed
<1>1. AnalyzeInv => ProgramWellFormed
  <2>1. phase # "linked" => ProgramWellFormed
    BY DEF ProgramWellFormed, HandedOver
  <2> QED BY <2>1, LinkedWhenHanded, WellFormed
<1> QED BY <1>1, AnalyzeInvariant, PTL

\* Once the walk is over, every function has the memoised result as its entry.
LEMMA EntriesFilled ==
  ASSUME AnalyzeInv, Analyzed, NEW f \in Reported
  PROVE  /\ LinkedProgram /\ WalkInv /\ ExactInv
         /\ Position(ReportOrder, f) \in Functions
         /\ ReportOrder[Position(ReportOrder, f)] = f
         /\ Position(ReportOrder, f) \in DOMAIN memo
         /\ EffectiveOf(f) = memo[Position(ReportOrder, f)]
<1>1. LinkedProgram
  BY LinkedWhenHanded DEF Analyzed
<1>2. WalkInv /\ ExactInv /\ ReportIsMemo
  BY DEF Analyzed, AnalyzeInv, WalkedInv
<1>3. PICK r : r = Position(ReportOrder, f)
  OBVIOUS
<1>4. r \in Functions /\ ReportOrder[r] = f /\ Functions = 1..Len(program)
  BY <1>1, <1>3, LinkedFacts
<1>5. r \in 1..(root - 1)
  <2>1. root \in Nat /\ Len(program) \in Nat /\ root > Len(program)
    BY <1>2, WalkFacts, ProgramTypes DEF Analyzed
  <2> QED BY <1>4, <2>1
<1>6. r \in DOMAIN memo /\ effective[r] = memo[r]
  BY <1>2, <1>5 DEF ReportIsMemo
<1> QED BY <1>1, <1>2, <1>3, <1>4, <1>6 DEF EffectiveOf

LEMMA NothingMissed ==
  ASSUME AnalyzeInv, Analyzed, NEW site \in CallSites
  PROVE  \/ Listed(site)
         \/ /\ \E f \in Named(site.method) : OwnAccesses(f) # {}
            /\ \A f \in Named(site.method) : OwnAccesses(f) \subseteq EffectiveOf(site.from)
         \/ /\ site.method \in NOISE_METHODS
            /\ \A f \in Named(site.method) : OwnAccesses(f) = {}
<1> DEFINE m == site.method
<1>1. LinkedProgram /\ files \in FileSets
  BY LinkedWhenHanded, LinkedFacts DEF Analyzed
<1>2. site.from \in Reported /\ SettledFor(site.from, m)
  BY <1>1, SiteSettled
<1>3. CASE Mentioned(site.from, m)
  <2>1. unresolved \in Seq(UnresolvedSet)
    BY <1>1 DEF LinkedProgram, ResolveInv, ResolveTypes
  <2>2. \A k \in 1..Len(unresolved) : unresolved[k] \in ToSet(unresolved)
    BY <2>1, ToSetMember
  <2> QED BY <1>3, <2>2 DEF Mentioned, Listed
<1>4. CASE m \in NOISE_METHODS /\ Defining(m) = {}
  <2>1. \A f \in Named(m) : OwnAccesses(f) = {}
    BY <1>1, <1>4, NamedFunctions
  <2> QED BY <1>4, <2>1
<1>5. ASSUME NEW t, Defining(m) = {t}
      PROVE  /\ \E f \in Named(m) : OwnAccesses(f) # {}
             /\ \A f \in Named(m) : OwnAccesses(f) \subseteq EffectiveOf(site.from)
  <2>1. {f \in Named(m) : OwnAccesses(f) # {}} = {Function(t, m)}
    BY <1>1, <1>5, TargetsOfSite
  <2>2. PICK k \in 1..Len(edges) : edges[k].from = site.from /\ edges[k].to.name = m
    BY <1>2, <1>5 DEF SettledFor, Linked
  <2>3. PICK e : e = edges[k]
    OBVIOUS
  <2>4. e.to = Function(t, m) /\ e.to \in Reported
    <3>1. e.to = Function(e.to.source, m) /\ Defining(m) = {e.to.source} /\ e.to \in Reported
      BY <1>1, <2>2, <2>3, EdgeOfSite
    <3> QED BY <1>5, <3>1
  <2>5. PICK i : i = Position(ReportOrder, site.from)
    OBVIOUS
  <2>6. /\ i \in Functions /\ ReportOrder[i] = site.from /\ WalkInv
        /\ i \in DOMAIN memo /\ EffectiveOf(site.from) = memo[i]
    BY <1>2, <2>5, EntriesFilled
  <2>7. PICK c \in ToSet(Calls(i)) : c \in Functions /\ ReportOrder[c] = e.to
    BY <1>1, <2>2, <2>3, <2>6, CallsFollowed
  <2>8. Own(c) \subseteq memo[i]
    BY <2>6, <2>7 DEF WalkInv, MemoSound
  <2>9. Own(c) = OwnAccesses(Function(t, m))
    BY <1>1, <2>4, <2>7, LinkedFacts
  <2>10. OwnAccesses(Function(t, m)) \subseteq EffectiveOf(site.from)
    BY <2>6, <2>8, <2>9
  <2>11. \A f \in Named(m) : OwnAccesses(f) = {} \/ f = Function(t, m)
    BY <2>1
  <2> QED BY <2>1, <2>10, <2>11
<1> QED BY <1>2, <1>3, <1>4, <1>5 DEF SettledFor

\* For every set of files: a call whose callee touches storage is listed as
\* unresolved, or its caller's report entry holds what the callee does.
THEOREM NoAccessEverMissed == AnalyzeSpec => []NoAccessMissedSilently
<1>1. AnalyzeInv => NoAccessMissedSilently
  BY NothingMissed DEF NoAccessMissedSilently
<1> QED BY <1>1, AnalyzeInvariant, PTL

-----------------------------------------------------------------------------
\* What may run is closed under the calls in the sources, and in every closed
\* set of functions with the function that is run.
LEMMA MayRunFacts ==
  ASSUME files \in FileSets, NEW f \in Reported
  PROVE  /\ f \in MayRun(f) /\ MayRun(f) \subseteq Reported
         /\ FollowsCalls(MayRun(f))
         /\ \A S \in SUBSET Reported : f \in S /\ FollowsCalls(S) => MayRun(f) \subseteq S
         /\ \A g \in MayRun(f) : MayRun(g) \subseteq MayRun(f)
<1>1. f \in MayRun(f) /\ MayRun(f) \subseteq Reported
  BY DEF MayRun
<1>2. \A S \in SUBSET Reported : f \in S /\ FollowsCalls(S) => MayRun(f) \subseteq S
  BY DEF MayRun
<1>3. FollowsCalls(MayRun(f))
  <2> SUFFICES ASSUME NEW site \in CallSites, site.from \in MayRun(f),
                      NEW g \in Named(site.method)
               PROVE  g \in MayRun(f)
    BY DEF FollowsCalls
  <2>1. g \in Reported
    BY NamedFunctions
  <2>2. ASSUME NEW S \in SUBSET Reported, f \in S, FollowsCalls(S) PROVE g \in S
    <3>1. site.from \in S
      BY <1>2, <2>2
    <3> QED BY <2>2, <3>1 DEF FollowsCalls
  <2> QED BY <2>1, <2>2 DEF MayRun
<1>4. ASSUME NEW g \in MayRun(f) PROVE MayRun(g) \subseteq MayRun(f)
  BY <1>1, <1>3 DEF MayRun
<1> QED BY <1>1, <1>2, <1>3, <1>4

\* What the walk reaches may run.
LEMMA ReachRuns ==
  ASSUME LinkedProgram, NEW i \in Functions, NEW j \in Reach(i)
  PROVE  j \in Functions /\ ReportOrder[j] \in MayRun(ReportOrder[i])
<1> DEFINE f == ReportOrder[i]
           S == {k \in Functions : ReportOrder[k] \in MayRun(f)}
<1>1. files \in FileSets /\ IsProgram(program) /\ f \in Reported
  BY LinkedFacts
<1>2. /\ f \in MayRun(f) /\ FollowsCalls(MayRun(f))
  BY <1>1, MayRunFacts
<1>3. Closed(S)
  <2> SUFFICES ASSUME NEW k \in S, NEW c \in ToSet(Calls(k)) PROVE c \in S
    BY DEF Closed
  <2>1. PICK site \in CallSites :
          /\ c \in Functions
          /\ site.from = ReportOrder[k] /\ ReportOrder[c] \in Named(site.method)
    BY CallsFollowed
  <2> QED BY <1>2, <2>1 DEF FollowsCalls
<1>4. i \in S /\ S \in SUBSET Functions
  BY <1>2
<1>5. Reach(i) \subseteq S
  BY <1>1, <1>3, <1>4, ReachFacts
<1> QED BY <1>5

\* The calls of a function all mean functions with accesses, and are linked.
Resolved(g) ==
  \A site \in CallSites : site.from = g =>
    /\ ~Listed(site)
    /\ Named(site.method) # {}
    /\ \A h \in Named(site.method) : OwnAccesses(h) # {}

\* A function whose calls are resolved calls in the program all it names.
LEMMA ResolvedCalls ==
  ASSUME LinkedProgram, NEW i \in Functions, Resolved(ReportOrder[i]),
         NEW site \in CallSites, site.from = ReportOrder[i], NEW h \in Named(site.method)
  PROVE  Position(ReportOrder, h) \in ToSet(Calls(i))
<1> DEFINE m == site.method
<1>1. files \in FileSets /\ SettledFor(site.from, m)
  BY LinkedFacts, SiteSettled
<1>2. ~Listed(site) /\ \A g \in Named(m) : OwnAccesses(g) # {}
  BY DEF Resolved
<1>3. h = Function(h.source, m) /\ h.source \in Defining(m)
  BY <1>1, <1>2, NamedFunctions
<1>4. ~Mentioned(site.from, m)
  <2>1. unresolved \in Seq(UnresolvedSet)
    BY DEF LinkedProgram, ResolveInv, ResolveTypes
  <2>2. \A k \in 1..Len(unresolved) : unresolved[k] \in ToSet(unresolved)
    BY <2>1, ToSetMember
  <2> QED BY <1>2, <2>2 DEF Mentioned, Listed
<1>5. PICK t : Defining(m) = {t}
  BY <1>1, <1>3, <1>4 DEF SettledFor
<1>6. h = Function(t, m)
  BY <1>3, <1>5
<1>7. PICK k \in 1..Len(edges) : edges[k].from = site.from /\ edges[k].to.name = m
  BY <1>1, <1>5 DEF SettledFor, Linked
<1>8. edges[k].to = h
  <2>1. PICK e : e = edges[k]
    OBVIOUS
  <2>2. e.to = Function(e.to.source, m) /\ Defining(m) = {e.to.source}
    BY <1>7, <2>1, EdgeOfSite
  <2> QED BY <1>5, <1>6, <2>1, <2>2
<1> QED BY <1>7, <1>8, CallsFollowed

\* Where all that may run is resolved, the walk reaches exactly what may run.
LEMMA RunsReached ==
  ASSUME LinkedProgram, NEW f \in Reported, \A g \in MayRun(f) : Resolved(g),
         NEW g \in MayRun(f)
  PROVE  Position(ReportOrder, g) \in Reach(Position(ReportOrder, f))
<1> DEFINE i == Position(ReportOrder, f)
           M == MayRun(f)
           T == {h \in M : Position(ReportOrder, h) \in Reach(i)}
<1>1. files \in FileSets /\ IsProgram(program) /\ i \in Functions
  BY LinkedFacts
<1>2. f \in M /\ M \subseteq Reported /\ FollowsCalls(M)
  BY <1>1, MayRunFacts
<1>3. i \in Reach(i) /\ Closed(Reach(i)) /\ Reach(i) \subseteq Functions
  BY <1>1, ReachFacts
<1>4. FollowsCalls(T)
  <2> SUFFICES ASSUME NEW site \in CallSites, site.from \in T, NEW h \in Named(site.method)
               PROVE  h \in T
    BY DEF FollowsCalls
  <2>1. PICK k : k = Position(ReportOrder, site.from)
    OBVIOUS
  <2>2. k \in Functions /\ ReportOrder[k] = site.from /\ k \in Reach(i)
    BY <1>2, <2>1, LinkedFacts
  <2>3. Resolved(ReportOrder[k])
    BY <2>2
  <2>4. Position(ReportOrder, h) \in ToSet(Calls(k))
    BY <2>2, <2>3, ResolvedCalls
  <2>5. Position(ReportOrder, h) \in Reach(i)
    BY <1>3, <2>2, <2>4 DEF Closed
  <2>6. h \in M
    BY <1>2 DEF FollowsCalls
  <2> QED BY <2>5, <2>6
<1>5. f \in T /\ T \in SUBSET Reported
  BY <1>2, <1>3
<1>6. M \subseteq T
  BY <1>1, <1>4, <1>5, MayRunFacts
<1> QED BY <1>6

\* A cycle of calls in the program is recursion in the sources.
LEMMA CycleRecurses ==
  ASSUME LinkedProgram, NEW i \in Functions, OnCycle(i)
  PROVE  Recursive(ReportOrder[i])
<1>1. PICK c \in ToSet(Calls(i)) : i \in Reach(c)
  BY DEF OnCycle
<1>2. PICK site \in CallSites :
        /\ c \in Functions
        /\ site.from = ReportOrder[i] /\ ReportOrder[c] \in Named(site.method)
  BY CallsFollowed
<1>3. ReportOrder[i] \in MayRun(ReportOrder[c])
  BY <1>1, <1>2, ReachRuns
<1> QED BY <1>2, <1>3 DEF Recursive

LEMMA ResolvedExact ==
  ASSUME AnalyzeInv, Analyzed, NEW f \in Reported,
         \A g \in MayRun(f) : ~Recursive(g) /\ Resolved(g)
  PROVE  EffectiveOf(f) = UNION {OwnAccesses(g) : g \in MayRun(f)}
<1> DEFINE i == Position(ReportOrder, f)
<1>1. /\ LinkedProgram /\ WalkInv /\ ExactInv
      /\ i \in Functions /\ ReportOrder[i] = f /\ i \in DOMAIN memo
      /\ EffectiveOf(f) = memo[i]
  BY EntriesFilled
<1>2. files \in FileSets /\ IsProgram(program)
  BY <1>1, LinkedFacts
<1>3. \A j \in Reach(i) : j \in Functions /\ ReportOrder[j] \in MayRun(f)
  BY <1>1, ReachRuns
<1>4. Acyclic(i)
  BY <1>1, <1>3, CycleRecurses DEF Acyclic
<1>5. memo[i] = Promised(i)
  BY <1>1, <1>4, ExactMemo
<1>6. \A g \in MayRun(f) :
        Position(ReportOrder, g) \in Reach(i) /\ Own(Position(ReportOrder, g)) = OwnAccesses(g)
  <2>1. MayRun(f) \subseteq Reported
    BY <1>2, MayRunFacts
  <2>2. \A g \in Reported : Own(Position(ReportOrder, g)) = OwnAccesses(g)
    BY <1>1, LinkedFacts
  <2> QED BY <1>1, <2>1, <2>2, RunsReached
<1>7. \A j \in Reach(i) : Own(j) = OwnAccesses(ReportOrder[j])
  BY <1>1, <1>3, LinkedFacts
<1> HIDE DEF i
<1>8. Promised(i) \subseteq UNION {OwnAccesses(g) : g \in MayRun(f)}
  BY <1>3, <1>7 DEF Promised
<1>9. UNION {OwnAccesses(g) : g \in MayRun(f)} \subseteq Promised(i)
  BY <1>6 DEF Promised
<1> QED BY <1>1, <1>5, <1>8, <1>9

\* For every set of files: where nothing that may run is unresolved, without
\* accesses or recursive, a function's report entry holds exactly the accesses
\* of all that may run, by the names written in the sources.
THEOREM ExactWhereAllResolved == AnalyzeSpec => []ExactWhereResolved
<1>1. AnalyzeInv => ExactWhereResolved
  BY ResolvedExact DEF ExactWhereResolved, Resolved
<1> QED BY <1>1, AnalyzeInvariant, PTL

-----------------------------------------------------------------------------
(* The sums of diff.                                                       *)

Kinds == {"reads", "writes"}
DetectorNames == {"global_static_write", "write_in_loop", "read_modify_write", "duplicate_read"}

\* A report lists finitely many functions, keys and findings.
FiniteReport(told) ==
  /\ IsFiniteSet(DOMAIN told.functions)
  /\ \A name \in DOMAIN told.functions : \A kind \in Kinds :
       IsFiniteSet(told.functions[name][kind])
  /\ \A d \in DetectorNames : FindingCounts(told.detectors)[d] \in Nat

FiniteReports(reports) ==
  IsFiniteSet(DOMAIN reports) /\ \A r \in DOMAIN reports : FiniteReport(reports[r])

\* The files in which a name is reported, and the keys listed there.
Where(reports, name) == {r \in DOMAIN reports : name \in DOMAIN reports[r].functions}
KeysByFile(reports, kind, name) ==
  Tagged([r \in DOMAIN reports |-> reports[r].functions[name][kind]], Where(reports, name))
ByName(reports, kind, N) == [name \in N |-> KeysByFile(reports, kind, name)]

\* The names a report has, and the keys listed for each.
KeysByName(reports, kind, r) ==
  Tagged([name \in DOMAIN reports[r].functions |-> reports[r].functions[name][kind]],
         DOMAIN reports[r].functions)
ByFile(reports, kind) == [r \in DOMAIN reports |-> KeysByName(reports, kind, r)]

LEMMA TaggedMember ==
  ASSUME NEW A, NEW D, NEW e
  PROVE  e \in Tagged(A, D) <=> \E i \in D : \E a \in A[i] : e = <<i, a>>
BY DEF Tagged

\* What a function has as values, and what its values hold, on a finite set.
LEMMA ImageFinite ==
  ASSUME NEW D, IsFiniteSet(D), NEW A
  PROVE  IsFiniteSet({A[i] : i \in D})
<1> DEFINE T == {A[i] : i \in D}
           f == [i \in D |-> A[i]]
<1>1. f \in [D -> T] /\ \A t \in T : \E i \in D : f[i] = t
  OBVIOUS
<1> HIDE DEF f, T
<1>2. f \in Surjection(D, T)
  BY <1>1 DEF Surjection
<1>3. IsFiniteSet(T)
  BY <1>2, FS_Surjection
<1> QED BY <1>3 DEF T

LEMMA UnionFinite ==
  ASSUME NEW D, IsFiniteSet(D), NEW A, \A i \in D : IsFiniteSet(A[i])
  PROVE  IsFiniteSet(UNION {A[i] : i \in D})
<1> DEFINE T == {A[i] : i \in D}
<1>1. IsFiniteSet(T) /\ \A t \in T : IsFiniteSet(t)
  BY ImageFinite
<1> HIDE DEF T
<1>2. IsFiniteSet(UNION T)
  BY <1>1, FS_UNION
<1> QED BY <1>2 DEF T

LEMMA ByNameFinite ==
  ASSUME NEW reports, FiniteReports(reports), NEW kind \in Kinds, NEW name
  PROVE  /\ IsFiniteSet(Where(reports, name))
         /\ \A r \in Where(reports, name) : IsFiniteSet(reports[r].functions[name][kind])
         /\ IsFiniteSet(KeysByFile(reports, kind, name))
<1> DEFINE W == Where(reports, name)
           A == [r \in DOMAIN reports |-> reports[r].functions[name][kind]]
<1>1. W \subseteq DOMAIN reports /\ IsFiniteSet(DOMAIN reports)
  BY DEF Where, FiniteReports
<1>2. IsFiniteSet(W)
  BY <1>1, FS_Subset
<1>3. ASSUME NEW r \in W PROVE IsFiniteSet(reports[r].functions[name][kind])
  <2>1. FiniteReport(reports[r]) /\ name \in DOMAIN reports[r].functions
    BY DEF Where, FiniteReports
  <2> QED BY <2>1 DEF FiniteReport
<1>4. \A r \in W : IsFiniteSet(A[r])
  BY <1>1, <1>3
<1> HIDE DEF A, W
<1>5. IsFiniteSet(Tagged(A, W))
  BY <1>2, <1>4, TaggedFinite
<1> QED BY <1>2, <1>3, <1>5 DEF KeysByFile, A, W

LEMMA ByFileFinite ==
  ASSUME NEW reports, FiniteReports(reports), NEW kind \in Kinds, NEW r \in DOMAIN reports
  PROVE  /\ IsFiniteSet(DOMAIN reports[r].functions)
         /\ \A name \in DOMAIN reports[r].functions :
              IsFiniteSet(reports[r].functions[name][kind])
         /\ IsFiniteSet(KeysByName(reports, kind, r))
<1> DEFINE D == DOMAIN reports[r].functions
           A == [name \in D |-> reports[r].functions[name][kind]]
<1>1. FiniteReport(reports[r])
  BY DEF FiniteReports
<1>2. IsFiniteSet(D) /\ \A name \in D : IsFiniteSet(reports[r].functions[name][kind])
  BY <1>1 DEF FiniteReport
<1>3. \A name \in D : IsFiniteSet(A[name])
  BY <1>2
<1> HIDE DEF A, D
<1>4. IsFiniteSet(Tagged(A, D))
  BY <1>2, <1>3, TaggedFinite
<1> QED BY <1>2, <1>4 DEF KeysByName, A, D

\* The keys listed by file and by name are the same keys.
LEMMA SameKeys ==
  ASSUME NEW reports, FiniteReports(reports), NEW kind \in Kinds,
         NEW N, \A r \in DOMAIN reports : DOMAIN reports[r].functions \subseteq N
  PROVE  Cardinality(Tagged(ByFile(reports, kind), DOMAIN reports))
           = Cardinality(Tagged(ByName(reports, kind, N), N))
<1> DEFINE F == Tagged(ByFile(reports, kind), DOMAIN reports)
           G == Tagged(ByName(reports, kind, N), N)
           swap == [e \in F |-> <<e[2][1], <<e[1], e[2][2]>>>>]
<1>1. \A e : e \in F <=>
        \E r \in DOMAIN reports : \E name \in DOMAIN reports[r].functions :
          \E key \in reports[r].functions[name][kind] : e = <<r, <<name, key>>>>
  <2>1. \A e : e \in F <=>
          \E r \in DOMAIN reports : \E a \in KeysByName(reports, kind, r) : e = <<r, a>>
    BY DEF Tagged, ByFile
  <2>2. \A r \in DOMAIN reports : \A a : a \in KeysByName(reports, kind, r) <=>
          \E name \in DOMAIN reports[r].functions :
            \E key \in reports[r].functions[name][kind] : a = <<name, key>>
    <3> SUFFICES ASSUME NEW r \in DOMAIN reports, NEW a
                 PROVE  a \in KeysByName(reports, kind, r) <=>
                          \E name \in DOMAIN reports[r].functions :
                            \E key \in reports[r].functions[name][kind] : a = <<name, key>>
      OBVIOUS
    <3> DEFINE D == DOMAIN reports[r].functions
               A == [name \in D |-> reports[r].functions[name][kind]]
    <3>1. a \in KeysByName(reports, kind, r) <=> \E name \in D : \E key \in A[name] : a = <<name, key>>
      BY TaggedMember DEF KeysByName
    <3>2. \A name \in D : A[name] = reports[r].functions[name][kind]
      OBVIOUS
    <3> HIDE DEF A
    <3> QED BY <3>1, <3>2
  <2> HIDE DEF F
  <2> QED BY <2>1, <2>2
<1>2. \A e : e \in G <=>
        \E name \in N : \E r \in Where(reports, name) :
          \E key \in reports[r].functions[name][kind] : e = <<name, <<r, key>>>>
  BY DEF Tagged, ByName, KeysByFile, Where
<1> HIDE DEF F, G
<1>3. \A e \in F : swap[e] \in G
  <2> SUFFICES ASSUME NEW e \in F PROVE swap[e] \in G
    OBVIOUS
  <2>1. PICK r \in DOMAIN reports : \E name \in DOMAIN reports[r].functions :
          \E key \in reports[r].functions[name][kind] : e = <<r, <<name, key>>>>
    BY <1>1
  <2>0. PICK name \in DOMAIN reports[r].functions :
          \E key \in reports[r].functions[name][kind] : e = <<r, <<name, key>>>>
    BY <2>1
  <2>2. PICK key \in reports[r].functions[name][kind] : e = <<r, <<name, key>>>>
    BY <2>0
  <2>3. swap[e] = <<name, <<r, key>>>>
    BY <2>2
  <2>4. name \in N /\ r \in Where(reports, name)
    BY DEF Where
  <2> QED BY <1>2, <2>3, <2>4
<1>4. \A d, e \in F : swap[d] = swap[e] => d = e
  <2> SUFFICES ASSUME NEW d \in F, NEW e \in F, swap[d] = swap[e] PROVE d = e
    OBVIOUS
  <2>1. PICK a, b, c : d = <<a, <<b, c>>>>
    BY <1>1
  <2>2. PICK x, y, z : e = <<x, <<y, z>>>>
    BY <1>1
  <2>3. swap[d] = <<b, <<a, c>>>> /\ swap[e] = <<y, <<x, z>>>>
    BY <2>1, <2>2
  <2>4. <<b, <<a, c>>>> = <<y, <<x, z>>>>
    BY <2>3
  <2> HIDE DEF swap
  <2> QED BY <2>1, <2>2, <2>4
<1>5. \A g \in G : \E e \in F : swap[e] = g
  <2> SUFFICES ASSUME NEW g \in G PROVE \E e \in F : swap[e] = g
    OBVIOUS
  <2>1. PICK name \in N : \E r \in Where(reports, name) :
          \E key \in reports[r].functions[name][kind] : g = <<name, <<r, key>>>>
    BY <1>2
  <2>0. PICK r \in Where(reports, name) :
          \E key \in reports[r].functions[name][kind] : g = <<name, <<r, key>>>>
    BY <2>1
  <2>2. PICK key \in reports[r].functions[name][kind] : g = <<name, <<r, key>>>>
    BY <2>0
  <2>3. r \in DOMAIN reports /\ name \in DOMAIN reports[r].functions
    BY DEF Where
  <2>4. <<r, <<name, key>>>> \in F
    BY <1>1, <2>3
  <2>5. swap[<<r, <<name, key>>>>] = <<name, <<r, key>>>>
    BY <2>4
  <2> QED BY <2>2, <2>4, <2>5
<1>6. swap \in [F -> G]
  BY <1>3
<1> HIDE DEF swap
<1>7. swap \in Bijection(F, G)
  BY <1>4, <1>5, <1>6 DEF Bijection, Injection, IsInjective, Surjection
<1>8. IsFiniteSet(F)
  <2>1. \A r \in DOMAIN reports : IsFiniteSet(ByFile(reports, kind)[r])
    BY ByFileFinite DEF ByFile
  <2>2. IsFiniteSet(DOMAIN reports)
    BY DEF FiniteReports
  <2> QED BY <2>1, <2>2, TaggedFinite DEF F
<1>9. ExistsBijection(F, G)
  BY <1>7 DEF ExistsBijection
<1> QED BY <1>8, <1>9, FS_Bijection DEF F, G

\* The figures of one name are the number of keys listed for it in all files.
LEMMA MetricCounts ==
  ASSUME NEW reports, FiniteReports(reports), NEW kind \in Kinds, NEW name
  PROVE  MetricOf(PerFunctionMetrics(reports), name)[kind]
           = Cardinality(KeysByFile(reports, kind, name))
<1> DEFINE W == Where(reports, name)
           Names == UNION {DOMAIN reports[r].functions : r \in DOMAIN reports}
           A == [r \in DOMAIN reports |-> reports[r].functions[name][kind]]
           sizes == [r \in W |-> Cardinality(reports[r].functions[name][kind])]
<1>1. CASE name \notin Names
  <2>1. W = {}
    BY <1>1 DEF Where
  <2>2. KeysByFile(reports, kind, name) = {}
    BY <2>1 DEF KeysByFile, Tagged
  <2>3. DOMAIN PerFunctionMetrics(reports) = Names
    BY DEF PerFunctionMetrics
  <2>4. MetricOf(PerFunctionMetrics(reports), name) = [reads |-> 0, writes |-> 0]
    BY <1>1, <2>3 DEF MetricOf
  <2> QED BY <2>2, <2>4, FS_EmptySet DEF Kinds
<1>2. CASE name \in Names
  <2>1. MetricOf(PerFunctionMetrics(reports), name) =
          [reads  |-> SumFunction([r \in W |-> Cardinality(reports[r].functions[name].reads)]),
           writes |-> SumFunction([r \in W |-> Cardinality(reports[r].functions[name].writes)])]
    BY <1>2 DEF PerFunctionMetrics, MetricOf, Where
  <2>2. MetricOf(PerFunctionMetrics(reports), name)[kind] = SumFunction(sizes)
    <3>1. CASE kind = "reads"
      BY <2>1, <3>1
    <3>2. CASE kind = "writes"
      BY <2>1, <3>2
    <3> QED BY <3>1, <3>2 DEF Kinds
  <2>3. /\ IsFiniteSet(W) /\ DOMAIN sizes = W
        /\ \A r \in W : IsFiniteSet(A[r]) /\ sizes[r] = Cardinality(A[r])
    BY ByNameFinite DEF Where
  <2> HIDE DEF sizes, W, A
  <2>4. SumFunction(sizes) = Cardinality(Tagged(A, W))
    BY <2>3, SumCounts
  <2> QED BY <2>2, <2>4 DEF KeysByFile, W, A
<1> QED BY <1>1, <1>2

\* The listings of all files, name by name.
LEMMA ListingsCount ==
  ASSUME NEW reports, FiniteReports(reports), NEW kind \in Kinds,
         NEW N, \A r \in DOMAIN reports : DOMAIN reports[r].functions \subseteq N
  PROVE  SumFunction([r \in DOMAIN reports |-> Listings(reports[r], kind)])
           = Cardinality(Tagged(ByName(reports, kind, N), N))
<1> DEFINE D == DOMAIN reports
           A == ByFile(reports, kind)
           sizes == [r \in D |-> Listings(reports[r], kind)]
<1>1. ASSUME NEW r \in D PROVE Listings(reports[r], kind) = Cardinality(KeysByName(reports, kind, r))
  <2> DEFINE E == DOMAIN reports[r].functions
             B == [name \in E |-> reports[r].functions[name][kind]]
             counts == [name \in E |-> Cardinality(reports[r].functions[name][kind])]
  <2>1. Listings(reports[r], kind) = SumFunction(counts)
    BY DEF Listings
  <2>2. /\ IsFiniteSet(E) /\ DOMAIN counts = E
        /\ \A name \in E : IsFiniteSet(B[name]) /\ counts[name] = Cardinality(B[name])
    BY ByFileFinite
  <2> HIDE DEF counts, B, E
  <2>3. SumFunction(counts) = Cardinality(Tagged(B, E))
    BY <2>2, SumCounts
  <2> QED BY <2>1, <2>3 DEF KeysByName, B, E
<1>2. /\ IsFiniteSet(D) /\ DOMAIN sizes = D
      /\ \A r \in D : IsFiniteSet(A[r]) /\ sizes[r] = Cardinality(A[r])
  BY <1>1, ByFileFinite DEF FiniteReports, ByFile
<1>3. SumFunction(sizes) = Cardinality(Tagged(A, D))
  <2> HIDE DEF sizes, D, A
  <2> QED BY <1>2, SumCounts
<1> QED BY <1>3, SameKeys

\* The difference of a figure for two sides, summed over all names, is the
\* difference of the totals.
LEMMA NamesAddUp ==
  ASSUME NEW left, NEW right, FiniteReports(left), FiniteReports(right), NEW kind \in Kinds,
         NEW N, IsFiniteSet(N),
         \A r \in DOMAIN left : DOMAIN left[r].functions \subseteq N,
         \A r \in DOMAIN right : DOMAIN right[r].functions \subseteq N,
         NEW delta, DOMAIN delta = N,
         \A name \in N : delta[name] =
           MetricOf(PerFunctionMetrics(right), name)[kind]
             - MetricOf(PerFunctionMetrics(left), name)[kind]
  PROVE  SumFunction(delta) =
           SumFunction([r \in DOMAIN right |-> Listings(right[r], kind)])
             - SumFunction([r \in DOMAIN left |-> Listings(left[r], kind)])
<1> DEFINE A == ByName(right, kind, N)
           B == ByName(left, kind, N)
<1>1. ASSUME NEW name \in N
      PROVE  /\ IsFiniteSet(A[name]) /\ IsFiniteSet(B[name])
             /\ delta[name] = Cardinality(A[name]) - Cardinality(B[name])
  <2>1. A[name] = KeysByFile(right, kind, name) /\ B[name] = KeysByFile(left, kind, name)
    BY DEF ByName
  <2>2. IsFiniteSet(KeysByFile(right, kind, name)) /\ IsFiniteSet(KeysByFile(left, kind, name))
    BY ByNameFinite
  <2>3. /\ MetricOf(PerFunctionMetrics(right), name)[kind]
             = Cardinality(KeysByFile(right, kind, name))
        /\ MetricOf(PerFunctionMetrics(left), name)[kind]
             = Cardinality(KeysByFile(left, kind, name))
    BY MetricCounts
  <2> QED BY <2>1, <2>2, <2>3
<1> HIDE DEF A, B
<1>2. SumFunction(delta) = Cardinality(Tagged(A, N)) - Cardinality(Tagged(B, N))
  BY <1>1, SumDifference
<1>3. /\ SumFunction([r \in DOMAIN right |-> Listings(right[r], kind)]) = Cardinality(Tagged(A, N))
      /\ SumFunction([r \in DOMAIN left |-> Listings(left[r], kind)]) = Cardinality(Tagged(B, N))
  BY ListingsCount DEF A, B
<1> QED BY <1>2, <1>3

LEMMA SumNatural ==
  ASSUME NEW D, IsFiniteSet(D), NEW f \in [D -> Nat],
         NEW A, A = [i \in D |-> 1..f[i]]
  PROVE  /\ \A i \in D : IsFiniteSet(A[i]) /\ f[i] = Cardinality(A[i])
         /\ SumFunction(f) = Cardinality(Tagged(A, D))
         /\ SumFunction(f) \in Nat
<1>1. \A i \in D : IsFiniteSet(A[i]) /\ f[i] = Cardinality(A[i])
  BY UpToSize
<1>2. SumFunction(f) = Cardinality(Tagged(A, D))
  BY <1>1, SumCounts
<1>3. IsFiniteSet(Tagged(A, D))
  BY <1>1, TaggedFinite
<1> QED BY <1>1, <1>2, <1>3, FS_CardinalityType

LEMMA DetectorTotalsNatural ==
  ASSUME NEW reports, FiniteReports(reports)
  PROVE  DetectorTotals(reports) \in [DetectorNames -> Nat]
<1>1. ASSUME NEW d \in DetectorNames PROVE DetectorTotals(reports)[d] \in Nat
  <2> DEFINE D == DOMAIN reports
             f == [r \in D |-> FindingCounts(reports[r].detectors)[d]]
             A == [r \in D |-> 1..f[r]]
  <2>1. DetectorTotals(reports)[d] = SumFunction(f)
    BY DEF DetectorTotals, DetectorNames
  <2>2. f \in [D -> Nat] /\ IsFiniteSet(D)
    BY DEF FiniteReports, FiniteReport
  <2> HIDE DEF f, D
  <2>3. SumFunction(f) \in Nat
    BY <2>2, SumNatural
  <2> QED BY <2>1, <2>3
<1>2. DetectorTotals(reports) = [d \in DetectorNames |-> DetectorTotals(reports)[d]]
  BY DEF DetectorTotals, DetectorNames
<1> QED BY <1>1, <1>2

LEMMA DetectorsFinite == IsFiniteSet(DetectorNames)
<1> DEFINE list == <<"global_static_write", "write_in_loop", "read_modify_write", "duplicate_read">>
<1>1. list \in Seq(DetectorNames) /\ Len(list) = 4
  BY DEF DetectorNames
<1>2. \A d \in DetectorNames : \E p \in 1..4 : list[p] = d
  <2>1. 1 \in 1..4 /\ 2 \in 1..4 /\ 3 \in 1..4 /\ 4 \in 1..4
    OBVIOUS
  <2>2. /\ list[1] = "global_static_write" /\ list[2] = "write_in_loop"
        /\ list[3] = "read_modify_write" /\ list[4] = "duplicate_read"
    OBVIOUS
  <2> HIDE DEF list
  <2> QED BY <2>1, <2>2 DEF DetectorNames
<1> HIDE DEF list
<1>3. IsFiniteSet(ToSet(list))
  BY <1>1, ToSetFinite
<1>4. DetectorNames \subseteq ToSet(list)
  BY <1>1, <1>2, ToSetMember
<1> QED BY <1>3, <1>4, FS_Subset

\* The rows that are left out of the comparison change nothing.
LEMMA RowsAddUp ==
  ASSUME NEW L \in [DetectorNames -> Nat], NEW R \in [DetectorNames -> Nat],
         NEW E, E = {d \in DetectorNames : L[d] + R[d] > 0},
         NEW delta, DOMAIN delta = E, \A d \in E : delta[d] = R[d] - L[d]
  PROVE  SumFunction(delta) = SumFunction(R) - SumFunction(L)
<1> DEFINE D == DetectorNames
           A == [d \in D |-> 1..R[d]]
           B == [d \in D |-> 1..L[d]]
<1>1. IsFiniteSet(D)
  BY DetectorsFinite
<1>2. E \subseteq D /\ IsFiniteSet(E)
  BY <1>1, FS_Subset
<1>3. /\ \A d \in D : IsFiniteSet(A[d]) /\ R[d] = Cardinality(A[d])
      /\ SumFunction(R) = Cardinality(Tagged(A, D))
  <2>1. A = [d \in D |-> 1..R[d]]
    OBVIOUS
  <2> HIDE DEF A, B, D
  <2> QED BY <1>1, <2>1, SumNatural DEF D
<1>4. /\ \A d \in D : IsFiniteSet(B[d]) /\ L[d] = Cardinality(B[d])
      /\ SumFunction(L) = Cardinality(Tagged(B, D))
  <2>1. B = [d \in D |-> 1..L[d]]
    OBVIOUS
  <2> HIDE DEF A, B, D
  <2> QED BY <1>1, <2>1, SumNatural DEF D
<1>5. \A d \in D : d \notin E => A[d] = {} /\ B[d] = {}
  <2>1. \A d \in D : d \notin E => L[d] = 0 /\ R[d] = 0
    OBVIOUS
  <2> QED BY <2>1
<1> HIDE DEF A, B, D
<1>6. Tagged(A, E) = Tagged(A, D) /\ Tagged(B, E) = Tagged(B, D)
  BY <1>2, <1>5 DEF Tagged
<1>7. SumFunction(delta) = Cardinality(Tagged(A, E)) - Cardinality(Tagged(B, E))
  BY <1>2, <1>3, <1>4, SumDifference
<1> QED BY <1>3, <1>4, <1>6, <1>7

\* Whatever the two sides report: the deltas per function and per detector sum
\* to those of the summary.
LEMMA DiffAddsUp ==
  ASSUME NEW left, NEW right, FiniteReports(left), FiniteReports(right)
  PROVE  AddsUp(left, right)
<1> DEFINE diff == DiffJson(left, right)
           rows == Compare(left, right).detectors
           Names(reports) == UNION {DOMAIN reports[r].functions : r \in DOMAIN reports}
           N == Names(left) \cup Names(right)
           lf == PerFunctionMetrics(left)
           rf == PerFunctionMetrics(right)
           reads == [n \in DOMAIN diff.per_function |-> diff.per_function[n].reads]
           writes == [n \in DOMAIN diff.per_function |-> diff.per_function[n].writes]
           delta == [d \in DOMAIN rows |-> rows[d][2] - rows[d][1]]
           L == DetectorTotals(left)
           R == DetectorTotals(right)
<1>1. DOMAIN lf = Names(left) /\ DOMAIN rf = Names(right)
  BY DEF PerFunctionMetrics
<1>2. IsFiniteSet(N)
  <2>1. ASSUME NEW reports, FiniteReports(reports) PROVE IsFiniteSet(Names(reports))
    <3> DEFINE D == DOMAIN reports
               A == [r \in D |-> DOMAIN reports[r].functions]
    <3>1. IsFiniteSet(D) /\ \A r \in D : IsFiniteSet(A[r])
      BY <2>1 DEF FiniteReports, FiniteReport
    <3>2. Names(reports) = UNION {A[r] : r \in D}
      OBVIOUS
    <3> HIDE DEF A, D, Names
    <3>3. IsFiniteSet(UNION {A[r] : r \in D})
      BY <3>1, UnionFinite
    <3> QED BY <3>2, <3>3
  <2> HIDE DEF Names
  <2> QED BY <2>1, FS_Union
<1>3. diff.per_function = [n \in N |->
        [reads  |-> MetricOf(rf, n).reads - MetricOf(lf, n).reads,
         writes |-> MetricOf(rf, n).writes - MetricOf(lf, n).writes]]
  BY <1>1 DEF DiffJson
<1>4. /\ DOMAIN reads = N /\ DOMAIN writes = N
      /\ \A n \in N : reads[n] = MetricOf(rf, n).reads - MetricOf(lf, n).reads
      /\ \A n \in N : writes[n] = MetricOf(rf, n).writes - MetricOf(lf, n).writes
  BY <1>3
<1>5. /\ \A r \in DOMAIN left : DOMAIN left[r].functions \subseteq N
      /\ \A r \in DOMAIN right : DOMAIN right[r].functions \subseteq N
  OBVIOUS
<1>6. diff.summary = [findings |-> FindingTotal(Totals(right)) - FindingTotal(Totals(left)),
                      reads    |-> Totals(right).reads - Totals(left).reads,
                      writes   |-> Totals(right).writes - Totals(left).writes]
  BY DEF DiffJson
<1>7. SumFunction(reads) = diff.summary.reads
  <2>1. PICK kind \in Kinds : kind = "reads"
    BY DEF Kinds
  <2>2. \A n \in N : reads[n] = MetricOf(PerFunctionMetrics(right), n)[kind]
                                  - MetricOf(PerFunctionMetrics(left), n)[kind]
    BY <1>4, <2>1
  <2>3. diff.summary.reads = SumFunction([r \in DOMAIN right |-> Listings(right[r], kind)])
                               - SumFunction([r \in DOMAIN left |-> Listings(left[r], kind)])
    BY <1>6, <2>1 DEF Totals
  <2> HIDE DEF reads, N
  <2> QED BY <1>2, <1>4, <1>5, <2>2, <2>3, NamesAddUp
<1>8. SumFunction(writes) = diff.summary.writes
  <2>1. PICK kind \in Kinds : kind = "writes"
    BY DEF Kinds
  <2>2. \A n \in N : writes[n] = MetricOf(PerFunctionMetrics(right), n)[kind]
                                  - MetricOf(PerFunctionMetrics(left), n)[kind]
    BY <1>4, <2>1
  <2>3. diff.summary.writes = SumFunction([r \in DOMAIN right |-> Listings(right[r], kind)])
                               - SumFunction([r \in DOMAIN left |-> Listings(left[r], kind)])
    BY <1>6, <2>1 DEF Totals
  <2> HIDE DEF writes, N
  <2> QED BY <1>2, <1>4, <1>5, <2>2, <2>3, NamesAddUp
<1>9. diff.summary.findings = SumFunction(delta)
  <2>1. L \in [DetectorNames -> Nat] /\ R \in [DetectorNames -> Nat]
    BY DetectorTotalsNatural
  <2>2. /\ DOMAIN rows = {d \in DetectorNames : L[d] + R[d] > 0}
        /\ \A d \in DOMAIN rows : rows[d] = <<L[d], R[d]>>
    BY <2>1 DEF Compare, Totals
  <2>3. /\ DOMAIN delta = DOMAIN rows
        /\ \A d \in DOMAIN rows : delta[d] = R[d] - L[d]
    BY <2>2
  <2>4. diff.summary.findings = SumFunction(R) - SumFunction(L)
    BY <1>6 DEF FindingTotal, Totals
  <2>5. PICK E, change : E = DOMAIN rows /\ change = delta
    OBVIOUS
  <2> HIDE DEF delta, L, R
  <2>6. E = {d \in DetectorNames : L[d] + R[d] > 0}
    BY <2>2, <2>5
  <2>7. DOMAIN change = E /\ \A d \in E : change[d] = R[d] - L[d]
    BY <2>3, <2>5
  <2>8. SumFunction(change) = SumFunction(R) - SumFunction(L)
    BY <2>1, <2>6, <2>7, RowsAddUp
  <2> QED BY <2>4, <2>5, <2>8
<1> HIDE DEF diff, rows
<1> QED BY <1>7, <1>8, <1>9 DEF AddsUp, diff, rows

\* A file has finitely many records, so finitely many keys and functions.
LEMMA RecordsFinite ==
  ASSUME NEW S, NEW records \in Seq(S)
  PROVE  /\ IsFiniteSet({a.key : a \in ToSet(records)})
         /\ IsFiniteSet(FunctionsIn(records))
         /\ \A name, kind : IsFiniteSet(KeysOf(records, name, kind))
         /\ \A name, kind : KeysOf(records, name, kind) \subseteq {a.key : a \in ToSet(records)}
<1> DEFINE X == ToSet(records)
           keys == [a \in X |-> a.key]
           names == [a \in X |-> a.function]
<1>1. IsFiniteSet(X)
  BY ToSetFinite
<1>2. /\ {a.key : a \in X} = {keys[a] : a \in X}
      /\ {a.function : a \in X} = {names[a] : a \in X}
  OBVIOUS
<1>3. IsFiniteSet({keys[a] : a \in X}) /\ IsFiniteSet({names[a] : a \in X})
  <2> HIDE DEF keys, names, X
  <2> QED BY <1>1, ImageFinite
<1>4. IsFiniteSet({a.key : a \in X}) /\ IsFiniteSet({a.function : a \in X})
  BY <1>2, <1>3
<1>5. \A name, kind : KeysOf(records, name, kind) \subseteq {a.key : a \in X}
  BY DEF KeysOf
<1>6. \A name, kind : IsFiniteSet(KeysOf(records, name, kind))
  <2> HIDE DEF X
  <2> QED BY <1>4, <1>5, FS_Subset
<1> QED BY <1>4, <1>5, <1>6 DEF FunctionsIn

\* A detector finds finitely many things.
LEMMA FindingsFinite ==
  ASSUME NEW S, NEW records \in Seq(S)
  PROVE  \A d \in DetectorNames : FindingCounts(RunDetectors(records))[d] \in Nat
<1> DEFINE found == RunDetectors(records)
           K == {a.key : a \in ToSet(records)}
           F == FunctionsIn(records)
<1>1. /\ IsFiniteSet(K) /\ IsFiniteSet(F)
      /\ \A name, kind : KeysOf(records, name, kind) \subseteq K
  BY RecordsFinite
<1>2. IsFiniteSet(F \X K)
  BY <1>1, FS_Product
<1>3. IsFiniteSet(GlobalStaticWrite(records))
  <2>1. GlobalStaticWrite(records) \subseteq K
    BY DEF GlobalStaticWrite
  <2> HIDE DEF K
  <2> QED BY <1>1, <2>1, FS_Subset
<1>4. IsFiniteSet(ReadModifyWrite(records))
  <2>1. ReadModifyWrite(records) \subseteq F \X K
    <3> HIDE DEF F, K
    <3> QED BY <1>1 DEF ReadModifyWrite, F
  <2> HIDE DEF K, F
  <2> QED BY <1>2, <2>1, FS_Subset
<1>5. IsFiniteSet(DuplicateRead(records))
  <2>1. DuplicateRead(records) \subseteq F \X K
    <3> HIDE DEF F, K
    <3> QED BY <1>1 DEF DuplicateRead, F
  <2> HIDE DEF K, F
  <2> QED BY <1>2, <2>1, FS_Subset
<1>6. IsFiniteSet(DOMAIN WriteInLoop(records))
  <2>1. DOMAIN WriteInLoop(records) \subseteq 1..Len(records) /\ Len(records) \in Nat
    BY LenProperties DEF WriteInLoop
  <2> QED BY <2>1, UpToSize, FS_Subset
<1>7. FindingCounts(found) =
        [global_static_write |-> Cardinality(GlobalStaticWrite(records)),
         write_in_loop       |-> Cardinality(DOMAIN WriteInLoop(records)),
         read_modify_write   |-> Cardinality(ReadModifyWrite(records)),
         duplicate_read      |-> Cardinality(DuplicateRead(records))]
  BY DEF FindingCounts, RunDetectors
<1>8. /\ Cardinality(GlobalStaticWrite(records)) \in Nat
      /\ Cardinality(DOMAIN WriteInLoop(records)) \in Nat
      /\ Cardinality(ReadModifyWrite(records)) \in Nat
      /\ Cardinality(DuplicateRead(records)) \in Nat
  BY <1>3, <1>4, <1>5, <1>6, FS_CardinalityType
<1> HIDE DEF found
<1> QED BY <1>7, <1>8 DEF DetectorNames, found

\* What is reported for every file is finite.
LEMMA ReportsFinite ==
  ASSUME files \in FileSets
  PROVE  /\ DOMAIN AnalysisReports = 1..Len(files) /\ Len(files) \in Nat
         /\ Len(AnalysisReports) = Len(files)
         /\ \A s \in 1..Len(files) : FiniteReport(AnalysisReports[s])
<1>1. Len(files) \in Nat /\ DOMAIN files = 1..Len(files)
  BY FileTypes
<1>2. DOMAIN AnalysisReports = 1..Len(files)
  BY <1>1 DEF AnalysisReports
<1>3. ASSUME NEW s \in 1..Len(files) PROVE FiniteReport(AnalysisReports[s])
  <2> DEFINE records == files[s].accesses
             told == AnalysisReports[s]
  <2>1. records \in Seq(AccessRecord) /\ ReportedNames(s) \subseteq ToSet(NameOrder)
    BY FileTypes
  <2>2. IsFiniteSet(ReportedNames(s))
    BY <2>1, NamesAssumption, ToSetFinite, FS_Subset
  <2>3. /\ DOMAIN told.functions = ReportedNames(s)
        /\ \A name \in ReportedNames(s) :
             /\ told.functions[name].reads = KeysOf(records, name, "read")
             /\ told.functions[name].writes = KeysOf(records, name, "write")
        /\ told.detectors = RunDetectors(records)
    <3>1. told = [functions |-> [name \in ReportedNames(s) |->
                     [reads     |-> KeysOf(records, name, "read"),
                      writes    |-> KeysOf(records, name, "write"),
                      effective |-> effective[Position(ReportOrder, Function(s, name))]]],
                   detectors |-> RunDetectors(records)]
      BY <1>1 DEF AnalysisReports
    <3> HIDE DEF told, records
    <3> QED BY <3>1
  <2> HIDE DEF records, told
  <2>4. \A name \in DOMAIN told.functions : \A kind \in Kinds :
          IsFiniteSet(told.functions[name][kind])
    <3>1. \A name, kind : IsFiniteSet(KeysOf(records, name, kind))
      BY <2>1, RecordsFinite
    <3>2. \A kind \in Kinds : kind = "reads" \/ kind = "writes"
      BY DEF Kinds
    <3> QED BY <2>3, <3>1, <3>2
  <2>5. \A d \in DetectorNames : FindingCounts(told.detectors)[d] \in Nat
    BY <2>1, <2>3, FindingsFinite
  <2>6. FiniteReport(told)
    BY <2>2, <2>3, <2>4, <2>5 DEF FiniteReport
  <2> QED BY <2>6 DEF told
<1>4. Len(AnalysisReports) = Len(files)
  <2> DEFINE T == {AnalysisReports[s] : s \in 1..Len(files)}
  <2>1. AnalysisReports = [s \in 1..Len(files) |-> AnalysisReports[s]]
    BY <1>1 DEF AnalysisReports
  <2>2. \A s \in 1..Len(files) : AnalysisReports[s] \in T
    OBVIOUS
  <2> HIDE DEF T
  <2>3. AnalysisReports \in Seq(T)
    BY <1>1, <2>1, <2>2, IsASeq
  <2> QED BY <1>1, <1>2, <2>3, LenProperties
<1> QED BY <1>1, <1>2, <1>3, <1>4

\* So is every part of the reports.
LEMMA PartsFinite ==
  ASSUME NEW reports, NEW n \in Nat, DOMAIN reports = 1..n, Len(reports) = n,
         \A s \in 1..n : FiniteReport(reports[s]),
         NEW part \in Parts(reports)
  PROVE  FiniteReports(part)
<1>1. \E a \in DOMAIN reports, b \in 0..Len(reports) : part = SubSeq(reports, a, b)
  BY DEF Parts
<1>2. PICK a \in 1..n, b \in 0..n : part = SubSeq(reports, a, b)
  BY <1>1
<1> DEFINE size == (1 + b) - a
<1>3. part = [i \in 1..size |-> reports[(i + a) - 1]]
  BY <1>2
<1>4. size \in Int /\ \A i \in 1..size : (i + a) - 1 \in 1..n
  OBVIOUS
<1>5. IsFiniteSet(1..size)
  BY <1>4, FS_Interval
<1> HIDE DEF size
<1>6. DOMAIN part = 1..size /\ \A i \in 1..size : FiniteReport(part[i])
  BY <1>3, <1>4
<1> QED BY <1>5, <1>6 DEF FiniteReports

\* For every set of files: whatever two parts of it are compared, the deltas
\* per function and per detector sum to those of the summary.
THEOREM DeltasAlwaysAddUp == AnalyzeSpec => []DeltasAddUp
<1>1. AnalyzeInv => DeltasAddUp
  <2> SUFFICES ASSUME AnalyzeInv PROVE DeltasAddUp
    OBVIOUS
  <2> DEFINE parts == Parts(AnalysisReports)
  <2>1. files \in FileSets
    BY DEF AnalyzeInv, ResolveInv, ResolveTypes
  <2>2. ASSUME NEW part \in parts PROVE FiniteReports(part)
    <3>1. PICK reports, n : reports = AnalysisReports /\ n = Len(files)
      OBVIOUS
    <3>2. /\ n \in Nat /\ DOMAIN reports = 1..n
          /\ \A s \in 1..n : FiniteReport(reports[s])
      BY <2>1, <3>1, ReportsFinite
    <3>3. Len(reports) = n /\ part \in Parts(reports)
      BY <2>1, <3>1, ReportsFinite
    <3> HIDE DEF parts
    <3> QED BY <3>2, <3>3, PartsFinite
  <2>3. ASSUME NEW left \in parts, NEW right \in parts
        PROVE  AddsUp(left, right)
    <3> HIDE DEF parts
    <3>1. FiniteReports(left) /\ FiniteReports(right)
      BY <2>2
    <3> QED BY <3>1, DiffAddsUp
  <2> HIDE DEF parts
  <2>4. \A left, right \in parts : AddsUp(left, right)
    BY <2>3
  <2> QED BY <2>4 DEF DeltasAddUp, parts
<1> QED BY <1>1, AnalyzeInvariant, PTL

-----------------------------------------------------------------------------
(* One file: the context of the visitor.                                   *)

Contexts == FunctionNames \cup {NoFunction}
FnNode == [node: {"fn"}, name: FunctionNames, prev: Contexts, number: Nat]
OtherNode == [node: {"trait_fn", "loop"}, name: Contexts, prev: Contexts, number: Nat]
Node == FnNode \cup OtherNode

\* The nodes around the k-th open one.
Around(path, k) == [i \in 1..(k - 1) |-> path[i]]

FnNodes(path) == {k \in 1..Len(path) : path[k].node = "fn"}

\* The owner of a path is the name of its last function node.
LEMMA OwnerIs ==
  ASSUME NEW path \in Seq(Node), NEW k \in FnNodes(path),
         \A j \in FnNodes(path) : j <= k
  PROVE  FnDepth(path) = k /\ Owner(path) = path[k].name
<1>1. FnDepth(path) = IF FnNodes(path) # {} THEN Max(FnNodes(path)) ELSE 0
  BY DEF FnDepth, SelectLastInSeq, FnNodes
<1>2. FnNodes(path) \subseteq Nat
  BY LenProperties DEF FnNodes
<1>3. Max(FnNodes(path)) = k
  BY <1>2, MaxIs
<1>4. k \in Nat \ {0}
  BY LenProperties DEF FnNodes
<1> QED BY <1>1, <1>3, <1>4 DEF Owner

\* Without one there is no owner.
LEMMA OwnerNone ==
  ASSUME NEW path \in Seq(Node), FnNodes(path) = {}
  PROVE  FnDepth(path) = 0 /\ Owner(path) = NoFunction
<1>1. FnDepth(path) = IF FnNodes(path) # {} THEN Max(FnNodes(path)) ELSE 0
  BY DEF FnDepth, SelectLastInSeq, FnNodes
<1> QED BY <1>1 DEF Owner

\* Either there is a last one or none.
LEMMA OwnerCases ==
  ASSUME NEW path \in Seq(Node)
  PROVE  \/ FnNodes(path) = {}
         \/ \E k \in FnNodes(path) : \A j \in FnNodes(path) : j <= k
<1> DEFINE n == Len(path)
           Back == {n - k : k \in FnNodes(path)}
<1>1. n \in Nat
  BY LenProperties
<1>2. CASE FnNodes(path) # {}
  <2>1. Back \subseteq Nat /\ Back # {}
    BY <1>1, <1>2 DEF FnNodes
  <2> HIDE DEF Back
  <2>2. PICK least \in Back : \A b \in Back : least <= b
    BY <2>1, LeastNatural
  <2>3. PICK k \in FnNodes(path) : least = n - k
    BY DEF Back
  <2>4. \A j \in FnNodes(path) : n - k <= n - j
    BY <2>2, <2>3 DEF Back
  <2>5. FnNodes(path) \subseteq 1..n
    BY DEF FnNodes
  <2> HIDE DEF n
  <2>6. \A j \in FnNodes(path) : j <= k
    BY <1>1, <2>4, <2>5
  <2> QED BY <2>6
<1> QED BY <1>2

LEMMA OwnerNamed ==
  ASSUME NEW path \in Seq(Node)
  PROVE  Owner(path) \in Contexts
<1>1. CASE FnNodes(path) = {}
  BY <1>1, OwnerNone DEF Contexts
<1>2. CASE \E k \in FnNodes(path) : \A j \in FnNodes(path) : j <= k
  <2>1. PICK k \in FnNodes(path) : \A j \in FnNodes(path) : j <= k
    BY <1>2
  <2>2. k \in 1..Len(path) /\ path[k].node = "fn"
    BY DEF FnNodes
  <2>3. path[k] \in Node
    BY <2>2, ElementOfSeq
  <2>4. path[k].name \in FunctionNames
    BY <2>2, <2>3 DEF Node, FnNode, OtherNode
  <2> QED BY <2>1, <2>4, OwnerIs DEF Contexts
<1> QED BY <1>1, <1>2, OwnerCases

\* Opening a node.
LEMMA OwnerPushed ==
  ASSUME NEW path \in Seq(Node), NEW frame \in Node
  PROVE  /\ Append(path, frame) \in Seq(Node)
         /\ Owner(Append(path, frame)) =
              IF frame.node = "fn" THEN frame.name ELSE Owner(path)
         /\ Loops(Append(path, frame)) =
              Loops(path) \cup (IF frame.node = "loop" THEN {Len(path) + 1} ELSE {})
<1> DEFINE n == Len(path)
           longer == Append(path, frame)
<1>1. /\ n \in Nat /\ longer \in Seq(Node) /\ Len(longer) = n + 1
      /\ \A i \in 1..n : longer[i] = path[i]
      /\ longer[n + 1] = frame
      /\ DOMAIN longer = 1..(n + 1) /\ DOMAIN path = 1..n
  BY AppendProperties, LenProperties
<1> HIDE DEF longer
<1>2. FnNodes(longer) = FnNodes(path) \cup (IF frame.node = "fn" THEN {n + 1} ELSE {})
  BY <1>1 DEF FnNodes
<1>3. Loops(longer) = Loops(path) \cup (IF frame.node = "loop" THEN {n + 1} ELSE {})
  BY <1>1 DEF Loops
<1>4. CASE frame.node = "fn"
  <2>1. n + 1 \in FnNodes(longer) /\ \A j \in FnNodes(longer) : j <= n + 1
    BY <1>1, <1>4 DEF FnNodes
  <2> QED BY <1>1, <1>3, <1>4, <2>1, OwnerIs DEF longer
<1>5. CASE frame.node # "fn" /\ FnNodes(path) = {}
  BY <1>1, <1>2, <1>3, <1>5, OwnerNone DEF longer
<1>6. CASE frame.node # "fn" /\ \E k \in FnNodes(path) : \A j \in FnNodes(path) : j <= k
  <2>1. PICK k \in FnNodes(path) : \A j \in FnNodes(path) : j <= k
    BY <1>6
  <2>2. FnNodes(longer) = FnNodes(path) /\ longer[k] = path[k]
    BY <1>1, <1>2, <1>6 DEF FnNodes
  <2>3. Owner(longer) = longer[k].name /\ Owner(path) = path[k].name
    BY <1>1, <2>1, <2>2, OwnerIs
  <2> QED BY <1>1, <1>3, <1>6, <2>2, <2>3 DEF longer
<1> QED BY <1>4, <1>5, <1>6, OwnerCases

\* The node opened last, and what is left without it.
LEMMA LastOpen ==
  ASSUME NEW path \in Seq(Node), path # <<>>
  PROVE  /\ Len(path) \in Nat \ {0}
         /\ Last(path) = path[Len(path)] /\ Last(path) \in Node
         /\ Front(path) \in Seq(Node) /\ Len(Front(path)) = Len(path) - 1
         /\ \A k \in 1..(Len(path) - 1) : Front(path)[k] = path[k]
         /\ path = Append(Front(path), Last(path))
<1>1. Len(path) \in Nat \ {0}
  BY LenProperties, EmptySeq
<1>2. Last(path) = path[Len(path)] /\ Last(path) \in Node
  BY <1>1, ElementOfSeq DEF Last
<1>3. /\ Front(path) \in Seq(Node) /\ Len(Front(path)) = Len(path) - 1
      /\ \A k \in 1..(Len(path) - 1) : Front(path)[k] = path[k]
  <2>1. CASE Len(path) > 1
    BY <2>1, FrontShape
  <2>2. CASE Len(path) = 1
    <3>1. Front(path) = <<>>
      BY <2>2 DEF Front
    <3> QED BY <2>2, <3>1, EmptySeq
  <2>3. \A n \in Nat \ {0} : n > 1 \/ n = 1
    OBVIOUS
  <2>4. Len(path) > 1 \/ Len(path) = 1
    BY <1>1, <2>3, Zenon
  <2> QED BY <2>1, <2>2, <2>4, Zenon
<1> DEFINE longer == Append(Front(path), Last(path))
<1>4. /\ longer \in Seq(Node) /\ Len(longer) = Len(path)
      /\ \A k \in 1..Len(path) : longer[k] = path[k]
  <2>1. /\ longer \in Seq(Node) /\ Len(longer) = Len(Front(path)) + 1
        /\ \A k \in 1..Len(Front(path)) : longer[k] = Front(path)[k]
        /\ longer[Len(Front(path)) + 1] = Last(path)
    BY <1>2, <1>3, AppendProperties
  <2> HIDE DEF longer
  <2> QED BY <1>1, <1>2, <1>3, <2>1
<1> HIDE DEF longer
<1>5. path = longer
  BY <1>4, SeqEqual
<1> QED BY <1>1, <1>2, <1>3, <1>5 DEF longer

\* Every function node has saved the owner of the nodes around it.
SavedRight(path) ==
  \A k \in 1..Len(path) : path[k].node = "fn" => path[k].prev = Owner(Around(path, k))

ContextInv ==
  /\ nodes \in Nat
  /\ open \in Seq(Node)
  /\ SavedRight(open)
  /\ ContextMatchesNesting

LEMMA SavedPushed ==
  ASSUME NEW path \in Seq(Node), NEW frame \in Node, SavedRight(path),
         frame.node = "fn" => frame.prev = Owner(path)
  PROVE  SavedRight(Append(path, frame))
<1> DEFINE n == Len(path)
           longer == Append(path, frame)
<1>1. /\ n \in Nat /\ Len(longer) = n + 1
      /\ \A i \in 1..n : longer[i] = path[i]
      /\ longer[n + 1] = frame
      /\ path = [i \in 1..n |-> path[i]]
  BY AppendProperties, LenProperties
<1> HIDE DEF longer
<1>2. ASSUME NEW k \in 1..(n + 1), longer[k].node = "fn"
      PROVE  longer[k].prev = Owner(Around(longer, k))
  <2>1. CASE k \in 1..n
    <3>1. Around(longer, k) = Around(path, k)
      BY <1>1, <2>1 DEF Around
    <3> QED BY <1>1, <1>2, <2>1, <3>1 DEF SavedRight
  <2>2. CASE k = n + 1
    <3>1. Around(longer, k) = path
      BY <1>1, <2>2 DEF Around
    <3> QED BY <1>1, <1>2, <2>2, <3>1
  <2> QED BY <1>1, <2>1, <2>2
<1> QED BY <1>1, <1>2 DEF SavedRight, longer

LEMMA SavedPopped ==
  ASSUME NEW path \in Seq(Node), path # <<>>, SavedRight(path)
  PROVE  /\ SavedRight(Front(path))
         /\ Last(path).node = "fn" => Last(path).prev = Owner(Front(path))
<1> DEFINE n == Len(path)
           rest == Front(path)
<1>1. /\ n \in Nat \ {0} /\ Last(path) = path[n] /\ rest \in Seq(Node) /\ Len(rest) = n - 1
      /\ \A k \in 1..(n - 1) : rest[k] = path[k]
  BY LastOpen
<1>2. rest = [i \in 1..(n - 1) |-> rest[i]]
  BY <1>1, LenProperties
<1> HIDE DEF rest
<1>3. Around(path, n) = rest
  BY <1>1, <1>2 DEF Around
<1>4. ASSUME NEW k \in 1..(n - 1) PROVE Around(rest, k) = Around(path, k)
  BY <1>1 DEF Around
<1> QED BY <1>1, <1>3, <1>4 DEF SavedRight, rest

\* The loops of a path, counted.
LEMMA LoopsCounted ==
  ASSUME NEW path \in Seq(Node), NEW frame \in Node
  PROVE  /\ Cardinality(Loops(path)) \in Nat
         /\ Cardinality(Loops(Append(path, frame))) =
              IF frame.node = "loop" THEN Cardinality(Loops(path)) + 1
              ELSE Cardinality(Loops(path))
<1>1. Len(path) \in Nat /\ Loops(path) \subseteq 1..Len(path)
  BY LenProperties DEF Loops
<1>2. IsFiniteSet(Loops(path)) /\ Cardinality(Loops(path)) \in Nat
  BY <1>1, UpToSize, FS_Subset, FS_CardinalityType
<1>3. Len(path) + 1 \notin Loops(path)
  BY <1>1
<1>4. Loops(Append(path, frame)) =
        Loops(path) \cup (IF frame.node = "loop" THEN {Len(path) + 1} ELSE {})
  BY OwnerPushed
<1> QED BY <1>2, <1>3, <1>4, FS_AddElement

LEMMA ContextStep == ContextInv /\ [VisitorNext]_visitorVars => ContextInv'
<1> SUFFICES ASSUME ContextInv, [VisitorNext]_visitorVars PROVE ContextInv'
  OBVIOUS
<1>1. current_fn \in Contexts /\ nodes \in Nat
  BY OwnerNamed DEF ContextInv, ContextMatchesNesting
<1>0. nodes' \in Nat
  <2>1. nodes' = nodes \/ nodes' = nodes + 1
    <3>1. ASSUME NEW name \in FunctionNames, EnterFn(name) \/ EnterTraitFn(name)
          PROVE  nodes' = nodes + 1
      BY <3>1 DEF EnterFn, EnterTraitFn, Grow
    <3>2. EnterLoop => nodes' = nodes + 1
      BY DEF EnterLoop, Grow
    <3>3. ASSUME NEW s \in Statements, VisitStatement(s) PROVE nodes' = nodes + 1
      BY <3>3 DEF VisitStatement, Grow
    <3>4. LeaveFn \/ LeaveTraitFn \/ LeaveLoop \/ Finish => nodes' = nodes
      BY DEF LeaveFn, LeaveTraitFn, LeaveLoop, Finish
    <3>5. UNCHANGED visitorVars => nodes' = nodes
      BY DEF visitorVars
    <3> QED BY <3>1, <3>2, <3>3, <3>4, <3>5 DEF VisitorNext
  <2> QED BY <1>1, <2>1
<1> USE <1>0 DEF ContextInv, ContextMatchesNesting
<1>2. ASSUME NEW frame \in Node, open' = Append(open, frame),
             frame.node = "fn" => frame.prev = current_fn
      PROVE  /\ open' \in Seq(Node) /\ SavedRight(open')
             /\ Owner(open') = IF frame.node = "fn" THEN frame.name ELSE current_fn
             /\ Cardinality(Loops(open')) =
                  IF frame.node = "loop" THEN loop_depth + 1 ELSE loop_depth
  <2>1. SavedRight(open')
    BY <1>2, SavedPushed
  <2> QED BY <1>2, <2>1, OwnerPushed, LoopsCounted
<1>3. ASSUME NEW name \in FunctionNames, EnterFn(name) \/ EnterTraitFn(name) PROVE ContextInv'
  <2>1. CASE EnterFn(name)
    <3>1. PICK frame : frame = [node |-> "fn", name |-> name, prev |-> current_fn, number |-> nodes]
      OBVIOUS
    <3>2. open' = Append(open, frame) /\ current_fn' = name /\ loop_depth' = loop_depth
      BY <2>1, <3>1 DEF EnterFn, Opened
    <3>3. /\ frame \in Node /\ frame.node = "fn" /\ frame.name = name /\ frame.prev = current_fn
      BY <1>1, <3>1 DEF Node, FnNode
    <3> QED BY <1>2, <3>2, <3>3
  <2>2. CASE EnterTraitFn(name)
    <3>1. PICK frame : frame = [node |-> "trait_fn", name |-> name, prev |-> current_fn, number |-> nodes]
      OBVIOUS
    <3>2. open' = Append(open, frame) /\ current_fn' = current_fn /\ loop_depth' = loop_depth
      BY <2>2, <3>1 DEF EnterTraitFn, Opened
    <3>3. frame \in Node /\ frame.node = "trait_fn"
      BY <1>1, <3>1 DEF Node, OtherNode, Contexts
    <3> QED BY <1>2, <3>2, <3>3
  <2> QED BY <1>3, <2>1, <2>2
<1>4. CASE EnterLoop
  <2>1. PICK frame : frame = [node |-> "loop", name |-> NoFunction, prev |-> current_fn, number |-> nodes]
    OBVIOUS
  <2>2. open' = Append(open, frame) /\ current_fn' = current_fn /\ loop_depth' = loop_depth + 1
    BY <1>4, <2>1 DEF EnterLoop, Opened
  <2>3. frame \in Node /\ frame.node = "loop" /\ frame.node # "fn"
    BY <1>1, <2>1 DEF Node, OtherNode, Contexts
  <2>4. /\ open' \in Seq(Node) /\ SavedRight(open')
        /\ Owner(open') = current_fn /\ Cardinality(Loops(open')) = loop_depth + 1
    BY <1>2, <2>2, <2>3
  <2> QED BY <2>2, <2>4
<1>5. ASSUME NEW node, Leaving(node), open' = Front(open)
      PROVE  /\ open' \in Seq(Node) /\ SavedRight(open')
             /\ Last(open).node = node
             /\ Owner(open) = IF node = "fn" THEN Last(open).name ELSE Owner(open')
             /\ node = "fn" => Last(open).prev = Owner(open')
             /\ Cardinality(Loops(open')) \in Nat
             /\ Cardinality(Loops(open)) =
                  IF node = "loop" THEN Cardinality(Loops(open')) + 1
                  ELSE Cardinality(Loops(open'))
  <2>1. open # <<>> /\ Last(open).node = node
    BY <1>5 DEF Leaving
  <2>2. /\ open' \in Seq(Node) /\ Last(open) \in Node
        /\ open = Append(open', Last(open))
    BY <1>5, <2>1, LastOpen
  <2>3. SavedRight(open') /\ (node = "fn" => Last(open).prev = Owner(open'))
    BY <1>5, <2>1, SavedPopped
  <2>4. PICK rest, last : rest = open' /\ last = Last(open)
    OBVIOUS
  <2>5. /\ Owner(Append(rest, last)) = IF last.node = "fn" THEN last.name ELSE Owner(rest)
        /\ Cardinality(Loops(rest)) \in Nat
        /\ Cardinality(Loops(Append(rest, last))) =
             IF last.node = "loop" THEN Cardinality(Loops(rest)) + 1
             ELSE Cardinality(Loops(rest))
    BY <2>2, <2>4, OwnerPushed, LoopsCounted
  <2> QED BY <2>1, <2>2, <2>3, <2>4, <2>5
<1>6. CASE LeaveFn
  BY <1>5, <1>6 DEF LeaveFn
<1>7. CASE LeaveTraitFn
  BY <1>5, <1>7 DEF LeaveTraitFn
<1>8. CASE LeaveLoop
  BY <1>5, <1>8 DEF LeaveLoop
<1>9. CASE UNCHANGED <<open, current_fn, loop_depth>>
  BY <1>9
<1>10. ASSUME NEW s \in Statements, VisitStatement(s) PROVE ContextInv'
  BY <1>9, <1>10 DEF VisitStatement
<1>11. CASE Finish
  BY <1>9, <1>11 DEF Finish
<1>12. CASE UNCHANGED visitorVars
  BY <1>9, <1>12 DEF visitorVars, machineVars
<1> QED BY <1>3, <1>4, <1>6, <1>7, <1>8, <1>10, <1>11, <1>12 DEF VisitorNext

LEMMA ContextBegins == VisitorInit => ContextInv
<1> SUFFICES ASSUME VisitorInit PROVE ContextInv
  OBVIOUS
<1>1. open = <<>> /\ current_fn = NoFunction /\ loop_depth = 0 /\ nodes \in Nat
  BY DEF VisitorInit
<1>2. open \in Seq(Node) /\ Len(open) = 0 /\ DOMAIN open = {}
  BY <1>1, EmptySeq
<1>3. FnNodes(open) = {} /\ Loops(open) = {} /\ SavedRight(open)
  BY <1>2 DEF FnNodes, Loops, SavedRight
<1>4. Owner(open) = NoFunction /\ Cardinality(Loops(open)) = 0
  BY <1>2, <1>3, OwnerNone, FS_EmptySet
<1> QED BY <1>1, <1>2, <1>3, <1>4 DEF ContextInv, ContextMatchesNesting

\* For every file: wherever the visitor is, the current function is the
\* innermost open function item and the depth counts the open loops.
THEOREM ContextAlwaysMatches == VisitorSpec => []ContextMatchesNesting
<1>1. ContextInv => ContextMatchesNesting
  BY DEF ContextInv
<1> QED BY <1>1, ContextBegins, ContextStep, PTL DEF VisitorSpec

-----------------------------------------------------------------------------
(* One file: the records.                                                  *)

AccessEntry == [function: FunctionNames, kind: {"read", "write"}, key: STRING, in_loop: BOOLEAN]
CallEntry == [function: FunctionNames, method: STRING, receiver: STRING, in_loop: BOOLEAN]
VisitedSite == [path: Seq(Node), effects: Seq(Effect), clients: Seq(Client)]

\* What a site is to leave in the records.
AccessesLeft(site) ==
  IF Owner(site.path) = NoFunction THEN <<>>
  ELSE EffectRecords(site.effects, Owner(site.path), Loops(site.path) # {})

CallsLeft(site) ==
  IF Owner(site.path) = NoFunction THEN <<>>
  ELSE ClientRecords(site.clients, Owner(site.path), Loops(site.path) # {})

\* The records as what they say, as EffectsRecorded compares them.
Mark == Contexts \X BOOLEAN \X (Effect \cup Client)
AccessMark(a) == <<a.function, a.in_loop, [kind |-> a.kind, key |-> a.key]>>
CallMark(c) == <<c.function, c.in_loop, [method |-> c.method, receiver |-> c.receiver]>>

LEMMA SiteLeaves ==
  ASSUME NEW site \in VisitedSite
  PROVE  /\ AccessesLeft(site) \in Seq(AccessEntry) /\ CallsLeft(site) \in Seq(CallEntry)
         /\ Marked(site, site.effects) =
              [k \in DOMAIN AccessesLeft(site) |-> AccessMark(AccessesLeft(site)[k])]
         /\ Marked(site, site.clients) =
              [k \in DOMAIN CallsLeft(site) |-> CallMark(CallsLeft(site)[k])]
         /\ Marked(site, site.effects) \in Seq(Mark) /\ Marked(site, site.clients) \in Seq(Mark)
<1>1. PICK owner, inLoop, effects, clients :
        /\ owner = Owner(site.path) /\ inLoop = (Loops(site.path) # {})
        /\ effects = site.effects /\ clients = site.clients
  OBVIOUS
<1>2. owner \in Contexts /\ inLoop \in BOOLEAN /\ effects \in Seq(Effect) /\ clients \in Seq(Client)
  BY <1>1, OwnerNamed DEF VisitedSite
<1>3. /\ Len(effects) \in Nat /\ DOMAIN effects = 1..Len(effects)
      /\ \A k \in 1..Len(effects) : effects[k] \in Effect
      /\ Len(clients) \in Nat /\ DOMAIN clients = 1..Len(clients)
      /\ \A k \in 1..Len(clients) : clients[k] \in Client
  BY <1>2, LenProperties, ElementOfSeq
<1>4. CASE owner = NoFunction
  <2>1. /\ AccessesLeft(site) = <<>> /\ CallsLeft(site) = <<>>
        /\ Marked(site, site.effects) = <<>> /\ Marked(site, site.clients) = <<>>
    BY <1>1, <1>4 DEF AccessesLeft, CallsLeft, Marked
  <2>2. PICK none : none = <<>>
    OBVIOUS
  <2>3. DOMAIN none = {} /\ \A S : none \in Seq(S)
    BY <2>2, EmptySeq
  <2>4. none = [k \in DOMAIN none |-> AccessMark(none[k])] /\ none = [k \in DOMAIN none |-> CallMark(none[k])]
    <3>1. none = [k \in DOMAIN none |-> none[k]]
      BY <2>3, LenProperties
    <3> QED BY <2>3, <3>1
  <2> QED BY <2>1, <2>2, <2>3, <2>4
<1>5. CASE owner # NoFunction
  <2>1. owner \in FunctionNames
    BY <1>2, <1>5 DEF Contexts
  <2> DEFINE left == [k \in 1..Len(effects) |->
               [function |-> owner, kind |-> effects[k].kind,
                key |-> effects[k].key, in_loop |-> inLoop]]
             called == [k \in 1..Len(clients) |->
               [function |-> owner, method |-> clients[k].method,
                receiver |-> clients[k].receiver, in_loop |-> inLoop]]
             marks == [k \in 1..Len(effects) |-> <<owner, inLoop, effects[k]>>]
             calling == [k \in 1..Len(clients) |-> <<owner, inLoop, clients[k]>>]
  <2>2. /\ AccessesLeft(site) = left /\ CallsLeft(site) = called
        /\ Marked(site, site.effects) = marks /\ Marked(site, site.clients) = calling
    BY <1>1, <1>3, <1>5 DEF AccessesLeft, CallsLeft, EffectRecords, ClientRecords, Marked
  <2>3. \A k \in 1..Len(effects) :
          /\ left[k] \in AccessEntry /\ AccessMark(left[k]) = <<owner, inLoop, effects[k]>>
          /\ marks[k] \in Mark
    BY <1>2, <1>3, <2>1 DEF Effect, AccessEntry, AccessMark, Mark
  <2>4. \A k \in 1..Len(clients) :
          /\ called[k] \in CallEntry /\ CallMark(called[k]) = <<owner, inLoop, clients[k]>>
          /\ calling[k] \in Mark
    BY <1>2, <1>3, <2>1 DEF Client, CallEntry, CallMark, Mark
  <2>5. DOMAIN left = 1..Len(effects) /\ DOMAIN called = 1..Len(clients)
    OBVIOUS
  <2>6. /\ left = [k \in 1..Len(effects) |-> left[k]] /\ marks = [k \in 1..Len(effects) |-> marks[k]]
        /\ called = [k \in 1..Len(clients) |-> called[k]] /\ calling = [k \in 1..Len(clients) |-> calling[k]]
    OBVIOUS
  <2>7. /\ left \in Seq(AccessEntry) /\ marks \in Seq(Mark)
        /\ called \in Seq(CallEntry) /\ calling \in Seq(Mark)
    <3> HIDE DEF left, called, marks, calling
    <3> QED BY <1>3, <2>3, <2>4, <2>6, FunctionIsList
  <2>8. marks = [k \in DOMAIN left |-> AccessMark(left[k])]
    <3> HIDE DEF left
    <3> QED BY <2>3, <2>5
  <2>9. calling = [k \in DOMAIN called |-> CallMark(called[k])]
    <3> HIDE DEF called
    <3> QED BY <2>4, <2>5
  <2> HIDE DEF left, called, marks, calling
  <2> QED BY <2>2, <2>7, <2>8, <2>9
<1> QED BY <1>4, <1>5

\* The marks of one site more.
LEMMA MarksAppend ==
  ASSUME NEW S \in Seq(VisitedSite), NEW site \in VisitedSite, NEW kind \in {"effects", "clients"},
         NEW longer, longer = Append(S, site)
  PROVE  /\ FlattenSeq([i \in DOMAIN S |-> Marked(S[i], S[i][kind])]) \in Seq(Mark)
         /\ FlattenSeq([i \in DOMAIN longer |-> Marked(longer[i], longer[i][kind])]) =
              FlattenSeq([i \in DOMAIN S |-> Marked(S[i], S[i][kind])]) \o Marked(site, site[kind])
<1> DEFINE n == Len(S)
           lists == [i \in DOMAIN S |-> Marked(S[i], S[i][kind])]
           more == [i \in DOMAIN longer |-> Marked(longer[i], longer[i][kind])]
           list == Marked(site, site[kind])
<1>1. \A x \in VisitedSite : Marked(x, x[kind]) \in Seq(Mark)
  BY SiteLeaves
<1>2. /\ n \in Nat /\ DOMAIN S = 1..n /\ \A i \in 1..n : S[i] \in VisitedSite
      /\ longer \in Seq(VisitedSite) /\ Len(longer) = n + 1 /\ DOMAIN longer = 1..(n + 1)
      /\ \A i \in 1..n : longer[i] = S[i]
      /\ longer[n + 1] = site
      /\ \A i \in 1..(n + 1) : longer[i] \in VisitedSite
  BY AppendProperties, LenProperties, ElementOfSeq
<1>3. /\ lists \in Seq(Seq(Mark)) /\ Len(lists) = n
      /\ more \in Seq(Seq(Mark)) /\ Len(more) = n + 1 /\ list \in Seq(Mark)
  BY <1>1, <1>2, IsASeq, LenProperties
<1>4. /\ \A i \in 1..n : more[i] = lists[i]
      /\ more[n + 1] = list
  BY <1>2
<1> HIDE DEF lists, more, list, n
<1>5. /\ Append(lists, list) \in Seq(Seq(Mark)) /\ Len(Append(lists, list)) = n + 1
      /\ \A i \in 1..n : Append(lists, list)[i] = lists[i]
      /\ Append(lists, list)[n + 1] = list
  BY <1>3, AppendProperties
<1>6. \A i \in 1..(n + 1) : i \in 1..n \/ i = n + 1
  BY <1>2
<1>7. \A i \in 1..(n + 1) : more[i] = Append(lists, list)[i]
  BY <1>4, <1>5, <1>6
<1>8. more = Append(lists, list)
  BY <1>3, <1>5, <1>7, SeqEqual
<1>9. FlattenSeq(lists) \in Seq(Mark) /\ FlattenSeq(Append(lists, list)) = FlattenSeq(lists) \o list
  BY <1>3, FlattenAppend
<1> QED BY <1>8, <1>9 DEF lists, more, list

RecordsInv ==
  /\ ContextInv
  /\ accesses \in Seq(AccessEntry)
  /\ calls \in Seq(CallEntry)
  /\ sites \in Seq(VisitedSite)
  /\ EffectsRecorded

\* A loop is open exactly if the depth is positive.
LEMMA DepthOfLoops ==
  ASSUME NEW path \in Seq(Node)
  PROVE  (Cardinality(Loops(path)) > 0) = (Loops(path) # {})
<1>1. Len(path) \in Nat /\ Loops(path) \subseteq 1..Len(path)
  BY LenProperties DEF Loops
<1>2. IsFiniteSet(Loops(path)) /\ Cardinality(Loops(path)) \in Nat
  BY <1>1, UpToSize, FS_Subset, FS_CardinalityType
<1>3. Cardinality(Loops(path)) = 0 <=> Loops(path) = {}
  BY <1>2, FS_EmptySet
<1> QED BY <1>2, <1>3

\* A visited statement leaves what it does, in the context it lies in.
LEMMA VisitLeaves ==
  ASSUME StatementsRecorded, ContextInv, NEW s \in Statements, VisitStatement(s),
         accesses \in Seq(AccessEntry), calls \in Seq(CallEntry)
  PROVE  \E site \in VisitedSite :
           /\ site.path = open
           /\ sites' = Append(sites, site)
           /\ accesses' = accesses \o AccessesLeft(site)
           /\ calls' = calls \o CallsLeft(site)
<1>1. PICK site : site = [path |-> open, effects |-> s.effects, clients |-> s.clients]
  OBVIOUS
<1>2. s.effects \in Seq(Effect) /\ s.clients \in Seq(Client)
  BY VisitorAssumption
<1>3. /\ open \in Seq(Node) /\ current_fn = Owner(open)
      /\ loop_depth = Cardinality(Loops(open))
  BY DEF ContextInv, ContextMatchesNesting
<1>4. site \in VisitedSite /\ site.path = open /\ site.effects = s.effects /\ site.clients = s.clients
  BY <1>1, <1>2, <1>3 DEF VisitedSite
<1>5. sites' = Append(sites, site)
  BY <1>1 DEF VisitStatement
<1>6. CASE current_fn = NoFunction
  <2>1. AccessesLeft(site) = <<>> /\ CallsLeft(site) = <<>>
    BY <1>3, <1>4, <1>6 DEF AccessesLeft, CallsLeft
  <2>2. accesses' = accesses /\ calls' = calls
    BY <1>6 DEF VisitStatement
  <2>3. accesses \o <<>> = accesses /\ calls \o <<>> = calls
    BY ConcatEmptySeq
  <2> QED BY <1>4, <1>5, <2>1, <2>2, <2>3
<1>7. CASE current_fn # NoFunction
  <2>1. current_fn \in FunctionNames
    BY <1>3, <1>7, OwnerNamed DEF Contexts
  <2>2. (loop_depth > 0) = (Loops(open) # {}) /\ (loop_depth > 0) \in BOOLEAN
    BY <1>3, DepthOfLoops
  <2>3. /\ AccessesIn(s.expr, current_fn, loop_depth > 0) =
             EffectRecords(s.effects, current_fn, loop_depth > 0)
        /\ CallsIn(s.expr, current_fn, loop_depth > 0) =
             ClientRecords(s.clients, current_fn, loop_depth > 0)
    BY <1>7 DEF StatementsRecorded
  <2>4. /\ AccessesLeft(site) = EffectRecords(s.effects, current_fn, loop_depth > 0)
        /\ CallsLeft(site) = ClientRecords(s.clients, current_fn, loop_depth > 0)
    BY <1>3, <1>4, <1>7, <2>2 DEF AccessesLeft, CallsLeft
  <2>5. /\ accesses' = accesses \o AccessesIn(s.expr, current_fn, loop_depth > 0)
        /\ calls' = calls \o CallsIn(s.expr, current_fn, loop_depth > 0)
    BY <1>7 DEF VisitStatement
  <2> QED BY <1>4, <1>5, <2>3, <2>4, <2>5
<1> QED BY <1>6, <1>7

LEMMA RecordsStep ==
  StatementsRecorded /\ RecordsInv /\ [VisitorNext]_visitorVars => RecordsInv'
<1> SUFFICES ASSUME StatementsRecorded, RecordsInv, [VisitorNext]_visitorVars PROVE RecordsInv'
  OBVIOUS
<1>1. ContextInv'
  BY ContextStep DEF RecordsInv
<1>2. CASE UNCHANGED <<accesses, calls, sites>>
  BY <1>1, <1>2 DEF RecordsInv, EffectsRecorded
<1>3. ASSUME NEW s \in Statements, VisitStatement(s) PROVE RecordsInv'
  <2>1. PICK site \in VisitedSite :
          /\ sites' = Append(sites, site)
          /\ accesses' = accesses \o AccessesLeft(site)
          /\ calls' = calls \o CallsLeft(site)
    BY <1>3, VisitLeaves DEF RecordsInv
  <2>2. PICK left, called : left = AccessesLeft(site) /\ called = CallsLeft(site)
    OBVIOUS
  <2>3. /\ left \in Seq(AccessEntry) /\ called \in Seq(CallEntry)
        /\ Marked(site, site.effects) = [k \in DOMAIN left |-> AccessMark(left[k])]
        /\ Marked(site, site.clients) = [k \in DOMAIN called |-> CallMark(called[k])]
    BY <2>2, SiteLeaves
  <2>4. /\ accesses \in Seq(AccessEntry) /\ calls \in Seq(CallEntry) /\ sites \in Seq(VisitedSite)
    BY DEF RecordsInv
  <2>5. /\ accesses' \in Seq(AccessEntry) /\ calls' \in Seq(CallEntry) /\ sites' \in Seq(VisitedSite)
    BY <2>1, <2>2, <2>3, <2>4, ConcatProperties, AppendProperties
  <2> DEFINE markA == [a \in AccessEntry |-> AccessMark(a)]
             markC == [c \in CallEntry |-> CallMark(c)]
  <2>6. markA \in [AccessEntry -> Mark] /\ markC \in [CallEntry -> Mark]
    BY DEF AccessEntry, CallEntry, AccessMark, CallMark, Mark, Contexts, Effect, Client
  <2>7. /\ \A list \in Seq(AccessEntry) :
             Mapped(markA, list) = [i \in DOMAIN list |-> AccessMark(list[i])]
        /\ \A list \in Seq(CallEntry) :
             Mapped(markC, list) = [i \in DOMAIN list |-> CallMark(list[i])]
    <3>1. ASSUME NEW list \in Seq(AccessEntry)
          PROVE  Mapped(markA, list) = [i \in DOMAIN list |-> AccessMark(list[i])]
      <4>1. \A i \in DOMAIN list : list[i] \in AccessEntry
        BY LenProperties, ElementOfSeq
      <4> QED BY <4>1 DEF Mapped
    <3>2. ASSUME NEW list \in Seq(CallEntry)
          PROVE  Mapped(markC, list) = [i \in DOMAIN list |-> CallMark(list[i])]
      <4>1. \A i \in DOMAIN list : list[i] \in CallEntry
        BY LenProperties, ElementOfSeq
      <4> QED BY <4>1 DEF Mapped
    <3> QED BY <3>1, <3>2
  <2> HIDE DEF markA, markC
  <2>8. [i \in DOMAIN accesses' |-> AccessMark(accesses'[i])] =
           [i \in DOMAIN accesses |-> AccessMark(accesses[i])] \o Marked(site, site.effects)
    <3>1. PICK one, all, f : one = accesses /\ all = accesses' /\ f = markA
      OBVIOUS
    <3>2. one \in Seq(AccessEntry) /\ all \in Seq(AccessEntry) /\ f \in [AccessEntry -> Mark] /\ all = one \o left
      BY <2>1, <2>2, <2>4, <2>5, <2>6, <3>1
    <3>3. left \in Seq(AccessEntry)
      BY <2>3
    <3>4. Mapped(f, one \o left) = Mapped(f, one) \o Mapped(f, left)
      BY <3>2, <3>3, ConcatMapped
    <3>5. /\ Mapped(f, one) = [i \in DOMAIN one |-> AccessMark(one[i])]
          /\ Mapped(f, all) = [i \in DOMAIN all |-> AccessMark(all[i])]
          /\ Mapped(f, left) = [i \in DOMAIN left |-> AccessMark(left[i])]
      BY <2>7, <3>1, <3>2, <3>3
    <3> QED BY <2>3, <3>1, <3>2, <3>4, <3>5
  <2>9. [i \in DOMAIN calls' |-> CallMark(calls'[i])] =
           [i \in DOMAIN calls |-> CallMark(calls[i])] \o Marked(site, site.clients)
    <3>1. PICK one, all, f : one = calls /\ all = calls' /\ f = markC
      OBVIOUS
    <3>2. one \in Seq(CallEntry) /\ all \in Seq(CallEntry) /\ f \in [CallEntry -> Mark] /\ all = one \o called
      BY <2>1, <2>2, <2>4, <2>5, <2>6, <3>1
    <3>3. called \in Seq(CallEntry)
      BY <2>3
    <3>4. Mapped(f, one \o called) = Mapped(f, one) \o Mapped(f, called)
      BY <3>2, <3>3, ConcatMapped
    <3>5. /\ Mapped(f, one) = [i \in DOMAIN one |-> CallMark(one[i])]
          /\ Mapped(f, all) = [i \in DOMAIN all |-> CallMark(all[i])]
          /\ Mapped(f, called) = [i \in DOMAIN called |-> CallMark(called[i])]
      BY <2>7, <3>1, <3>2, <3>3
    <3> QED BY <2>3, <3>1, <3>2, <3>4, <3>5
  <2>10. /\ FlattenSeq([i \in DOMAIN sites' |-> Marked(sites'[i], sites'[i].effects)]) =
              FlattenSeq([i \in DOMAIN sites |-> Marked(sites[i], sites[i].effects)])
                \o Marked(site, site.effects)
         /\ FlattenSeq([i \in DOMAIN sites' |-> Marked(sites'[i], sites'[i].clients)]) =
              FlattenSeq([i \in DOMAIN sites |-> Marked(sites[i], sites[i].clients)])
                \o Marked(site, site.clients)
    <3>1. PICK longer : longer = sites'
      OBVIOUS
    <3>2. longer = Append(sites, site)
      BY <2>1, <3>1
    <3> QED BY <2>4, <3>1, <3>2, MarksAppend
  <2>11. EffectsRecorded'
    <3>1. /\ FlattenSeq([i \in DOMAIN sites |-> Marked(sites[i], sites[i].effects)]) =
               [i \in DOMAIN accesses |-> AccessMark(accesses[i])]
          /\ FlattenSeq([i \in DOMAIN sites |-> Marked(sites[i], sites[i].clients)]) =
               [i \in DOMAIN calls |-> CallMark(calls[i])]
      BY DEF RecordsInv, EffectsRecorded, AccessMark, CallMark
    <3>2. /\ FlattenSeq([i \in DOMAIN sites' |-> Marked(sites'[i], sites'[i].effects)]) =
               [i \in DOMAIN accesses' |-> AccessMark(accesses'[i])]
          /\ FlattenSeq([i \in DOMAIN sites' |-> Marked(sites'[i], sites'[i].clients)]) =
               [i \in DOMAIN calls' |-> CallMark(calls'[i])]
      BY <2>8, <2>9, <2>10, <3>1
    <3> QED BY <3>2 DEF EffectsRecorded, AccessMark, CallMark
  <2> QED BY <1>1, <2>5, <2>11 DEF RecordsInv
<1>4. ASSUME NEW name \in FunctionNames, EnterFn(name) \/ EnterTraitFn(name) PROVE RecordsInv'
  BY <1>2, <1>4 DEF EnterFn, EnterTraitFn
<1>5. CASE EnterLoop
  BY <1>2, <1>5 DEF EnterLoop
<1>6. CASE LeaveFn
  BY <1>2, <1>6 DEF LeaveFn
<1>7. CASE LeaveTraitFn
  BY <1>2, <1>7 DEF LeaveTraitFn
<1>8. CASE LeaveLoop
  BY <1>2, <1>8 DEF LeaveLoop
<1>9. CASE Finish
  BY <1>2, <1>9 DEF Finish
<1>10. CASE UNCHANGED visitorVars
  BY <1>2, <1>10 DEF visitorVars, machineVars
<1> QED BY <1>3, <1>4, <1>5, <1>6, <1>7, <1>8, <1>9, <1>10 DEF VisitorNext

LEMMA RecordsBegin == VisitorInit => RecordsInv
<1> SUFFICES ASSUME VisitorInit PROVE RecordsInv
  OBVIOUS
<1>1. ContextInv
  BY ContextBegins
<1>2. accesses = <<>> /\ calls = <<>> /\ sites = <<>>
  BY DEF VisitorInit
<1>3. PICK none : none = <<>>
  OBVIOUS
<1>4. DOMAIN none = {} /\ Len(none) = 0 /\ \A S : none \in Seq(S)
  BY <1>3, EmptySeq
<1>5. FlattenSeq(none) = none
  BY <1>3, <1>4 DEF FlattenSeq
<1>6. none = [i \in DOMAIN none |-> none[i]]
  BY <1>4, LenProperties
<1>7. EffectsRecorded
  BY <1>2, <1>3, <1>4, <1>5, <1>6 DEF EffectsRecorded
<1> QED BY <1>1, <1>2, <1>3, <1>4, <1>7 DEF RecordsInv

\* For every file whose single statements are recorded right: the records are
\* the effects and the client calls of its statements, once each and in order,
\* with the innermost function's name and whether a loop is open, wherever the
\* walk is.
THEOREM EffectsAlwaysRecorded ==
  VisitorSpec /\ []StatementsRecorded => []EffectsRecorded
<1>1. RecordsInv => EffectsRecorded
  BY DEF RecordsInv
<1>2. StatementsRecorded /\ RecordsInv /\ [VisitorNext]_visitorVars => RecordsInv'
  BY RecordsStep
<1> QED BY <1>1, <1>2, RecordsBegin, PTL DEF VisitorSpec

-----------------------------------------------------------------------------
(* One file: the findings.                                                 *)

DoneEntry(site, i, k) ==
  [name |-> Owner(site.path), path |-> site.path,
   kind |-> site.effects[k].kind, key |-> site.effects[k].key, at |-> <<i, k>>]

\* What the i-th site does.
DoneAt(site, i) ==
  IF Owner(site.path) = NoFunction THEN {}
  ELSE {DoneEntry(site, i, k) : k \in 1..Len(site.effects)}

AllDone(S) == UNION {DoneAt(S[i], i) : i \in 1..Len(S)}

\* A record that stands for an effect.
StandsFor(a, d) ==
  /\ a.function = d.name /\ a.kind = d.kind /\ a.key = d.key
  /\ a.in_loop = (Loops(d.path) # {})

\* The records stand for the effects, each for one.
Pairs(did, A, D) ==
  /\ did \in Bijection(1..Len(A), D)
  /\ \A p \in 1..Len(A) : StandsFor(A[p], did[p])

\* Each effect is known by the place it is at.
PlacesTell(D) == \A d, e \in D : d.at = e.at => d = e

LEMMA DoneIsAll ==
  ASSUME NEW S \in Seq(VisitedSite)
  PROVE  AllDone(S) =
           UNION {{[name |-> Owner(S[i].path), path |-> S[i].path,
                    kind |-> S[i].effects[k].kind, key  |-> S[i].effects[k].key,
                    at   |-> <<i, k>>] : k \in DOMAIN S[i].effects} :
                  i \in {j \in DOMAIN S : Owner(S[j].path) # NoFunction}}
<1>1. DOMAIN S = 1..Len(S) /\ \A i \in 1..Len(S) : S[i] \in VisitedSite
  BY LenProperties, ElementOfSeq
<1>2. \A i \in 1..Len(S) : DOMAIN S[i].effects = 1..Len(S[i].effects)
  BY <1>1, LenProperties DEF VisitedSite
<1> DEFINE Inside == {j \in DOMAIN S : Owner(S[j].path) # NoFunction}
           Of(i) == {[name |-> Owner(S[i].path), path |-> S[i].path,
                      kind |-> S[i].effects[k].kind, key |-> S[i].effects[k].key,
                      at   |-> <<i, k>>] : k \in DOMAIN S[i].effects}
<1>3. ASSUME NEW i \in 1..Len(S)
      PROVE  DoneAt(S[i], i) = IF i \in Inside THEN Of(i) ELSE {}
  BY <1>1, <1>2 DEF DoneAt, DoneEntry
<1>4. Inside \subseteq 1..Len(S)
  BY <1>1
<1> HIDE DEF Inside, Of
<1>5. AllDone(S) = UNION {IF i \in Inside THEN Of(i) ELSE {} : i \in 1..Len(S)}
  BY <1>3 DEF AllDone
<1>6. AllDone(S) = UNION {Of(i) : i \in Inside}
  BY <1>4, <1>5
<1> QED BY <1>6 DEF Inside, Of

LEMMA DoneNow == sites \in Seq(VisitedSite) => Done = AllDone(sites)
<1> SUFFICES ASSUME sites \in Seq(VisitedSite) PROVE Done = AllDone(sites)
  OBVIOUS
<1>1. PICK S : S = sites
  OBVIOUS
<1>2. AllDone(S) =
        UNION {{[name |-> Owner(S[i].path), path |-> S[i].path,
                 kind |-> S[i].effects[k].kind, key  |-> S[i].effects[k].key,
                 at   |-> <<i, k>>] : k \in DOMAIN S[i].effects} :
               i \in {j \in DOMAIN S : Owner(S[j].path) # NoFunction}}
  BY <1>1, DoneIsAll
<1> QED BY <1>1, <1>2 DEF Done

LEMMA DoneNext == sites' \in Seq(VisitedSite) => Done' = AllDone(sites')
<1> SUFFICES ASSUME sites' \in Seq(VisitedSite) PROVE Done' = AllDone(sites')
  OBVIOUS
<1>1. PICK S : S = sites'
  OBVIOUS
<1>2. AllDone(S) =
        UNION {{[name |-> Owner(S[i].path), path |-> S[i].path,
                 kind |-> S[i].effects[k].kind, key  |-> S[i].effects[k].key,
                 at   |-> <<i, k>>] : k \in DOMAIN S[i].effects} :
               i \in {j \in DOMAIN S : Owner(S[j].path) # NoFunction}}
  BY <1>1, DoneIsAll
<1> QED BY <1>1, <1>2 DEF Done

LEMMA DoneMember ==
  ASSUME NEW S, NEW x
  PROVE  x \in AllDone(S) <=> \E i \in 1..Len(S) : x \in DoneAt(S[i], i)
BY DEF AllDone

LEMMA DoneAtMember ==
  ASSUME NEW site, NEW i, NEW x
  PROVE  x \in DoneAt(site, i) <=>
           Owner(site.path) # NoFunction /\ \E k \in 1..Len(site.effects) : x = DoneEntry(site, i, k)
BY DEF DoneAt

LEMMA DonePlaces ==
  ASSUME NEW S
  PROVE  /\ PlacesTell(AllDone(S))
         /\ \A d \in AllDone(S) : d.at[1] \in 1..Len(S)
<1>1. ASSUME NEW d \in AllDone(S)
      PROVE  \E i \in 1..Len(S) : \E k \in 1..Len(S[i].effects) : d = DoneEntry(S[i], i, k)
  BY DoneMember, DoneAtMember
<1>2. ASSUME NEW i, NEW k PROVE DoneEntry(S[i], i, k).at = <<i, k>>
  BY DEF DoneEntry
<1>3. ASSUME NEW d \in AllDone(S), NEW e \in AllDone(S), d.at = e.at PROVE d = e
  <2>1. PICK i \in 1..Len(S) : \E k \in 1..Len(S[i].effects) : d = DoneEntry(S[i], i, k)
    BY <1>1
  <2>2. PICK k \in 1..Len(S[i].effects) : d = DoneEntry(S[i], i, k)
    BY <2>1
  <2>3. PICK j \in 1..Len(S) : \E m \in 1..Len(S[j].effects) : e = DoneEntry(S[j], j, m)
    BY <1>1
  <2>4. PICK m \in 1..Len(S[j].effects) : e = DoneEntry(S[j], j, m)
    BY <2>3
  <2>5. <<i, k>> = <<j, m>>
    BY <1>2, <1>3, <2>2, <2>4
  <2>6. i = j /\ k = m
    BY <2>5
  <2> QED BY <2>2, <2>4, <2>6
<1>4. ASSUME NEW d \in AllDone(S) PROVE d.at[1] \in 1..Len(S)
  <2>1. PICK i \in 1..Len(S) : \E k \in 1..Len(S[i].effects) : d = DoneEntry(S[i], i, k)
    BY <1>1
  <2>2. PICK k \in 1..Len(S[i].effects) : d = DoneEntry(S[i], i, k)
    BY <2>1
  <2>3. d.at = <<i, k>>
    BY <1>2, <2>2
  <2> QED BY <2>3
<1> QED BY <1>3, <1>4 DEF PlacesTell

\* A site more: its records stand for its effects.
LEMMA PairsGrow ==
  ASSUME NEW S \in Seq(VisitedSite), NEW site \in VisitedSite, NEW A \in Seq(AccessEntry),
         NEW did, Pairs(did, A, AllDone(S))
  PROVE  \E more : Pairs(more, A \o AccessesLeft(site), AllDone(Append(S, site)))
<1>1. PICK left, longer, all :
        left = AccessesLeft(site) /\ longer = Append(S, site) /\ all = A \o left
  OBVIOUS
<1>2. /\ Len(S) \in Nat /\ longer \in Seq(VisitedSite) /\ Len(longer) = Len(S) + 1
      /\ \A i \in 1..Len(S) : longer[i] = S[i]
      /\ longer[Len(S) + 1] = site
  BY <1>1, AppendProperties, LenProperties
<1>3. left \in Seq(AccessEntry) /\ Len(left) \in Nat /\ Len(A) \in Nat
  BY <1>1, SiteLeaves, LenProperties
<1>4. /\ Len(all) = Len(A) + Len(left)
      /\ \A p \in 1..(Len(A) + Len(left)) :
           all[p] = IF p <= Len(A) THEN A[p] ELSE left[p - Len(A)]
  BY <1>1, <1>3, ConcatProperties
<1>5. AllDone(longer) = AllDone(S) \cup DoneAt(site, Len(S) + 1)
  <2>1. \A i \in 1..(Len(S) + 1) : i \in 1..Len(S) \/ i = Len(S) + 1
    BY <1>2
  <2>2. /\ Len(S) + 1 \in 1..(Len(S) + 1)
        /\ \A i \in 1..Len(S) : i \in 1..(Len(S) + 1)
    BY <1>2
  <2>3. ASSUME NEW x
        PROVE  x \in AllDone(longer) <=> x \in AllDone(S) \/ x \in DoneAt(site, Len(S) + 1)
    <3>1. x \in AllDone(longer) <=> \E i \in 1..(Len(S) + 1) : x \in DoneAt(longer[i], i)
      BY <1>2, DoneMember
    <3>2. x \in AllDone(S) <=> \E i \in 1..Len(S) : x \in DoneAt(S[i], i)
      BY DoneMember
    <3> QED BY <1>2, <2>1, <2>2, <3>1, <3>2
  <2> QED BY <2>3
<1>6. PICK fresh, here : fresh = DoneAt(site, Len(S) + 1) /\ here = Len(S) + 1
  OBVIOUS
<1>7. /\ \A k \in 1..Len(left) : /\ DoneEntry(site, here, k) \in fresh
                                 /\ StandsFor(left[k], DoneEntry(site, here, k))
      /\ \A x \in fresh : \E k \in 1..Len(left) : x = DoneEntry(site, here, k)
  <2>1. CASE Owner(site.path) = NoFunction
    <3>1. left = <<>> /\ fresh = {}
      BY <1>1, <1>6, <2>1 DEF AccessesLeft, DoneAt
    <3>2. Len(left) = 0
      BY <3>1, EmptySeq
    <3> QED BY <3>1, <3>2
  <2>2. CASE Owner(site.path) # NoFunction
    <3>1. PICK owner, inLoop, effects :
            /\ owner = Owner(site.path) /\ inLoop = (Loops(site.path) # {})
            /\ effects = site.effects
      OBVIOUS
    <3>2. effects \in Seq(Effect) /\ DOMAIN effects = 1..Len(effects) /\ Len(effects) \in Nat
      BY <3>1, LenProperties DEF VisitedSite
    <3>3. left = [k \in 1..Len(effects) |->
                    [function |-> owner, kind |-> effects[k].kind, key |-> effects[k].key,
                     in_loop |-> inLoop]]
      BY <1>1, <2>2, <3>1, <3>2 DEF AccessesLeft, EffectRecords
    <3>4. Len(left) = Len(effects)
      BY <1>3, <3>2, <3>3, LenProperties
    <3>5. \A k \in 1..Len(effects) : StandsFor(left[k], DoneEntry(site, here, k))
      BY <3>1, <3>3 DEF StandsFor, DoneEntry
    <3>6. \A x : x \in fresh <=> \E k \in 1..Len(effects) : x = DoneEntry(site, here, k)
      BY <1>6, <2>2, <3>1, DoneAtMember
    <3> QED BY <3>4, <3>5, <3>6
  <2> QED BY <2>1, <2>2
<1>8. /\ did \in Bijection(1..Len(A), AllDone(S))
      /\ \A p \in 1..Len(A) : StandsFor(A[p], did[p])
  BY DEF Pairs
<1>9. /\ \A p \in 1..Len(A) : did[p] \in AllDone(S)
      /\ \A p, q \in 1..Len(A) : did[p] = did[q] => p = q
      /\ \A d \in AllDone(S) : \E p \in 1..Len(A) : did[p] = d
  BY <1>8 DEF Bijection, Injection, Surjection, IsInjective
<1>10. \A k : DoneEntry(site, here, k).at = <<here, k>>
  BY DEF DoneEntry
<1>11. AllDone(S) \cap fresh = {}
  <2> SUFFICES ASSUME NEW x \in AllDone(S), x \in fresh PROVE FALSE
    OBVIOUS
  <2>1. PICK k \in 1..Len(left) : x = DoneEntry(site, here, k)
    BY <1>7
  <2>2. x.at = <<here, k>>
    BY <1>10, <2>1
  <2>3. x.at[1] \in 1..Len(S)
    BY DonePlaces
  <2>4. here \in 1..Len(S)
    BY <2>2, <2>3
  <2> QED BY <1>2, <1>6, <2>4
<1>12. \A k, m : DoneEntry(site, here, k) = DoneEntry(site, here, m) => k = m
  <2> SUFFICES ASSUME NEW k, NEW m, DoneEntry(site, here, k) = DoneEntry(site, here, m) PROVE k = m
    OBVIOUS
  <2>1. <<here, k>> = <<here, m>>
    BY <1>10
  <2> QED BY <2>1
<1> DEFINE N == 1..(Len(A) + Len(left))
           more == [p \in N |-> IF p <= Len(A) THEN did[p] ELSE DoneEntry(site, here, p - Len(A))]
           D == AllDone(S) \cup fresh
<1>13. ASSUME NEW p \in N
       PROVE  \/ p \in 1..Len(A) /\ more[p] = did[p] /\ more[p] \in AllDone(S) /\ all[p] = A[p]
              \/ /\ ~(p <= Len(A)) /\ p - Len(A) \in 1..Len(left)
                 /\ more[p] = DoneEntry(site, here, p - Len(A)) /\ more[p] \in fresh
                 /\ all[p] = left[p - Len(A)]
  <2>1. p \in Nat /\ p >= 1 /\ p <= Len(A) + Len(left)
    BY <1>3
  <2>2. CASE p <= Len(A)
    <3>1. p \in 1..Len(A)
      BY <1>3, <2>1, <2>2
    <3> QED BY <1>4, <1>9, <2>2, <3>1
  <2>3. CASE ~(p <= Len(A))
    <3>1. p - Len(A) \in 1..Len(left)
      BY <1>3, <2>1, <2>3
    <3> QED BY <1>4, <1>7, <2>3, <3>1
  <2> QED BY <2>2, <2>3
<1>14. ASSUME NEW d \in D PROVE \E p \in N : more[p] = d
  <2>1. CASE d \in AllDone(S)
    <3>1. PICK p \in 1..Len(A) : did[p] = d
      BY <1>9, <2>1
    <3>2. p \in N /\ p <= Len(A)
      BY <1>3
    <3> QED BY <3>1, <3>2
  <2>2. CASE d \in fresh
    <3>1. PICK k \in 1..Len(left) : d = DoneEntry(site, here, k)
      BY <1>7, <2>2
    <3>2. PICK p : p = Len(A) + k
      OBVIOUS
    <3>3. p \in N /\ ~(p <= Len(A)) /\ p - Len(A) = k
      BY <1>3, <3>2
    <3> QED BY <3>1, <3>3
  <2> QED BY <2>1, <2>2
<1>15. DOMAIN more = N
  OBVIOUS
<1>16. more = [p \in N |-> more[p]]
  OBVIOUS
<1> HIDE DEF N, more
<1>17. ASSUME NEW p \in N, NEW q \in N, more[p] = more[q] PROVE p = q
  <2>1. p \in Int /\ q \in Int /\ Len(A) \in Int
    BY <1>3 DEF N
  <2>2. ASSUME p \in 1..Len(A), q \in 1..Len(A), more[p] = did[p], more[q] = did[q] PROVE p = q
    BY <1>9, <1>17, <2>2
  <2>3. ASSUME more[p] = DoneEntry(site, here, p - Len(A)),
               more[q] = DoneEntry(site, here, q - Len(A))
        PROVE p = q
    <3>1. p - Len(A) = q - Len(A)
      BY <1>12, <1>17, <2>3
    <3> QED BY <2>1, <3>1
  <2> QED BY <1>11, <1>13, <1>17, <2>2, <2>3
<1>18. more \in Bijection(N, D)
  <2>1. \A p \in N : more[p] \in D
    BY <1>13
  <2> HIDE DEF D
  <2>2. more \in [N -> D]
    BY <1>16, <2>1
  <2> QED BY <1>14, <1>17, <2>2 DEF Bijection, Injection, Surjection, IsInjective
<1>19. \A p \in N : StandsFor(all[p], more[p])
  BY <1>7, <1>8, <1>13
<1>20. Pairs(more, all, AllDone(longer))
  BY <1>4, <1>5, <1>6, <1>18, <1>19 DEF Pairs, N
<1> QED BY <1>1, <1>20

LEMMA RecordMembers ==
  ASSUME NEW A \in Seq(AccessEntry)
  PROVE  /\ \A f, kind, key : key \in KeysOf(A, f, kind) <=>
              \E p \in 1..Len(A) : A[p].function = f /\ A[p].kind = kind /\ A[p].key = key
         /\ \A f : f \in FunctionsIn(A) <=> \E p \in 1..Len(A) : A[p].function = f
         /\ IsFiniteSet(FunctionsIn(A))
<1>1. \A e : e \in ToSet(A) <=> \E p \in 1..Len(A) : A[p] = e
  BY ToSetMember
<1>2. ASSUME NEW f, NEW kind, NEW key
      PROVE  key \in KeysOf(A, f, kind) <=>
               \E p \in 1..Len(A) : A[p].function = f /\ A[p].kind = kind /\ A[p].key = key
  <2>1. key \in KeysOf(A, f, kind) <=>
          \E a \in ToSet(A) : a.function = f /\ a.kind = kind /\ a.key = key
    BY DEF KeysOf
  <2> QED BY <1>1, <2>1
<1>3. ASSUME NEW f
      PROVE  f \in FunctionsIn(A) <=> \E p \in 1..Len(A) : A[p].function = f
  <2>1. f \in FunctionsIn(A) <=> \E a \in ToSet(A) : a.function = f
    BY DEF FunctionsIn
  <2> QED BY <1>1, <2>1
<1>4. IsFiniteSet(FunctionsIn(A))
  <2> DEFINE f == [p \in 1..Len(A) |-> A[p].function]
  <2>1. Len(A) \in Nat
    BY LenProperties
  <2>2. f \in Surjection(1..Len(A), FunctionsIn(A))
    BY <1>3 DEF Surjection
  <2>3. IsFiniteSet(1..Len(A))
    BY <2>1, UpToSize
  <2> HIDE DEF f
  <2> QED BY <2>2, <2>3, FS_Surjection
<1> QED BY <1>2, <1>3, <1>4

WritesIn(D) == {d \in D : d.kind = "write"}
ReadsIn(D) == {d \in D : d.kind = "read"}

\* Records and effects, from either side.
LEMMA PairFacts ==
  ASSUME NEW A, NEW D, NEW did, Pairs(did, A, D)
  PROVE  /\ \A p \in 1..Len(A) : did[p] \in D /\ StandsFor(A[p], did[p])
         /\ \A d \in D : \E p \in 1..Len(A) : d = did[p]
         /\ \A p, q \in 1..Len(A) : did[p] = did[q] => p = q
BY DEF Pairs, Bijection, Injection, Surjection, IsInjective

LEMMA LoopWritesFound ==
  ASSUME NEW A \in Seq(AccessEntry), NEW D, NEW did, Pairs(did, A, D)
  PROVE  /\ Blamed({w \in WritesIn(D) : InOwnLoop(w.path)}) \subseteq Range(WriteInLoop(A))
         /\ Range(WriteInLoop(A)) \subseteq Blamed({w \in WritesIn(D) : Loops(w.path) # {}})
         /\ Cardinality({w \in WritesIn(D) : InOwnLoop(w.path)}) <= Cardinality(DOMAIN WriteInLoop(A))
         /\ Cardinality(DOMAIN WriteInLoop(A)) <= Cardinality({w \in WritesIn(D) : Loops(w.path) # {}})
<1> DEFINE P == {p \in 1..Len(A) : A[p].kind = "write" /\ A[p].in_loop}
           W == {w \in WritesIn(D) : Loops(w.path) # {}}
<1>1. Len(A) \in Nat /\ DOMAIN A = 1..Len(A) /\ \A p \in 1..Len(A) : A[p] \in AccessEntry
  BY LenProperties, ElementOfSeq
<1>2. WriteInLoop(A) = [p \in P |-> <<A[p].function, A[p].key>>]
  BY <1>1 DEF WriteInLoop
<1>3. DOMAIN WriteInLoop(A) = P
  BY <1>2
<1>4. \A p \in 1..Len(A) : did[p] \in D /\ StandsFor(A[p], did[p])
  BY PairFacts
<1>5. \A p \in 1..Len(A) : p \in P <=> did[p] \in W
  BY <1>1, <1>4 DEF StandsFor, WritesIn, AccessEntry
<1>6. \A w \in W : \E p \in 1..Len(A) : w = did[p]
  BY PairFacts DEF WritesIn
<1>7. ASSUME NEW w \in WritesIn(D), InOwnLoop(w.path)
      PROVE  <<w.name, w.key>> \in Range(WriteInLoop(A))
  <2>1. w \in W
    BY <1>7 DEF InOwnLoop
  <2>2. PICK p \in 1..Len(A) : w = did[p]
    BY <1>6, <2>1
  <2>3. p \in P
    BY <1>5, <2>1, <2>2
  <2>4. WriteInLoop(A)[p] = <<w.name, w.key>>
    BY <1>2, <1>4, <2>2, <2>3 DEF StandsFor
  <2> QED BY <1>3, <2>3, <2>4 DEF Range
<1>8. Blamed({w \in WritesIn(D) : InOwnLoop(w.path)}) \subseteq Range(WriteInLoop(A))
  BY <1>7 DEF Blamed
<1> DEFINE f == [p \in P |-> did[p]]
<1>9. f \in Bijection(P, W)
  <2>1. P \subseteq 1..Len(A) /\ W \subseteq D
    BY DEF WritesIn
  <2>2. \A p, q \in 1..Len(A) : did[p] = did[q] => p = q
    BY PairFacts
  <2> HIDE DEF P, W
  <2>3. f \in [P -> W]
    BY <1>5, <2>1
  <2>4. \A p, q \in P : f[p] = f[q] => p = q
    BY <2>1, <2>2
  <2>5. ASSUME NEW w \in W PROVE \E p \in P : f[p] = w
    BY <1>5, <1>6
  <2> HIDE DEF f
  <2> QED BY <2>3, <2>4, <2>5 DEF Bijection, Injection, Surjection, IsInjective
<1>10. IsFiniteSet(P)
  BY <1>1, UpToSize, FS_Subset
<1>13. Range(WriteInLoop(A)) \subseteq Blamed(W)
  <2>1. ASSUME NEW p \in P PROVE WriteInLoop(A)[p] \in Blamed(W)
    <3>1. did[p] \in W /\ WriteInLoop(A)[p] = <<did[p].name, did[p].key>>
      BY <1>2, <1>4, <1>5 DEF StandsFor
    <3> QED BY <3>1 DEF Blamed
  <2> QED BY <1>3, <2>1 DEF Range
<1>14. {w \in WritesIn(D) : InOwnLoop(w.path)} \subseteq W
  BY DEF InOwnLoop
<1> HIDE DEF P, W, f
<1>11. ExistsBijection(P, W)
  BY <1>9 DEF ExistsBijection
<1>12. Cardinality(P) = Cardinality(W)
  BY <1>10, <1>11, FS_Bijection
<1>15. IsFiniteSet(W) /\ Cardinality(W) \in Nat
  BY <1>10, <1>11, FS_Bijection, FS_CardinalityType
<1>16. Cardinality({w \in WritesIn(D) : InOwnLoop(w.path)}) <= Cardinality(W)
  BY <1>14, <1>15, FS_Subset
<1> QED BY <1>3, <1>8, <1>12, <1>13, <1>15, <1>16 DEF W

LEMMA SharedWritesFound ==
  ASSUME NEW A \in Seq(AccessEntry), NEW D, NEW did, Pairs(did, A, D)
  PROVE  GlobalStaticWrite(A) =
           {w.key : w \in {w \in WritesIn(D) : w.key # Dynamic /\
                             \E v \in WritesIn(D) : v.key = w.key /\ v.name # w.name}}
<1>1. /\ \A p \in 1..Len(A) : did[p] \in D /\ StandsFor(A[p], did[p])
      /\ \A d \in D : \E p \in 1..Len(A) : d = did[p]
  BY PairFacts
<1>2. \A e : e \in ToSet(A) <=> \E p \in 1..Len(A) : A[p] = e
  BY ToSetMember
<1> DEFINE By(key) == {f \in FunctionsIn(A) : key \in KeysOf(A, f, "write")}
<1>3. ASSUME NEW key
      PROVE  Cardinality(By(key)) > 1 <=> \E f, g \in By(key) : f # g
  <2>1. IsFiniteSet(By(key))
    BY RecordMembers, FS_Subset
  <2> HIDE DEF By
  <2> QED BY <2>1, TwoOrMore
<1>4. ASSUME NEW key, NEW f
      PROVE  f \in By(key) <=> \E w \in WritesIn(D) : w.key = key /\ w.name = f
  <2>1. f \in By(key) <=>
          \E p \in 1..Len(A) : A[p].function = f /\ A[p].kind = "write" /\ A[p].key = key
    BY RecordMembers
  <2> QED BY <1>1, <2>1 DEF StandsFor, WritesIn
<1>5. ASSUME NEW key
      PROVE  key \in GlobalStaticWrite(A) <=>
               /\ \E a \in ToSet(A) : a.key = key
               /\ key # Dynamic
               /\ Cardinality(By(key)) > 1
  BY DEF GlobalStaticWrite
<1>6. ASSUME NEW w \in WritesIn(D) PROVE \E a \in ToSet(A) : a.key = w.key
  BY <1>1, <1>2 DEF StandsFor, WritesIn
<1> HIDE DEF By
<1>7. ASSUME NEW key
      PROVE  key \in GlobalStaticWrite(A) <=>
               \E w \in WritesIn(D) : /\ w.key = key /\ w.key # Dynamic
                                    /\ \E v \in WritesIn(D) : v.key = w.key /\ v.name # w.name
  <2>1. ASSUME NEW f \in By(key), NEW g \in By(key), f # g, key # Dynamic
        PROVE  \E w \in WritesIn(D) : /\ w.key = key /\ w.key # Dynamic
                                    /\ \E v \in WritesIn(D) : v.key = w.key /\ v.name # w.name
    BY <1>4, <2>1
  <2>2. ASSUME NEW w \in WritesIn(D), NEW v \in WritesIn(D),
               w.key = key, key # Dynamic, v.key = key, v.name # w.name
        PROVE  key \in GlobalStaticWrite(A)
    <3>1. w.name \in By(key) /\ v.name \in By(key)
      BY <1>4, <2>2
    <3> QED BY <1>3, <1>5, <1>6, <2>2, <3>1
  <2> QED BY <1>3, <1>5, <2>1, <2>2
<1> QED BY <1>7

LEMMA RereadWritesFound ==
  ASSUME NEW A \in Seq(AccessEntry), NEW D, NEW did, Pairs(did, A, D), PlacesTell(D)
  PROVE  ReadModifyWrite(A) = Blamed({w \in WritesIn(D) : \E r \in ReadsIn(D) : SameKey(w, r)})
<1>1. /\ \A p \in 1..Len(A) : did[p] \in D /\ StandsFor(A[p], did[p])
      /\ \A d \in D : \E p \in 1..Len(A) : d = did[p]
  BY PairFacts
<1>2. ASSUME NEW x
      PROVE  x \in ReadModifyWrite(A) <=>
               \E f \in FunctionsIn(A) :
                 \E key \in KeysOf(A, f, "read") \cap KeysOf(A, f, "write") : x = <<f, key>>
  BY DEF ReadModifyWrite
<1>3. ASSUME NEW f, NEW key
      PROVE  /\ key \in KeysOf(A, f, "read") <=> \E r \in ReadsIn(D) : r.name = f /\ r.key = key
             /\ key \in KeysOf(A, f, "write") <=> \E w \in WritesIn(D) : w.name = f /\ w.key = key
  <2>1. /\ key \in KeysOf(A, f, "read") <=>
             \E p \in 1..Len(A) : A[p].function = f /\ A[p].kind = "read" /\ A[p].key = key
        /\ key \in KeysOf(A, f, "write") <=>
             \E p \in 1..Len(A) : A[p].function = f /\ A[p].kind = "write" /\ A[p].key = key
    BY RecordMembers
  <2>2. ASSUME NEW kind
        PROVE  (\E p \in 1..Len(A) : A[p].function = f /\ A[p].kind = kind /\ A[p].key = key) <=>
                 \E d \in D : d.kind = kind /\ d.name = f /\ d.key = key
    BY <1>1 DEF StandsFor
  <2>3. key \in KeysOf(A, f, "read") <=> \E r \in ReadsIn(D) : r.name = f /\ r.key = key
    BY <2>1, <2>2 DEF ReadsIn
  <2>4. key \in KeysOf(A, f, "write") <=> \E w \in WritesIn(D) : w.name = f /\ w.key = key
    BY <2>1, <2>2 DEF WritesIn
  <2> QED BY <2>3, <2>4
<1>4. ASSUME NEW f, NEW key, key \in KeysOf(A, f, "read") PROVE f \in FunctionsIn(A)
  BY <1>4, RecordMembers
<1>5. ASSUME NEW w \in WritesIn(D), NEW r \in ReadsIn(D) PROVE w.at # r.at
  <2>1. w.kind # r.kind /\ w \in D /\ r \in D
    BY DEF WritesIn, ReadsIn
  <2> QED BY <2>1 DEF PlacesTell
<1>6. ASSUME NEW x
      PROVE  x \in ReadModifyWrite(A) <=>
               \E w \in WritesIn(D) : (\E r \in ReadsIn(D) : SameKey(w, r)) /\ x = <<w.name, w.key>>
  <2>1. ASSUME NEW w \in WritesIn(D), NEW r \in ReadsIn(D), SameKey(w, r), x = <<w.name, w.key>>
        PROVE  x \in ReadModifyWrite(A)
    BY <1>2, <1>3, <1>4, <2>1 DEF SameKey
  <2>2. ASSUME NEW f \in FunctionsIn(A), NEW key, x = <<f, key>>,
               key \in KeysOf(A, f, "read"), key \in KeysOf(A, f, "write")
        PROVE  \E w \in WritesIn(D) : (\E r \in ReadsIn(D) : SameKey(w, r)) /\ x = <<w.name, w.key>>
    BY <1>3, <1>5, <2>2 DEF SameKey
  <2> QED BY <1>2, <2>1, <2>2
<1> QED BY <1>6 DEF Blamed

LEMMA DuplicateReadsFound ==
  ASSUME NEW A \in Seq(AccessEntry), NEW D, NEW did, Pairs(did, A, D), PlacesTell(D)
  PROVE  DuplicateRead(A) = Blamed({r \in ReadsIn(D) : \E s \in ReadsIn(D) : SameKey(r, s)})
<1>1. /\ \A p \in 1..Len(A) : did[p] \in D /\ StandsFor(A[p], did[p])
      /\ \A d \in D : \E p \in 1..Len(A) : d = did[p]
      /\ \A p, q \in 1..Len(A) : did[p] = did[q] => p = q
  BY PairFacts
<1>2. Len(A) \in Nat /\ DOMAIN A = 1..Len(A)
  BY LenProperties
<1>3. ASSUME NEW x
      PROVE  x \in DuplicateRead(A) <=>
               \E f \in FunctionsIn(A) : \E key \in KeysOf(A, f, "read") :
                 Cardinality(ReadsOf(A, f, key)) > 1 /\ x = <<f, key>>
  BY DEF DuplicateRead
<1>4. ASSUME NEW f, NEW key
      PROVE  Cardinality(ReadsOf(A, f, key)) > 1 <=> \E p, q \in ReadsOf(A, f, key) : p # q
  <2>1. ReadsOf(A, f, key) \subseteq 1..Len(A)
    BY <1>2 DEF ReadsOf
  <2>2. IsFiniteSet(ReadsOf(A, f, key))
    BY <1>2, <2>1, UpToSize, FS_Subset
  <2> QED BY <2>2, TwoOrMore
<1>5. ASSUME NEW f, NEW key, NEW p \in ReadsOf(A, f, key)
      PROVE  /\ p \in 1..Len(A) /\ did[p] \in ReadsIn(D) /\ did[p].name = f /\ did[p].key = key
             /\ f \in FunctionsIn(A) /\ key \in KeysOf(A, f, "read")
  <2>1. p \in 1..Len(A) /\ A[p].function = f /\ A[p].kind = "read" /\ A[p].key = key
    BY <1>2 DEF ReadsOf
  <2>2. f \in FunctionsIn(A) /\ key \in KeysOf(A, f, "read")
    BY <2>1, RecordMembers
  <2> QED BY <1>1, <2>1, <2>2 DEF StandsFor, ReadsIn
<1>6. ASSUME NEW r \in ReadsIn(D)
      PROVE  \E p \in ReadsOf(A, r.name, r.key) : r = did[p]
  <2>1. PICK p \in 1..Len(A) : r = did[p]
    BY <1>1 DEF ReadsIn
  <2>2. StandsFor(A[p], r) /\ r.kind = "read"
    BY <1>1, <2>1 DEF ReadsIn
  <2> QED BY <1>2, <2>1, <2>2 DEF StandsFor, ReadsOf
<1>7. ASSUME NEW x
      PROVE  x \in DuplicateRead(A) <=>
               \E r \in ReadsIn(D) : (\E s \in ReadsIn(D) : SameKey(r, s)) /\ x = <<r.name, r.key>>
  <2>1. ASSUME NEW r \in ReadsIn(D), NEW s \in ReadsIn(D), SameKey(r, s), x = <<r.name, r.key>>
        PROVE  x \in DuplicateRead(A)
    <3>1. PICK p \in ReadsOf(A, r.name, r.key) : r = did[p]
      BY <1>6
    <3>2. PICK q \in ReadsOf(A, r.name, r.key) : s = did[q]
      BY <1>6, <2>1 DEF SameKey
    <3>3. p # q
      BY <2>1, <3>1, <3>2 DEF SameKey
    <3> QED BY <1>3, <1>4, <1>5, <2>1, <3>1, <3>2, <3>3
  <2>2. ASSUME NEW f, NEW key, NEW p \in ReadsOf(A, f, key), NEW q \in ReadsOf(A, f, key),
               p # q, x = <<f, key>>
        PROVE  \E r \in ReadsIn(D) : (\E s \in ReadsIn(D) : SameKey(r, s)) /\ x = <<r.name, r.key>>
    <3>1. /\ did[p] \in ReadsIn(D) /\ did[p].name = f /\ did[p].key = key
          /\ did[q] \in ReadsIn(D) /\ did[q].name = f /\ did[q].key = key
          /\ did[p] # did[q]
      BY <1>1, <1>5, <2>2
    <3>2. did[p].at # did[q].at
      BY <3>1 DEF PlacesTell, ReadsIn
    <3> QED BY <2>2, <3>1, <3>2 DEF SameKey
  <2> QED BY <1>3, <1>4, <2>1, <2>2
<1> QED BY <1>7 DEF Blamed

FindingsInv ==
  /\ RecordsInv
  /\ \E did : Pairs(did, accesses, Done)
  /\ Walking \/ report.detectors = RunDetectors(accesses)

LEMMA FindingsBegin == VisitorInit => FindingsInv
<1> SUFFICES ASSUME VisitorInit PROVE FindingsInv
  OBVIOUS
<1>1. RecordsInv
  BY RecordsBegin
<1>2. accesses = <<>> /\ sites = <<>> /\ Walking
  BY DEF VisitorInit, Walking
<1>3. Len(accesses) = 0 /\ Len(sites) = 0
  BY <1>2, EmptySeq
<1>4. Done = {}
  <2>1. Done = AllDone(sites)
    BY <1>1, DoneNow DEF RecordsInv
  <2> QED BY <1>3, <2>1 DEF AllDone
<1>5. Pairs([p \in {} |-> 0], accesses, Done)
  BY <1>3, <1>4 DEF Pairs, Bijection, Injection, Surjection, IsInjective
<1> QED BY <1>1, <1>2, <1>5 DEF FindingsInv

LEMMA FindingsStep ==
  StatementsRecorded /\ FindingsInv /\ [VisitorNext]_visitorVars => FindingsInv'
<1> SUFFICES ASSUME StatementsRecorded, FindingsInv, [VisitorNext]_visitorVars PROVE FindingsInv'
  OBVIOUS
<1>1. RecordsInv'
  BY RecordsStep DEF FindingsInv
<1>2. CASE UNCHANGED <<accesses, sites, report>>
  <2>1. Done' = Done
    BY <1>1, <1>2, DoneNow, DoneNext DEF FindingsInv, RecordsInv
  <2> QED BY <1>1, <1>2, <2>1 DEF FindingsInv, Walking
<1>3. ASSUME NEW s \in Statements, VisitStatement(s) PROVE FindingsInv'
  <2>1. /\ ContextInv /\ sites \in Seq(VisitedSite) /\ sites' \in Seq(VisitedSite)
        /\ accesses \in Seq(AccessEntry) /\ calls \in Seq(CallEntry)
    BY <1>1 DEF FindingsInv, RecordsInv
  <2>2. PICK site \in VisitedSite :
          /\ sites' = Append(sites, site)
          /\ accesses' = accesses \o AccessesLeft(site)
    BY <1>3, <2>1, VisitLeaves
  <2>3. Done = AllDone(sites) /\ Done' = AllDone(sites')
    BY <2>1, DoneNow, DoneNext
  <2>4. PICK did : Pairs(did, accesses, AllDone(sites))
    BY <2>3 DEF FindingsInv
  <2>5. \E more : Pairs(more, accesses \o AccessesLeft(site), AllDone(Append(sites, site)))
    BY <2>1, <2>4, PairsGrow
  <2>6. \E more : Pairs(more, accesses', Done')
    BY <2>2, <2>3, <2>5
  <2>7. Walking'
    BY <1>3 DEF VisitStatement, Grow, Walking
  <2> QED BY <1>1, <2>6, <2>7 DEF FindingsInv
<1>4. CASE Finish
  <2>1. /\ accesses' = accesses /\ sites' = sites
        /\ report' = [functions |-> Aggregate(accesses), detectors |-> RunDetectors(accesses)]
    BY <1>4 DEF Finish
  <2>2. Done' = Done
    BY <1>1, <2>1, DoneNow, DoneNext DEF FindingsInv, RecordsInv
  <2>3. report'.detectors = RunDetectors(accesses')
    BY <2>1
  <2> QED BY <1>1, <2>1, <2>2, <2>3 DEF FindingsInv
<1>5. ASSUME NEW name \in FunctionNames, EnterFn(name) \/ EnterTraitFn(name) PROVE FindingsInv'
  BY <1>2, <1>5 DEF EnterFn, EnterTraitFn
<1>6. CASE EnterLoop
  BY <1>2, <1>6 DEF EnterLoop
<1>7. CASE LeaveFn
  BY <1>2, <1>7 DEF LeaveFn
<1>8. CASE LeaveTraitFn
  BY <1>2, <1>8 DEF LeaveTraitFn
<1>9. CASE LeaveLoop
  BY <1>2, <1>9 DEF LeaveLoop
<1>10. CASE UNCHANGED visitorVars
  BY <1>2, <1>10 DEF visitorVars, machineVars
<1> QED BY <1>3, <1>4, <1>5, <1>6, <1>7, <1>8, <1>9, <1>10 DEF VisitorNext

\* Every effect bears the name its path is attributed to.
LEMMA DoneNamed ==
  ASSUME NEW S
  PROVE  \A d \in AllDone(S) : d.name = Owner(d.path)
<1>1. \A site, i, k : DoneEntry(site, i, k).name = Owner(DoneEntry(site, i, k).path)
  BY DEF DoneEntry
<1> QED BY <1>1, DoneMember, DoneAtMember

\* Two effects of one function are recorded under one name.
LEMMA OneFunctionOneName ==
  ASSUME NEW d, NEW e, d.name = Owner(d.path), e.name = Owner(e.path), OneFunction(d, e)
  PROVE  d.name = e.name
BY DEF OneFunction, FunctionOf

\* What the records say of each name bounds the findings from both sides.
LEMMA FindingsBounded ==
  ASSUME NEW A \in Seq(AccessEntry), NEW D, NEW did, Pairs(did, A, D), PlacesTell(D),
         \A d \in D : d.name = Owner(d.path)
  PROVE  /\ {w.key : w \in {w \in WritesIn(D) : w.key # Dynamic /\
                               \E v \in WritesIn(D) : v.key = w.key /\ v.name # w.name}}
              \subseteq GlobalStaticWrite(A)
         /\ GlobalStaticWrite(A) \subseteq
              {w.key : w \in {w \in WritesIn(D) : w.key # Dynamic /\
                                \E v \in WritesIn(D) : v.key = w.key /\ ~OneFunction(v, w)}}
         /\ Blamed({w \in WritesIn(D) : \E r \in ReadsIn(D) : w.key = r.key /\ OneFunction(w, r)})
              \subseteq ReadModifyWrite(A)
         /\ ReadModifyWrite(A) \subseteq
              Blamed({w \in WritesIn(D) : \E r \in ReadsIn(D) : SameKey(w, r)})
         /\ Blamed({r \in ReadsIn(D) : /\ r.key # Dynamic
                                       /\ \E s \in ReadsIn(D) : SameKey(r, s) /\ OneFunction(r, s)})
              \subseteq DuplicateRead(A)
         /\ DuplicateRead(A) \subseteq
              Blamed({r \in ReadsIn(D) : \E s \in ReadsIn(D) : SameKey(r, s)})
<1>1. \A d, e \in D : OneFunction(d, e) => d.name = e.name
  BY OneFunctionOneName
<1>2. WritesIn(D) \subseteq D /\ ReadsIn(D) \subseteq D
  BY DEF WritesIn, ReadsIn
<1>3. \A w \in WritesIn(D), r \in ReadsIn(D) : w.at # r.at
  <2>1. \A w \in WritesIn(D), r \in ReadsIn(D) : w.kind # r.kind
    BY DEF WritesIn, ReadsIn
  <2> QED BY <1>2, <2>1 DEF PlacesTell
<1>4. GlobalStaticWrite(A) =
        {w.key : w \in {w \in WritesIn(D) : w.key # Dynamic /\
                          \E v \in WritesIn(D) : v.key = w.key /\ v.name # w.name}}
  BY SharedWritesFound
<1>5. GlobalStaticWrite(A) \subseteq
        {w.key : w \in {w \in WritesIn(D) : w.key # Dynamic /\
                          \E v \in WritesIn(D) : v.key = w.key /\ ~OneFunction(v, w)}}
  BY <1>1, <1>2, <1>4
<1>6. ReadModifyWrite(A) = Blamed({w \in WritesIn(D) : \E r \in ReadsIn(D) : SameKey(w, r)})
  BY RereadWritesFound
<1>7. Blamed({w \in WritesIn(D) : \E r \in ReadsIn(D) : w.key = r.key /\ OneFunction(w, r)})
        \subseteq ReadModifyWrite(A)
  <2>1. \A w \in WritesIn(D), r \in ReadsIn(D) :
          w.key = r.key /\ OneFunction(w, r) => SameKey(w, r)
    BY <1>1, <1>2, <1>3 DEF SameKey
  <2> QED BY <1>6, <2>1 DEF Blamed
<1>8. DuplicateRead(A) = Blamed({r \in ReadsIn(D) : \E s \in ReadsIn(D) : SameKey(r, s)})
  BY DuplicateReadsFound
<1>9. Blamed({r \in ReadsIn(D) : /\ r.key # Dynamic
                                /\ \E s \in ReadsIn(D) : SameKey(r, s) /\ OneFunction(r, s)})
        \subseteq DuplicateRead(A)
  BY <1>8 DEF Blamed
<1> QED BY <1>4, <1>5, <1>6, <1>7, <1>8, <1>9

LEMMA FindingsRight == FindingsInv => PatternsFound
<1> SUFFICES ASSUME FindingsInv, ~Walking PROVE PatternsFound
  BY DEF PatternsFound
<1>1. PICK did : Pairs(did, accesses, Done)
  BY DEF FindingsInv
<1>2. /\ accesses \in Seq(AccessEntry) /\ PlacesTell(Done)
      /\ \A d \in Done : d.name = Owner(d.path)
  <2>1. accesses \in Seq(AccessEntry) /\ Done = AllDone(sites)
    BY DoneNow DEF FindingsInv, RecordsInv
  <2> QED BY <2>1, DonePlaces, DoneNamed
<1>3. PICK D, A : D = Done /\ A = accesses
  OBVIOUS
<1>4. /\ A \in Seq(AccessEntry) /\ Pairs(did, A, D) /\ PlacesTell(D)
      /\ \A d \in D : d.name = Owner(d.path)
  BY <1>1, <1>2, <1>3
<1>5. /\ report.detectors.global_static_write = GlobalStaticWrite(A)
      /\ report.detectors.write_in_loop = WriteInLoop(A)
      /\ report.detectors.read_modify_write = ReadModifyWrite(A)
      /\ report.detectors.duplicate_read = DuplicateRead(A)
  <2>1. report.detectors =
          [global_static_write |-> GlobalStaticWrite(A),
           write_in_loop       |-> WriteInLoop(A),
           read_modify_write   |-> ReadModifyWrite(A),
           duplicate_read      |-> DuplicateRead(A)]
    BY <1>3 DEF FindingsInv, RunDetectors
  <2> QED BY <2>1
<1>6. /\ Blamed({w \in WritesIn(D) : InOwnLoop(w.path)}) \subseteq Range(WriteInLoop(A))
      /\ Range(WriteInLoop(A)) \subseteq Blamed({w \in WritesIn(D) : Loops(w.path) # {}})
      /\ Cardinality({w \in WritesIn(D) : InOwnLoop(w.path)}) <= Cardinality(DOMAIN WriteInLoop(A))
      /\ Cardinality(DOMAIN WriteInLoop(A)) <= Cardinality({w \in WritesIn(D) : Loops(w.path) # {}})
  BY <1>4, LoopWritesFound
<1>7. Writes = WritesIn(D) /\ Reads = ReadsIn(D)
  BY <1>3 DEF Writes, Reads, WritesIn, ReadsIn
<1>8. /\ Blamed({w \in Writes : InOwnLoop(w.path)}) \subseteq Range(WriteInLoop(A))
      /\ Range(WriteInLoop(A)) \subseteq Blamed({w \in Writes : Loops(w.path) # {}})
      /\ Cardinality({w \in Writes : InOwnLoop(w.path)}) <= Cardinality(DOMAIN WriteInLoop(A))
      /\ Cardinality(DOMAIN WriteInLoop(A)) <= Cardinality({w \in Writes : Loops(w.path) # {}})
  BY <1>6, <1>7, Zenon
<1>9. /\ {w.key : w \in {w \in Writes : w.key # Dynamic /\
                            \E v \in Writes : v.key = w.key /\ v.name # w.name}}
           \subseteq GlobalStaticWrite(A)
      /\ GlobalStaticWrite(A) \subseteq
           {w.key : w \in {w \in Writes : w.key # Dynamic /\
                             \E v \in Writes : v.key = w.key /\ ~OneFunction(v, w)}}
  <2>1. /\ {w.key : w \in {w \in WritesIn(D) : w.key # Dynamic /\
                              \E v \in WritesIn(D) : v.key = w.key /\ v.name # w.name}}
             \subseteq GlobalStaticWrite(A)
        /\ GlobalStaticWrite(A) \subseteq
             {w.key : w \in {w \in WritesIn(D) : w.key # Dynamic /\
                               \E v \in WritesIn(D) : v.key = w.key /\ ~OneFunction(v, w)}}
    BY <1>4, FindingsBounded
  <2>2. PICK W : W = Writes
    OBVIOUS
  <2>3. W = WritesIn(D)
    BY <1>7, <2>2
  <2>4. /\ {w.key : w \in {w \in W : w.key # Dynamic /\
                              \E v \in W : v.key = w.key /\ v.name # w.name}}
             \subseteq GlobalStaticWrite(A)
        /\ GlobalStaticWrite(A) \subseteq
             {w.key : w \in {w \in W : w.key # Dynamic /\
                               \E v \in W : v.key = w.key /\ ~OneFunction(v, w)}}
    BY <2>1, <2>3
  <2> QED BY <2>2, <2>4
<1>10. /\ Blamed({w \in Writes : \E r \in Reads : w.key = r.key /\ OneFunction(w, r)})
            \subseteq ReadModifyWrite(A)
       /\ ReadModifyWrite(A) \subseteq Blamed({w \in Writes : \E r \in Reads : SameKey(w, r)})
  BY <1>4, <1>7, FindingsBounded, Zenon
<1>11. /\ Blamed({r \in Reads : r.key # Dynamic /\ \E s \in Reads : SameKey(r, s) /\ OneFunction(r, s)})
            \subseteq DuplicateRead(A)
       /\ DuplicateRead(A) \subseteq Blamed({r \in Reads : \E s \in Reads : SameKey(r, s)})
  BY <1>4, <1>7, FindingsBounded, Zenon
<1> QED BY <1>5, <1>8, <1>9, <1>10, <1>11, Zenon DEF PatternsFound

\* For every file whose single statements are recorded right: when the walk is
\* over, the detectors have found every instance of a documented pattern in
\* what the functions of the file do, as far as these have names of their own,
\* and have blamed no function for what none of its name does.
THEOREM PatternsAlwaysFound ==
  VisitorSpec /\ []StatementsRecorded => []PatternsFound
<1>1. StatementsRecorded /\ FindingsInv /\ [VisitorNext]_visitorVars => FindingsInv'
  BY FindingsStep
<1> QED BY <1>1, FindingsBegin, FindingsRight, PTL DEF VisitorSpec
=============================================================================

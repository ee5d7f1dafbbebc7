-------------------------- MODULE GoCallChainProofs --------------------------
(* What passes through the Go binding arrives, however deep executions     *)
(* nest and whatever hosts and VMs answer.                                 *)
EXTENDS GoCallChain, TLAPS

Frame == [flags : 0..3, call : [flags : 0..3, static : BOOLEAN, waiting : BOOLEAN]]

\* The call that a static execution waits for is static for the host as well.
CallsAreStatic ==
  \A i \in DOMAIN frames :
    frames[i].call.waiting /\ IsStatic(frames[i].flags) => frames[i].call.static

IInv == TypeOK /\ StaticIsInherited /\ CallsAreStatic

LEMMA FlagsType ==
  ASSUME NEW static \in BOOLEAN, NEW delegated \in BOOLEAN
  PROVE  /\ Flags(static, delegated) \in 0..3
         /\ IsStatic(Flags(static, delegated)) <=> static
BY DEF Flags, IsStatic, EVMC_STATIC, EVMC_DELEGATED

LEMMA ModesType == Modes \subseteq BOOLEAN
BY DEF Modes

LEMMA MessageFlagsType == \A f \in MessageFlags : f \in 0..3 /\ (IsStatic(f) => f # 0)
<1>1. ASSUME NEW s \in BOOLEAN, NEW d \in Modes PROVE Flags(s, d) \in 0..3
  BY FlagsType, ModesType
<1>2. ~IsStatic(0)
  BY DEF IsStatic, EVMC_STATIC
<1>3. QED
  BY <1>1, <1>2 DEF MessageFlags

\* The call of one frame is replaced.
WithCall(fs, n, c) == [fs EXCEPT ![n].call = c]

LEMMA SetCall ==
  ASSUME NEW fs \in Seq(Frame), NEW n \in DOMAIN fs,
         NEW c \in [flags : 0..3, static : BOOLEAN, waiting : BOOLEAN],
         NEW gs, gs = WithCall(fs, n, c)
  PROVE  /\ gs \in Seq(Frame) /\ DOMAIN gs = DOMAIN fs
         /\ \A i \in DOMAIN fs : gs[i].flags = fs[i].flags
         /\ \A i \in DOMAIN fs : i # n => gs[i].call = fs[i].call
         /\ gs[n].call = c
<1> DEFINE x == [fs[n] EXCEPT !.call = c]
<1>a. fs[n] \in Frame
  OBVIOUS
<1>1. x \in Frame /\ x.flags = fs[n].flags /\ x.call = c
  BY ONLY <1>a, c \in [flags : 0..3, static : BOOLEAN, waiting : BOOLEAN] DEF Frame
<1>2. gs = [fs EXCEPT ![n] = x]
  BY DEF WithCall
<1> HIDE DEF x
<1>3. gs \in Seq(Frame) /\ DOMAIN gs = DOMAIN fs
  BY <1>1, <1>2
<1>4. gs[n] = x /\ \A i \in DOMAIN fs : i # n => gs[i] = fs[i]
  BY <1>2
<1>5. QED
  BY <1>1, <1>3, <1>4

\* Both ends of a chain of conversions: what the callee returned is what the caller is given.
LEMMA ResultRoundTrip ==
  ASSUME NEW r \in CResult, NEW m \in MadeResults(GoResult(r).res, GoResult(r).err)
  PROVE  /\ m \in CResult
         /\ m = r \/ (r.output # Empty /\ m = [NoResult EXCEPT !.status_code = "OUT_OF_MEMORY"])
<1>1. r = [status_code |-> r.status_code, gas_left |-> r.gas_left,
           gas_refund |-> r.gas_refund, output |-> r.output]
  BY DEF CResult
<1>2. [NoResult EXCEPT !.status_code = "OUT_OF_MEMORY"] \in CResult
  BY CallChainConstants DEF CResult, NoResult, StatusCode
<1>3. CASE m = r
  BY <1>3
<1>4. CASE m # r
  <2>1. r.status_code = (IF GoResult(r).err = "nil" THEN "SUCCESS" ELSE GoResult(r).err)
    BY DEF GoResult, CResult, StatusCode
  <2>2. m \in (IF r.output = Empty THEN {} ELSE {[NoResult EXCEPT !.status_code = "OUT_OF_MEMORY"]})
    BY <1>1, <1>4, <2>1 DEF MadeResults, GoResult
  <2>3. QED
    BY <2>2, <1>2
<1>5. QED
  BY <1>3, <1>4

\* A new execution is static if the one it is nested in is.
LEMMA PushKeeps ==
  ASSUME IInv, NEW static \in BOOLEAN, NEW delegated \in BOOLEAN, Push(static, delegated),
         \A i \in DOMAIN frames : IsStatic(frames[i].flags) => static
  PROVE  frames' \in Seq(Frame) /\ StaticIsInherited' /\ CallsAreStatic'
<1> DEFINE new == [flags |-> Flags(static, delegated), call |-> NoCall]
<1>1. frames \in Seq(Frame) /\ new \in Frame /\ frames' = Append(frames, new)
  BY FlagsType DEF IInv, TypeOK, Frame, NoCall, Push
<1>2. /\ IsStatic(new.flags) <=> static
      /\ new.call.waiting = FALSE
  BY FlagsType DEF NoCall
<1> HIDE DEF new
<1>3. /\ frames' \in Seq(Frame) /\ DOMAIN frames' = 1..(Len(frames) + 1)
      /\ DOMAIN frames = 1..Len(frames) /\ Len(frames) \in Nat
      /\ \A i \in DOMAIN frames : frames'[i] = frames[i]
      /\ frames'[Len(frames) + 1] = new
  BY <1>1
<1>4. StaticIsInherited'
  BY <1>2, <1>3 DEF IInv, StaticIsInherited
<1>5. CallsAreStatic'
  BY <1>2, <1>3 DEF IInv, CallsAreStatic
<1>6. QED
  BY <1>3, <1>4, <1>5

\* Only the call of the last frame changes, to one that is not waited for.
LEMMA ResumeKeeps ==
  ASSUME NEW fs, fs \in Seq(Frame), fs # <<>>,
         \A i, j \in DOMAIN fs : i < j /\ IsStatic(fs[i].flags) => IsStatic(fs[j].flags),
         \A i \in DOMAIN fs : fs[i].call.waiting /\ IsStatic(fs[i].flags) => fs[i].call.static,
         frames' = Resume(fs)
  PROVE  frames' \in Seq(Frame) /\ StaticIsInherited' /\ CallsAreStatic'
<1>1. Len(fs) \in DOMAIN fs /\ NoCall \in [flags : 0..3, static : BOOLEAN, waiting : BOOLEAN]
  BY DEF NoCall
<1>2. /\ frames' \in Seq(Frame) /\ DOMAIN frames' = DOMAIN fs
      /\ \A i \in DOMAIN fs : frames'[i].flags = fs[i].flags
      /\ \A i \in DOMAIN fs : frames'[i].call = NoCall \/ frames'[i].call = fs[i].call
  BY <1>1, SetCall DEF Resume, WithCall
<1>3. QED
  BY <1>2 DEF StaticIsInherited, CallsAreStatic, NoCall

LEMMA StepIInv == IInv /\ [Next]_vars => IInv'
<1> SUFFICES ASSUME IInv, [Next]_vars PROVE IInv'
  OBVIOUS
<1>t. /\ frames \in Seq(Frame) /\ DOMAIN frames = 1..Len(frames) /\ Len(frames) \in Nat
      /\ returned \in CResult \cup {NoResult} /\ received \in CResult \cup {NoResult}
      /\ StaticIsInherited /\ CallsAreStatic
  BY DEF IInv, TypeOK, Frame
<1>q. ASSUME frames' \in Seq(Frame), StaticIsInherited', CallsAreStatic',
             returned' \in CResult \cup {NoResult}, received' \in CResult \cup {NoResult}
      PROVE  IInv'
  BY <1>q DEF IInv, TypeOK, Frame
<1>l. frames # <<>> => Len(frames) \in DOMAIN frames /\ Last(frames) = frames[Len(frames)]
  BY <1>t DEF Last
<1>1. ASSUME NEW s \in BOOLEAN, NEW d \in Modes, ExecuteTransaction(s, d) PROVE IInv'
  <2>1. /\ DOMAIN frames = {} /\ Push(s, d) /\ d \in BOOLEAN
        /\ returned' = NoResult /\ received' = NoResult
    BY <1>1, ModesType DEF ExecuteTransaction
  <2>2. QED
    BY <2>1, <1>q, PushKeeps
<1>2. ASSUME NEW f \in MessageFlags, call(f) PROVE IInv'
  <2> DEFINE n == Len(frames)
             c == [flags |-> f, static |-> CallStatic(f), waiting |-> TRUE]
  <2>1. /\ n \in DOMAIN frames
        /\ IsStatic(frames[n].flags) => IsStatic(f)
        /\ frames' = WithCall(frames, n, c)
        /\ returned' = NoResult /\ received' = NoResult
    BY <1>2, <1>l DEF call, WithCall
  <2>2. /\ c \in [flags : 0..3, static : BOOLEAN, waiting : BOOLEAN]
        /\ IsStatic(f) => c.static
    BY MessageFlagsType DEF CallStatic
  <2> HIDE DEF c, n
  <2>3. /\ frames' \in Seq(Frame) /\ DOMAIN frames' = DOMAIN frames
        /\ \A i \in DOMAIN frames : frames'[i].flags = frames[i].flags
        /\ \A i \in DOMAIN frames : i # n => frames'[i].call = frames[i].call
        /\ frames'[n].call = c
    <3>1. PICK fs \in Seq(Frame) : fs = frames
      BY <1>t
    <3>2. PICK k \in DOMAIN fs : k = n
      BY <2>1, <3>1
    <3>3. PICK d \in [flags : 0..3, static : BOOLEAN, waiting : BOOLEAN] : d = c
      BY <2>2
    <3>4. frames' = WithCall(fs, k, d)
      BY <2>1, <3>1, <3>2, <3>3 DEF WithCall
    <3>5. PICK gs : gs = frames'
      OBVIOUS
    <3>w. gs = WithCall(fs, k, d)
      BY <3>4, <3>5
    <3>6. /\ gs \in Seq(Frame) /\ DOMAIN gs = DOMAIN fs
          /\ \A i \in DOMAIN fs : gs[i].flags = fs[i].flags
          /\ \A i \in DOMAIN fs : i # k => gs[i].call = fs[i].call
          /\ gs[k].call = d
      BY ONLY fs \in Seq(Frame), k \in DOMAIN fs,
              d \in [flags : 0..3, static : BOOLEAN, waiting : BOOLEAN],
              <3>w, SetCall
    <3>7. QED
      BY ONLY <3>1, <3>2, <3>3, <3>5, <3>6
  <2>4. StaticIsInherited'
    BY <2>3, <1>t DEF StaticIsInherited
  <2>5. CallsAreStatic'
    BY <2>1, <2>2, <2>3, <1>t DEF CallsAreStatic
  <2>6. QED
    BY <2>1, <2>3, <2>4, <2>5, <1>q
<1>3. ASSUME NEW d \in Modes, ExecuteCall(d) PROVE IInv'
  <2>1. /\ frames # <<>> /\ Last(frames).call.waiting
        /\ Push(Last(frames).call.static, d)
        /\ UNCHANGED <<returned, received>>
    BY <1>3 DEF ExecuteCall
  <2>2. Last(frames).call.static \in BOOLEAN /\ d \in BOOLEAN
    <3>1. frames[Len(frames)] \in Frame
      BY <2>1, <1>t, <1>l
    <3>2. QED
      BY <2>1, <3>1, <1>l, ModesType DEF Frame
  <2>3. \A i \in DOMAIN frames : IsStatic(frames[i].flags) => IsStatic(Last(frames).flags)
    BY <2>1, <1>t, <1>l DEF StaticIsInherited
  <2>4. IsStatic(Last(frames).flags) => Last(frames).call.static
    BY <2>1, <1>t, <1>l DEF CallsAreStatic
  <2>5. QED
    BY <2>1, <2>2, <2>3, <2>4, <1>t, <1>q, PushKeeps
<1>4. ASSUME NEW r \in CResult, VMReturn(r) PROVE IInv'
  <2>1. CASE Front(frames) = <<>>
    <3>1. frames' = <<>> /\ returned' = NoResult /\ received' = NoResult
      BY <1>4, <2>1 DEF VMReturn
    <3>2. QED
      BY <3>1, <1>q DEF StaticIsInherited, CallsAreStatic
  <2>2. CASE Front(frames) # <<>>
    <3>1. /\ frames # <<>> /\ frames' = Resume(Front(frames))
          /\ returned' = r /\ received' \in MadeResults(GoResult(r).res, GoResult(r).err)
      BY <1>4, <2>2 DEF VMReturn
    <3>2. /\ Front(frames) \in Seq(Frame)
          /\ DOMAIN Front(frames) \subseteq DOMAIN frames
          /\ \A i \in DOMAIN Front(frames) : Front(frames)[i] = frames[i]
      BY <3>1, <1>t DEF Front
    <3>3. frames' \in Seq(Frame) /\ StaticIsInherited' /\ CallsAreStatic'
      BY <2>2, <3>1, <3>2, <1>t, ResumeKeeps DEF StaticIsInherited, CallsAreStatic
    <3>4. received' \in CResult
      BY <3>1, ResultRoundTrip
    <3>5. QED
      BY <3>1, <3>3, <3>4, <1>q
  <2>3. QED
    BY <2>1, <2>2
<1>5. ASSUME NEW r \in CResult, HostAnswers(r) PROVE IInv'
  <2>1. /\ frames # <<>> /\ frames' = Resume(frames)
        /\ returned' = r /\ received' \in MadeResults(GoResult(r).res, GoResult(r).err)
    BY <1>5 DEF HostAnswers
  <2>2. frames' \in Seq(Frame) /\ StaticIsInherited' /\ CallsAreStatic'
    BY <2>1, <1>t, ResumeKeeps DEF StaticIsInherited, CallsAreStatic
  <2>3. received' \in CResult
    BY <2>1, ResultRoundTrip
  <2>4. QED
    BY <2>1, <2>2, <2>3, <1>q
<1>6. CASE UNCHANGED vars
  BY <1>6, <1>t, <1>q DEF vars, StaticIsInherited, CallsAreStatic
<1>7. QED
  BY <1>1, <1>2, <1>3, <1>4, <1>5, <1>6 DEF Next

LEMMA Invariant == Spec => []IInv
<1>1. Init => IInv
  BY DEF Init, IInv, TypeOK, StaticIsInherited, CallsAreStatic
<1>2. QED
  BY <1>1, StepIInv, PTL DEF Spec

(* Once an execution is static, so is every one nested in it, at any depth *)
(* and with delegated calls in between.                                    *)
THEOREM StaticModeInherited == Spec => []StaticIsInherited
<1>1. IInv => StaticIsInherited
  BY DEF IInv
<1>2. QED
  BY <1>1, Invariant, PTL

(* Type correctness: only results that evmc.h allows reach a caller.       *)
THEOREM Types == Spec => []TypeOK
<1>1. IInv => TypeOK
  BY DEF IInv
<1>2. QED
  BY <1>1, Invariant, PTL

(* A caller is given what the callee returned, or is out of memory.        *)
THEOREM ResultsComeBack == Spec => []ResultComesBack
<1>1. Init => ResultComesBack
  BY DEF Init, ResultComesBack
<1>2. ResultComesBack /\ [Next]_vars => ResultComesBack'
  <2> SUFFICES ASSUME ResultComesBack, [Next]_vars PROVE ResultComesBack'
    OBVIOUS
  <2>1. ASSUME NEW r \in CResult, VMReturn(r) \/ HostAnswers(r) PROVE ResultComesBack'
    <3>1. \/ returned' = NoResult /\ received' = NoResult
          \/ returned' = r /\ received' \in MadeResults(GoResult(r).res, GoResult(r).err)
      BY <2>1 DEF VMReturn, HostAnswers
    <3>2. QED
      BY <3>1, ResultRoundTrip DEF ResultComesBack
  <2>2. CASE \/ \E s \in BOOLEAN, d \in Modes : ExecuteTransaction(s, d)
             \/ \E f \in MessageFlags : call(f)
             \/ \E d \in Modes : ExecuteCall(d)
             \/ UNCHANGED vars
    BY <2>2 DEF ExecuteTransaction, call, ExecuteCall, vars, ResultComesBack
  <2>3. QED
    BY <2>1, <2>2 DEF Next
<1>3. QED
  BY <1>1, <1>2, PTL DEF Spec
=============================================================================

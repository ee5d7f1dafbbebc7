------------------------- MODULE InstructionsProofs --------------------------
(* What every client of the tables may rely on, and why: the tables of a   *)
(* revision are those of the one before with new instructions, new prices  *)
(* and the names of both.                                                  *)
EXTENDS Instructions, TLAPS

(* The tables of metrics.                                                  *)

\* An entry that StackCannotUnderflow allows.
Entry ==
  {m \in [gas_cost : 0..INT16_MAX, stack_height_required : 0..INT8_MAX, stack_height_change : Int] :
     m.stack_height_required + m.stack_height_change \in 0..INT8_MAX}

MetricsTable == [Opcode -> Entry]
Defined(t) == {op \in Opcode : t[op] # Undefined}

SameHeights(m, n) ==
  /\ m.stack_height_required = n.stack_height_required
  /\ m.stack_height_change = n.stack_height_change

\* The table u is t with the new instructions ops, and perhaps other prices.
Grown(t, u, ops) ==
  /\ u \in MetricsTable
  /\ Defined(u) = Defined(t) \cup ops
  /\ \A op \in Opcode \ ops : SameHeights(t[op], u[op])

\* The types of the fields are wide enough for every cost and height of a table.
LEMMA Widths == INT16_MAX \in Nat /\ INT16_MAX >= CREATION_COST /\ INT8_MAX \in Nat /\ INT8_MAX >= 17
BY DEF INT16_MAX, INT8_MAX, CREATION_COST

LEMMA EntryOfMetrics ==
  ASSUME NEW cost \in 0..INT16_MAX, NEW required \in 0..INT8_MAX, NEW change \in Int,
         required + change \in 0..INT8_MAX, required # 0
  PROVE  Metrics(cost, required, change) \in Entry \ {Undefined}
BY DEF Metrics, Entry, Undefined, ZERO

\* The table t has the opcodes ops, with proper entries.
Table(t, ops) == t \in MetricsTable /\ Defined(t) = ops

LEMMA Defining ==
  ASSUME NEW t \in MetricsTable, NEW ops, ops \subseteq Opcode, NEW m \in Entry, m # Undefined
  PROVE  Grown(t, Define(t, ops, m), ops)
<1> DEFINE u == Define(t, ops, m)
<1>1. u = [op \in Opcode |-> IF op \in ops THEN m ELSE t[op]]
  BY DEF Define
<1> HIDE DEF u
<1>2. u \in MetricsTable
  BY <1>1 DEF MetricsTable
<1>3. Defined(u) = Defined(t) \cup ops
  BY <1>1 DEF Defined
<1>4. \A op \in Opcode \ ops : SameHeights(t[op], u[op])
  BY <1>1 DEF SameHeights
<1> QED
  BY <1>2, <1>3, <1>4 DEF Grown, u

LEMMA Repricing ==
  ASSUME NEW t \in MetricsTable, NEW ops, ops \subseteq Defined(t), NEW cost \in 1..INT16_MAX
  PROVE  Grown(t, Reprice(t, ops, cost), {})
<1> DEFINE u == Reprice(t, ops, cost)
<1>1. u = [op \in Opcode |-> IF op \in ops THEN [t[op] EXCEPT !.gas_cost = cost] ELSE t[op]]
  BY DEF Reprice
<1>2. ops \subseteq Opcode
  BY DEF Defined
<1> HIDE DEF u
<1>3. ASSUME NEW op \in ops
      PROVE  u[op] \in Entry /\ SameHeights(t[op], u[op]) /\ u[op] # Undefined
  <2>1. t[op] \in Entry
    BY <1>2 DEF MetricsTable
  <2>2. PICK m \in Entry : m = t[op]
    BY <2>1
  <2>3. u[op] = [m EXCEPT !.gas_cost = cost]
    <3> DEFINE r(o) == [t[o] EXCEPT !.gas_cost = cost]
    <3>1. op \in Opcode /\ op \in ops
      BY <1>2
    <3>2. u = [o \in Opcode |-> IF o \in ops THEN r(o) ELSE t[o]]
      BY ONLY <1>1, Zenon
    <3> HIDE DEF r
    <3>3. u[op] = r(op)
      BY ONLY <3>1, <3>2
    <3>4. r(op) = [m EXCEPT !.gas_cost = cost]
      BY ONLY <2>2, Zenon DEF r
    <3> QED
      BY ONLY <3>3, <3>4
  <2>4. cost \in 0..INT16_MAX /\ cost # 0
    BY Widths
  <2>5. [m EXCEPT !.gas_cost = cost] \in Entry /\ [m EXCEPT !.gas_cost = cost].gas_cost = cost
    BY <2>4, Widths DEF Entry
  <2>6. SameHeights(m, [m EXCEPT !.gas_cost = cost])
    BY DEF Entry, SameHeights
  <2>7. Undefined.gas_cost = 0
    BY DEF Undefined, Metrics, ZERO
  <2> QED
    BY <2>2, <2>3, <2>4, <2>5, <2>6, <2>7
<1>4. \A op \in Opcode \ ops : u[op] = t[op]
  BY <1>1
<1>5. u \in MetricsTable
  <2>1. \A op \in Opcode : u[op] \in Entry
    BY <1>3, <1>4 DEF MetricsTable
  <2>2. u = [op \in Opcode |-> u[op]]
    BY <1>1
  <2> QED
    BY <2>1, <2>2 DEF MetricsTable
<1>6. Defined(u) = Defined(t) \cup {}
  BY <1>2, <1>3, <1>4 DEF Defined
<1>7. \A op \in Opcode : SameHeights(t[op], u[op])
  BY <1>3, <1>4 DEF SameHeights
<1> QED
  BY <1>5, <1>6, <1>7 DEF Grown, u

\* From the table t a later one has come about, whose opcodes are all: a step more.
LEMMA Added ==
  ASSUME NEW t, NEW u, NEW new, NEW all, Grown(t, u, new), Table(u, all), NEW ops, ops \subseteq Opcode,
         NEW m \in Entry, m # Undefined
  PROVE  /\ Grown(t, Define(u, ops, m), new \cup ops)
         /\ Table(Define(u, ops, m), all \cup ops)
<1>1. Grown(u, Define(u, ops, m), ops)
  BY Defining DEF Table
<1> QED
  BY <1>1 DEF Grown, SameHeights, Table

LEMMA Repriced ==
  ASSUME NEW t, NEW u, NEW new, NEW all, Grown(t, u, new), Table(u, all), NEW ops, ops \subseteq all,
         NEW cost \in 1..INT16_MAX
  PROVE  Grown(t, Reprice(u, ops, cost), new) /\ Table(Reprice(u, ops, cost), all)
<1>1. Grown(u, Reprice(u, ops, cost), {})
  BY Repricing DEF Table
<1> QED
  BY <1>1 DEF Grown, SameHeights, Table

LEMMA Unchanged ==
  ASSUME NEW t, NEW ops, Table(t, ops)
  PROVE  Grown(t, t, {})
BY DEF Grown, SameHeights, Table

FrontierOps ==
  (\h01 .. \h0b) \cup (\h10 .. \h1a) \cup {\h20} \cup (\h30 .. \h3c) \cup (\h40 .. \h45)
  \cup (\h50 .. \h5b) \cup (\h60 .. \ha4) \cup (\hf0 .. \hf3) \cup {\hff}

\* No case of FrontierMetrics is the one of op.
NoCase(op) ==
  /\ op \notin {\h01, \h03, \h1a} \cup (\h10 .. \h14) \cup (\h16 .. \h18)
  /\ op \notin {\h02, \h0b} \cup (\h04 .. \h07)
  /\ op \notin {\h08, \h09} /\ op # \h0a
  /\ op \notin {\h15, \h19, \h35, \h51} /\ op # \h20
  /\ op \notin {\h30, \h32, \h33, \h34, \h36, \h38, \h3a, \h58, \h59, \h5a} \cup (\h41 .. \h45)
  /\ op \notin {\h31, \h3b, \h40} /\ op \notin {\h37, \h39} /\ op # \h3c /\ op # \h50
  /\ op \notin {\h52, \h53} /\ op # \h54 /\ op \notin {\h55, \hf3}
  /\ op # \h56 /\ op # \h57 /\ op # \h5b
  /\ op \notin \h60 .. \h7f /\ op \notin \h80 .. \h8f /\ op \notin \h90 .. \h9f
  /\ op \notin \ha0 .. \ha4
  /\ op # \hf0 /\ op \notin {\hf1, \hf2} /\ op # \hff

\* The entries in the cases of FrontierMetrics.
Producers ==
  {Metrics(BASE, 0, 1), Metrics(1, 0, 0), Metrics(VERYLOW, 0, 1)}
Unary ==
  {Metrics(VERYLOW, 1, 0), Metrics(20, 1, 0), Metrics(BASE, 1, -1), Metrics(50, 1, 0),
   Metrics(MID, 1, -1), Metrics(ZERO, 1, -1)}
Binary ==
  {Metrics(VERYLOW, 2, -1), Metrics(LOW, 2, -1), Metrics(HIGH, 2, -1), Metrics(30, 2, -1)}
Consumers ==
  {Metrics(VERYLOW, 2, -2), Metrics(ZERO, 2, -2), Metrics(HIGH, 2, -2)}
Longer ==
  {Metrics(MID, 3, -2), Metrics(VERYLOW, 3, -3), Metrics(20, 4, -4), Metrics(CREATION_COST, 3, -2),
   Metrics(40, 7, -6)}

CasesIn(S) ==
  /\ Producers \subseteq S /\ Unary \subseteq S /\ Binary \subseteq S /\ Consumers \subseteq S
  /\ Longer \subseteq S
  /\ \A op \in \h80 .. \h8f : Metrics(VERYLOW, op - \h7f, 1) \in S
  /\ \A op \in \h90 .. \h9f : Metrics(VERYLOW, op - \h8e, 0) \in S
  /\ \A op \in \ha0 .. \ha4 : LogMetrics(op - \ha0) \in S

LEMMA Uncovered ==
  ASSUME NEW op, NEW S, NoCase(op), Undefined \in S
  PROVE  FrontierMetrics(op) \in S
BY ZenonT(60) DEF NoCase, FrontierMetrics

LEMMA Covered ==
  ASSUME NEW op, NEW D, op \in D, \A o : NoCase(o) => o \notin D, NEW S, CasesIn(S)
  PROVE  FrontierMetrics(op) \in S
BY ZenonT(60) DEF NoCase, CasesIn, Producers, Unary, Binary, Consumers, Longer, FrontierMetrics

LEMMA FrontierMetricsTable ==
  frontier_metrics \in MetricsTable /\ Defined(frontier_metrics) = FrontierOps
<1>1. ASSUME NEW op
      PROVE  op \in FrontierOps <=> ~ NoCase(op)
  BY DEF NoCase, FrontierOps
<1>2. CasesIn(Entry \ {Undefined})
  <2>1. ASSUME NEW op \in \h80 .. \h8f
        PROVE  Metrics(VERYLOW, op - \h7f, 1) \in Entry \ {Undefined}
    <3> DEFINE r == op - \h7f
    <3>1. r \in 0 .. INT8_MAX /\ r + 1 \in 0 .. INT8_MAX /\ r # 0
      BY Widths DEF CREATION_COST
    <3>2. VERYLOW \in 0 .. INT16_MAX /\ 1 \in Int
      BY Widths DEF VERYLOW, CREATION_COST
    <3> HIDE DEF r
    <3>3. Metrics(VERYLOW, r, 1) \in Entry \ {Undefined}
      BY ONLY <3>1, <3>2, EntryOfMetrics
    <3> QED
      BY <3>3 DEF r
  <2>2. ASSUME NEW op \in \h90 .. \h9f
        PROVE  Metrics(VERYLOW, op - \h8e, 0) \in Entry \ {Undefined}
    <3> DEFINE r == op - \h8e
    <3>1. r \in 0 .. INT8_MAX /\ r + 0 \in 0 .. INT8_MAX /\ r # 0
      BY Widths DEF CREATION_COST
    <3>2. VERYLOW \in 0 .. INT16_MAX /\ 0 \in Int
      BY Widths DEF VERYLOW, CREATION_COST
    <3> HIDE DEF r
    <3>3. Metrics(VERYLOW, r, 0) \in Entry \ {Undefined}
      BY ONLY <3>1, <3>2, EntryOfMetrics
    <3> QED
      BY <3>3 DEF r
  <2>3. ASSUME NEW op \in \ha0 .. \ha4
        PROVE  LogMetrics(op - \ha0) \in Entry \ {Undefined}
    <3> DEFINE n == op - \ha0
               c == (n + 1) * 375
               r == n + 2
               d == -(n + 2)
    <3>1. LogMetrics(op - \ha0) = Metrics(c, r, d)
      BY DEF LogMetrics
    <3>2. c \in 0 .. INT16_MAX
      <4>1. n \in 0 .. 4
        OBVIOUS
      <4> HIDE DEF n
      <4>2. n = 0 \/ n = 1 \/ n = 2 \/ n = 3 \/ n = 4
        BY ONLY <4>1
      <4> QED
        BY ONLY <4>2, Widths DEF CREATION_COST
    <3>3. r \in 0 .. INT8_MAX /\ r # 0 /\ d \in Int /\ r + d = 0
      BY Widths DEF CREATION_COST
    <3>4. 0 \in 0 .. INT8_MAX
      BY Widths DEF CREATION_COST
    <3> HIDE DEF c, r, d
    <3>5. Metrics(c, r, d) \in Entry \ {Undefined}
      BY ONLY <3>2, <3>3, <3>4, EntryOfMetrics
    <3> QED
      BY ONLY <3>1, <3>5
  <2> USE Widths DEF Metrics, Entry, Undefined, ZERO, CREATION_COST
  <2>4. Producers \subseteq Entry \ {Undefined}
    BY DEF Producers, BASE, VERYLOW
  <2>5. Unary \subseteq Entry \ {Undefined}
    BY DEF Unary, BASE, VERYLOW, MID
  <2>6. Binary \subseteq Entry \ {Undefined}
    BY DEF Binary, VERYLOW, LOW, HIGH
  <2>7. Consumers \subseteq Entry \ {Undefined}
    BY DEF Consumers, VERYLOW, HIGH
  <2>8. Longer \subseteq Entry \ {Undefined}
    BY DEF Longer, VERYLOW, MID, CREATION_COST
  <2> HIDE DEF Metrics, Entry, Undefined
  <2> QED
    BY ONLY <2>1, <2>2, <2>3, <2>4, <2>5, <2>6, <2>7, <2>8, Zenon DEF CasesIn
<1>3. Undefined \in Entry
  BY Widths DEF Undefined, Entry, Metrics, ZERO, CREATION_COST
<1>4. ASSUME NEW op
      PROVE  /\ op \in FrontierOps => FrontierMetrics(op) \in Entry \ {Undefined}
             /\ op \notin FrontierOps => FrontierMetrics(op) \in {Undefined}
  BY <1>1, <1>2, Covered, Uncovered
<1>5. frontier_metrics = [op \in Opcode |-> FrontierMetrics(op)]
  BY DEF frontier_metrics
<1>6. FrontierOps \subseteq Opcode
  BY DEF FrontierOps, Opcode
<1> QED
  BY <1>3, <1>4, <1>5, <1>6 DEF MetricsTable, Defined

\* The instructions that each of the later tables adds.
HomesteadOps == FrontierOps \cup {\hf4}
ByzantiumOps == HomesteadOps \cup {\h3d, \h3e, \hfa, \hfd}
ConstantinopleOps == ByzantiumOps \cup (\h1b .. \h1d) \cup {\h3f, \hf5}
IstanbulOps == ConstantinopleOps \cup {\h46, \h47}
LondonOps == IstanbulOps \cup {\h48}
ShanghaiOps == LondonOps \cup {\h5f}

LEMMA HomesteadMetrics ==
  Grown(frontier_metrics, homestead_metrics, {\hf4}) /\ Table(homestead_metrics, HomesteadOps)
<1>1. Metrics(40, 6, -5) \in Entry /\ Metrics(40, 6, -5) # Undefined
  BY Widths DEF Metrics, Entry, Undefined, ZERO, CREATION_COST
<1>2. {\hf4} \subseteq Opcode
  BY DEF Opcode
<1>3. Grown(frontier_metrics, homestead_metrics, {\hf4})
  BY <1>1, <1>2, FrontierMetricsTable, Defining DEF homestead_metrics
<1> QED
  BY <1>3, FrontierMetricsTable DEF Grown, Table, HomesteadOps

LEMMA TangerineWhistleMetrics ==
  /\ Grown(homestead_metrics, tangerine_whistle_metrics, {})
  /\ Table(tangerine_whistle_metrics, HomesteadOps)
<1> DEFINE calls == Reprice(homestead_metrics, {\h3b, \h3c, \hf1, \hf2, \hf4}, 700)
           balance == Reprice(calls, {\h31}, 400)
           reads == Reprice(balance, {\h54}, 200)
           t == Reprice(reads, {\hff}, 5000)
<1>1. t = tangerine_whistle_metrics
  BY DEF tangerine_whistle_metrics
<1>2. /\ {\h3b, \h3c, \hf1, \hf2, \hf4} \subseteq HomesteadOps
      /\ {\h31} \subseteq HomesteadOps /\ {\h54} \subseteq HomesteadOps /\ {\hff} \subseteq HomesteadOps
  BY DEF HomesteadOps, FrontierOps
<1>3. {700, 400, 200, 5000} \subseteq 1..INT16_MAX
  BY Widths DEF CREATION_COST
<1>4. Grown(homestead_metrics, calls, {}) /\ Table(calls, HomesteadOps)
  BY <1>2, <1>3, HomesteadMetrics, Unchanged, Repriced
<1> HIDE DEF calls
<1>5. Grown(homestead_metrics, balance, {}) /\ Table(balance, HomesteadOps)
  BY <1>2, <1>3, <1>4, Repriced
<1> HIDE DEF balance
<1>6. Grown(homestead_metrics, reads, {}) /\ Table(reads, HomesteadOps)
  BY <1>2, <1>3, <1>5, Repriced
<1> HIDE DEF reads
<1>7. Grown(homestead_metrics, t, {}) /\ Table(t, HomesteadOps)
  BY <1>2, <1>3, <1>6, Repriced
<1> QED
  BY <1>1, <1>7

LEMMA ByzantiumMetrics ==
  /\ Grown(tangerine_whistle_metrics, byzantium_metrics, {\h3d, \h3e, \hfa, \hfd})
  /\ Table(byzantium_metrics, ByzantiumOps)
<1> DEFINE a == Metrics(BASE, 0, 1)
           b == Metrics(VERYLOW, 3, -3)
           c == Metrics(700, 6, -5)
           d == Metrics(ZERO, 2, -2)
           size == Define(tangerine_whistle_metrics, {\h3d}, a)
           data == Define(size, {\h3e}, b)
           static == Define(data, {\hfa}, c)
           t == Define(static, {\hfd}, d)
<1>1. t = byzantium_metrics
  BY DEF byzantium_metrics
<1>2. a \in Entry /\ a # Undefined
  BY Widths DEF Metrics, Entry, Undefined, ZERO, BASE, CREATION_COST
<1>3. b \in Entry /\ b # Undefined
  BY Widths DEF Metrics, Entry, Undefined, ZERO, VERYLOW, CREATION_COST
<1>4. c \in Entry /\ c # Undefined
  BY Widths DEF Metrics, Entry, Undefined, ZERO, CREATION_COST
<1>5. d \in Entry /\ d # Undefined
  BY Widths DEF Metrics, Entry, Undefined, ZERO, CREATION_COST
<1>6. {\h3d} \subseteq Opcode /\ {\h3e} \subseteq Opcode /\ {\hfa} \subseteq Opcode /\ {\hfd} \subseteq Opcode
  BY DEF Opcode
<1> HIDE DEF a, b, c, d
<1>7. /\ Grown(tangerine_whistle_metrics, size, {} \cup {\h3d})
      /\ Table(size, HomesteadOps \cup {\h3d})
  BY ONLY <1>2, <1>6, TangerineWhistleMetrics, Unchanged, Added
<1> HIDE DEF size
<1>8. /\ Grown(tangerine_whistle_metrics, data, {} \cup {\h3d} \cup {\h3e})
      /\ Table(data, HomesteadOps \cup {\h3d} \cup {\h3e})
  BY ONLY <1>3, <1>6, <1>7, Added
<1> HIDE DEF data
<1>9. /\ Grown(tangerine_whistle_metrics, static, {} \cup {\h3d} \cup {\h3e} \cup {\hfa})
      /\ Table(static, HomesteadOps \cup {\h3d} \cup {\h3e} \cup {\hfa})
  BY ONLY <1>4, <1>6, <1>8, Added
<1> HIDE DEF static
<1>10. /\ Grown(tangerine_whistle_metrics, t, {} \cup {\h3d} \cup {\h3e} \cup {\hfa} \cup {\hfd})
       /\ Table(t, HomesteadOps \cup {\h3d} \cup {\h3e} \cup {\hfa} \cup {\hfd})
  <2>1. {\hfd} \subseteq Opcode
    BY <1>6
  <2> QED
    BY ONLY <1>5, <1>9, <2>1, Added
<1>11. {} \cup {\h3d} \cup {\h3e} \cup {\hfa} \cup {\hfd} = {\h3d, \h3e, \hfa, \hfd}
  OBVIOUS
<1>12. HomesteadOps \cup {\h3d} \cup {\h3e} \cup {\hfa} \cup {\hfd} = ByzantiumOps
  BY DEF ByzantiumOps
<1> HIDE DEF t
<1> QED
  BY <1>1, <1>10, <1>11, <1>12

LEMMA ConstantinopleMetrics ==
  /\ Grown(byzantium_metrics, constantinople_metrics, (\h1b .. \h1d) \cup {\h3f, \hf5})
  /\ Table(constantinople_metrics, ConstantinopleOps)
<1> DEFINE a == Metrics(VERYLOW, 2, -1)
           b == Metrics(400, 1, 0)
           c == Metrics(CREATION_COST, 4, -3)
           shifts == Define(byzantium_metrics, \h1b .. \h1d, a)
           hash == Define(shifts, {\h3f}, b)
           t == Define(hash, {\hf5}, c)
<1>1. t = constantinople_metrics
  BY DEF constantinople_metrics
<1>2. a \in Entry /\ a # Undefined
  BY Widths DEF Metrics, Entry, Undefined, ZERO, VERYLOW, CREATION_COST
<1>3. b \in Entry /\ b # Undefined
  BY Widths DEF Metrics, Entry, Undefined, ZERO, CREATION_COST
<1>4. c \in Entry /\ c # Undefined
  BY Widths DEF Metrics, Entry, Undefined, ZERO, CREATION_COST
<1>5. \h1b .. \h1d \subseteq Opcode /\ {\h3f} \subseteq Opcode /\ {\hf5} \subseteq Opcode
  BY DEF Opcode
<1> HIDE DEF a, b, c
<1>6. /\ Grown(byzantium_metrics, shifts, {} \cup (\h1b .. \h1d))
      /\ Table(shifts, ByzantiumOps \cup (\h1b .. \h1d))
  BY ONLY <1>2, <1>5, ByzantiumMetrics, Unchanged, Added
<1> HIDE DEF shifts
<1>7. /\ Grown(byzantium_metrics, hash, {} \cup (\h1b .. \h1d) \cup {\h3f})
      /\ Table(hash, ByzantiumOps \cup (\h1b .. \h1d) \cup {\h3f})
  BY ONLY <1>3, <1>5, <1>6, Added
<1> HIDE DEF hash
<1>8. /\ Grown(byzantium_metrics, t, {} \cup (\h1b .. \h1d) \cup {\h3f} \cup {\hf5})
      /\ Table(t, ByzantiumOps \cup (\h1b .. \h1d) \cup {\h3f} \cup {\hf5})
  BY ONLY <1>4, <1>5, <1>7, Added
<1>9. {} \cup (\h1b .. \h1d) \cup {\h3f} \cup {\hf5} = (\h1b .. \h1d) \cup {\h3f, \hf5}
  OBVIOUS
<1>10. ByzantiumOps \cup (\h1b .. \h1d) \cup {\h3f} \cup {\hf5} = ConstantinopleOps
  BY DEF ConstantinopleOps
<1> HIDE DEF t
<1> QED
  BY <1>1, <1>8, <1>9, <1>10

LEMMA IstanbulMetrics ==
  /\ Grown(constantinople_metrics, istanbul_metrics, {\h46, \h47})
  /\ Table(istanbul_metrics, IstanbulOps)
<1> DEFINE a == Metrics(BASE, 0, 1)
           b == Metrics(LOW, 0, 1)
           id == Define(constantinople_metrics, {\h46}, a)
           added == Define(id, {\h47}, b)
           accounts == Reprice(added, {\h31, \h3f}, 700)
           t == Reprice(accounts, {\h54}, 800)
<1>1. t = istanbul_metrics
  BY DEF istanbul_metrics
<1>2. a \in Entry /\ a # Undefined
  BY Widths DEF Metrics, Entry, Undefined, ZERO, BASE, CREATION_COST
<1>3. b \in Entry /\ b # Undefined
  BY Widths DEF Metrics, Entry, Undefined, ZERO, LOW, CREATION_COST
<1>4. /\ {\h46} \subseteq Opcode /\ {\h47} \subseteq Opcode
      /\ {} \cup {\h46} \cup {\h47} = {\h46, \h47}
      /\ ConstantinopleOps \cup {\h46} \cup {\h47} = IstanbulOps
      /\ {\h31, \h3f} \subseteq IstanbulOps /\ {\h54} \subseteq IstanbulOps
      /\ {700, 800} \subseteq 1..INT16_MAX
  BY Widths DEF Opcode, IstanbulOps, ConstantinopleOps, ByzantiumOps, HomesteadOps, FrontierOps, CREATION_COST
<1> HIDE DEF a, b
<1>5. /\ Grown(constantinople_metrics, id, {} \cup {\h46})
      /\ Table(id, ConstantinopleOps \cup {\h46})
  <2>1. {\h46} \subseteq Opcode
    BY <1>4
  <2>2. Grown(constantinople_metrics, constantinople_metrics, {})
    BY ConstantinopleMetrics, Unchanged
  <2> QED
    BY ONLY <1>2, <2>1, <2>2, ConstantinopleMetrics, Added
<1> HIDE DEF id
<1>6. /\ Grown(constantinople_metrics, added, {} \cup {\h46} \cup {\h47})
      /\ Table(added, ConstantinopleOps \cup {\h46} \cup {\h47})
  <2>1. {\h47} \subseteq Opcode
    BY <1>4
  <2> QED
    BY ONLY <1>3, <1>5, <2>1, Added
<1>7. Grown(constantinople_metrics, added, {\h46, \h47}) /\ Table(added, IstanbulOps)
  BY <1>4, <1>6
<1> HIDE DEF added
<1>8. Grown(constantinople_metrics, accounts, {\h46, \h47}) /\ Table(accounts, IstanbulOps)
  BY ONLY <1>4, <1>7, Repriced
<1> HIDE DEF accounts
<1>9. Grown(constantinople_metrics, t, {\h46, \h47}) /\ Table(t, IstanbulOps)
  BY ONLY <1>4, <1>8, Repriced
<1> HIDE DEF t
<1> QED
  BY <1>1, <1>9

LEMMA BerlinMetrics ==
  Grown(istanbul_metrics, berlin_metrics, {}) /\ Table(berlin_metrics, IstanbulOps)
<1>1. AccessOpcodes \subseteq IstanbulOps
  BY DEF AccessOpcodes, IstanbulOps, ConstantinopleOps, ByzantiumOps, HomesteadOps, FrontierOps
<1>2. WARM_STORAGE_READ_COST \in 1..INT16_MAX
  BY Widths DEF WARM_STORAGE_READ_COST, CREATION_COST
<1> QED
  BY <1>1, <1>2, IstanbulMetrics, Unchanged, Repriced DEF berlin_metrics

LEMMA LondonMetrics ==
  Grown(berlin_metrics, london_metrics, {\h48}) /\ Table(london_metrics, LondonOps)
<1>1. Metrics(BASE, 0, 1) \in Entry /\ Metrics(BASE, 0, 1) # Undefined
  BY Widths DEF Metrics, Entry, Undefined, ZERO, BASE, CREATION_COST
<1>2. {\h48} \subseteq Opcode /\ {} \cup {\h48} = {\h48}
  BY DEF Opcode
<1>3. /\ Grown(berlin_metrics, london_metrics, {} \cup {\h48})
      /\ Table(london_metrics, IstanbulOps \cup {\h48})
  BY <1>1, <1>2, BerlinMetrics, Unchanged, Added DEF london_metrics
<1> QED
  BY <1>2, <1>3 DEF LondonOps

LEMMA ShanghaiMetrics ==
  Grown(london_metrics, shanghai_metrics, {\h5f}) /\ Table(shanghai_metrics, ShanghaiOps)
<1>1. Metrics(BASE, 0, 1) \in Entry /\ Metrics(BASE, 0, 1) # Undefined
  BY Widths DEF Metrics, Entry, Undefined, ZERO, BASE, CREATION_COST
<1>2. {\h5f} \subseteq Opcode /\ {} \cup {\h5f} = {\h5f}
  BY DEF Opcode
<1>3. /\ Grown(london_metrics, shanghai_metrics, {} \cup {\h5f})
      /\ Table(shanghai_metrics, LondonOps \cup {\h5f})
  BY <1>1, <1>2, LondonMetrics, Unchanged, Added DEF shanghai_metrics
<1> QED
  BY <1>2, <1>3 DEF ShanghaiOps

(* The tables of names.                                                    *)

\* The names that a statement about the tables is about.
Special == {NULL, "STOP", "INVALID", "DIFFICULTY"}

\* The opcodes that a table of names has a name for, or no name.
At(n, text) == {op \in Opcode : n[op] = text}

\* The opcodes named have a name, and those of the other sets the special ones.
Names(n, named, stop, invalid, difficulty) ==
  /\ At(n, NULL) = Opcode \ named
  /\ At(n, "STOP") = stop
  /\ At(n, "INVALID") = invalid
  /\ At(n, "DIFFICULTY") = difficulty

\* The table o is n with other names for ops.
Renamed(n, o, ops) == \A op \in Opcode \ ops : o[op] = n[op]

Plain(names) == \A i \in 1..Len(names) : names[i] \notin Special

\* The names are those of the opcodes from .. to, none of which is in kept.
Fit(names, from, to, kept) ==
  /\ from \in Opcode /\ to \in Opcode
  /\ Len(names) \in Nat /\ to = from + Len(names) - 1
  /\ Plain(names)
  /\ (from .. to) \cap kept = {}

LEMMA Naming ==
  ASSUME NEW n, NEW named, NEW stop, NEW invalid, NEW difficulty,
         Names(n, named, stop, invalid, difficulty),
         NEW names, NEW from, NEW to, Fit(names, from, to, stop \cup invalid \cup difficulty)
  PROVE  /\ Names(Name(n, from, names), named \cup (from .. to), stop, invalid, difficulty)
         /\ Renamed(n, Name(n, from, names), from .. to)
<1> DEFINE ops == from .. to
           o == Name(n, from, names)
<1>1. o = [op \in Opcode |-> IF op \in ops THEN names[op - from + 1] ELSE n[op]]
  BY DEF Name, Fit
<1>2. ASSUME NEW op \in Opcode, op \in ops
      PROVE  o[op] \notin Special
  <2>1. op - from + 1 \in 1..Len(names)
    BY <1>2 DEF Opcode, Fit
  <2> QED
    BY <1>1, <1>2, <2>1 DEF Plain, Fit
<1>3. \A op \in Opcode \ ops : o[op] = n[op]
  BY <1>1
<1> HIDE DEF o, ops
<1>4. ops \cap (stop \cup invalid \cup difficulty) = {}
  BY DEF ops, Fit
<1>5. Names(o, named \cup ops, stop, invalid, difficulty)
  BY <1>2, <1>3, <1>4 DEF Names, At, Special
<1> QED
  BY <1>3, <1>5 DEF Renamed, o, ops

LEMMA NamingOne ==
  ASSUME NEW n, NEW named, NEW stop, NEW invalid, NEW difficulty,
         Names(n, named, stop, invalid, difficulty),
         NEW op \in Opcode, op \notin stop \cup invalid \cup difficulty, NEW text, text \notin Special
  PROVE  /\ Names(Name(n, op, <<text>>), named \cup {op}, stop, invalid, difficulty)
         /\ Renamed(n, Name(n, op, <<text>>), {op})
<1>1. op = op + Len(<<text>>) - 1 /\ Len(<<text>>) \in Nat
  BY DEF Opcode
<1>2. Plain(<<text>>)
  BY DEF Plain
<1>3. op .. op = {op}
  BY DEF Opcode
<1>4. Fit(<<text>>, op, op, stop \cup invalid \cup difficulty)
  BY <1>1, <1>2, <1>3 DEF Fit
<1>5. /\ Names(Name(n, op, <<text>>), named \cup (op .. op), stop, invalid, difficulty)
      /\ Renamed(n, Name(n, op, <<text>>), op .. op)
  BY ONLY <1>4, Naming, Names(n, named, stop, invalid, difficulty)
<1> QED
  BY <1>3, <1>5

\* The opcodes with a name that are no instruction, or one without an entry.
Fixed == {\h00, \hfe}

LEMMA FrontierNames ==
  Names(frontier_names, FrontierOps \cup Fixed, {\h00}, {\hfe}, {\h44})
<1> DEFINE unnamed == [op \in Opcode |-> NULL]
           first == Name(unnamed, \h00, Arithmetic)
           words == Name(first, \h10, Comparisons)
           hash == Name(words, \h20, <<"KECCAK256">>)
           environment == Name(hash, \h30, Environment)
           reads == Name(environment, \h40, Block)
           state == Name(reads, \h50, State)
           pushes == Name(state, \h60, Pushes)
           dups == Name(pushes, \h80, Dups)
           items == Name(dups, \h90, Swaps)
           logs == Name(items, \ha0, Logs)
           calls == Name(logs, \hf0, Calls)
           last == Name(calls, \hfe, <<"INVALID", "SELFDESTRUCT">>)
           N1 == \h00 .. \h0b
           N2 == N1 \cup (\h10 .. \h1a)
           N3 == N2 \cup (\h20 .. \h20)
           N4 == N3 \cup (\h30 .. \h3c)
           N5 == N4 \cup (\h40 .. \h45)
           N6 == N5 \cup (\h50 .. \h5b)
           N7 == N6 \cup (\h60 .. \h7f)
           N8 == N7 \cup (\h80 .. \h8f)
           N9 == N8 \cup (\h90 .. \h9f)
           N10 == N9 \cup (\ha0 .. \ha4)
           N11 == N10 \cup (\hf0 .. \hf3)
<1>1. last = frontier_names
  BY DEF frontier_names
<1>2. Names(first, N1, {\h00}, {}, {})
  <2>1. first = [op \in Opcode |-> IF op \in 0 .. 11 THEN Arithmetic[op + 1] ELSE NULL]
    <3>1. Len(Arithmetic) = 12
      BY DEF Arithmetic
    <3> QED
      BY <3>1 DEF Name
  <2>2. \A i \in 1..12 : (Arithmetic[i] \in Special <=> i = 1) /\ Arithmetic[1] = "STOP"
    BY DEF Arithmetic, Special, NULL
  <2>3. ASSUME NEW op \in Opcode, op \in 0 .. 11
        PROVE  /\ first[op] \in Special <=> op = \h00
               /\ op = \h00 => first[op] = "STOP"
    <3>1. op + 1 \in 1..12 /\ (op + 1 = 1 <=> op = \h00)
      BY <2>3
    <3>2. first[op] = Arithmetic[op + 1]
      BY <2>1, <2>3
    <3> HIDE DEF first
    <3> QED
      BY ONLY <2>2, <3>1, <3>2
  <2>4. ASSUME NEW op \in Opcode, op \notin 0 .. 11
        PROVE  first[op] = NULL
    BY <2>1, <2>4
  <2>5. \h00 \in Opcode /\ \h00 \in N1 /\ N1 = 0 .. 11 /\ N1 \subseteq Opcode
    BY DEF Opcode
  <2> HIDE DEF first, N1
  <2> QED
    BY ONLY <2>3, <2>4, <2>5 DEF Names, At, Special, NULL
<1> HIDE DEF first, N1
<1>3. Names(words, N2, {\h00}, {}, {})
  <2>1. Len(Comparisons) = 11 /\ Plain(Comparisons)
    BY DEF Comparisons, Plain, Special, NULL
  <2>2. \h1a = \h10 + Len(Comparisons) - 1 /\ Len(Comparisons) \in Nat
    BY <2>1
  <2>3. Fit(Comparisons, \h10, \h1a, {\h00} \cup {} \cup {})
    BY <2>1, <2>2 DEF Fit, Opcode
  <2> QED
    BY ONLY <1>2, <2>3, Naming
<1> HIDE DEF words, N2
<1>4. Names(hash, N3, {\h00}, {}, {})
  <2>1. Len(<<"KECCAK256">>) = 1 /\ Plain(<<"KECCAK256">>)
    BY DEF Plain, Special, NULL
  <2>2. \h20 = \h20 + Len(<<"KECCAK256">>) - 1 /\ Len(<<"KECCAK256">>) \in Nat
    BY <2>1
  <2>3. Fit(<<"KECCAK256">>, \h20, \h20, {\h00} \cup {} \cup {})
    BY <2>1, <2>2 DEF Fit, Opcode
  <2> QED
    BY ONLY <1>3, <2>3, Naming
<1> HIDE DEF hash, N3
<1>5. Names(environment, N4, {\h00}, {}, {})
  <2>1. Len(Environment) = 13 /\ Plain(Environment)
    BY DEF Environment, Plain, Special, NULL
  <2>2. \h3c = \h30 + Len(Environment) - 1 /\ Len(Environment) \in Nat
    BY <2>1
  <2>3. Fit(Environment, \h30, \h3c, {\h00} \cup {} \cup {})
    BY <2>1, <2>2 DEF Fit, Opcode
  <2> QED
    BY ONLY <1>4, <2>3, Naming
<1> HIDE DEF environment, N4
<1>6. Names(reads, N5, {\h00}, {}, {\h44})
  <2>1. reads = [op \in Opcode |-> IF op \in \h40 .. \h45 THEN Block[op - \h3f] ELSE environment[op]]
    <3>1. Len(Block) = 6
      BY DEF Block
    <3> QED
      BY <3>1 DEF Name
  <2>2. \A i \in 1..6 : (Block[i] \in Special <=> i = 5) /\ Block[5] = "DIFFICULTY"
    BY DEF Block, Special, NULL
  <2>3. ASSUME NEW op \in Opcode, op \in \h40 .. \h45
        PROVE  /\ reads[op] \in Special <=> op = \h44
               /\ op = \h44 => reads[op] = "DIFFICULTY"
    <3>1. op - \h3f \in 1..6 /\ (op - \h3f = 5 <=> op = \h44)
      BY <2>3
    <3>2. reads[op] = Block[op - \h3f]
      BY <2>1, <2>3
    <3> HIDE DEF reads
    <3> QED
      BY ONLY <2>2, <3>1, <3>2
  <2>4. ASSUME NEW op \in Opcode, op \notin \h40 .. \h45
        PROVE  reads[op] = environment[op]
    BY <2>1, <2>4
  <2>5. \h44 \in Opcode /\ \h44 \in \h40 .. \h45 /\ \h00 \notin \h40 .. \h45 /\ \h40 .. \h45 \subseteq Opcode
    BY DEF Opcode
  <2> HIDE DEF reads
  <2>6. Names(reads, N4 \cup (\h40 .. \h45), {\h00}, {}, {\h44})
    <3> DEFINE r == \h40 .. \h45
    <3>1. \A op \in Opcode \cap r :
            (reads[op] \in Special <=> op = \h44) /\ (op = \h44 => reads[op] = "DIFFICULTY")
      BY <2>3
    <3>2. \A op \in Opcode \ r : reads[op] = environment[op]
      BY <2>4
    <3>3. \h44 \in Opcode /\ \h44 \in r /\ \h00 \notin r /\ r \subseteq Opcode
      BY <2>5
    <3> HIDE DEF r
    <3>4. At(reads, NULL) = Opcode \ (N4 \cup r)
      BY ONLY <1>5, <3>1, <3>2, <3>3 DEF Names, At, Special, NULL
    <3>5. At(reads, "STOP") = {\h00}
      BY ONLY <1>5, <3>1, <3>2, <3>3 DEF Names, At, Special
    <3>6. At(reads, "INVALID") = {}
      BY ONLY <1>5, <3>1, <3>2, <3>3 DEF Names, At, Special
    <3>7. At(reads, "DIFFICULTY") = {\h44}
      BY ONLY <1>5, <3>1, <3>2, <3>3 DEF Names, At, Special
    <3> QED
      BY <3>4, <3>5, <3>6, <3>7 DEF Names, r
  <2> QED
    BY <2>6
<1> HIDE DEF reads, N5
<1>7. Names(state, N6, {\h00}, {}, {\h44})
  <2>1. Len(State) = 12 /\ Plain(State)
    BY DEF State, Plain, Special, NULL
  <2>2. \h5b = \h50 + Len(State) - 1 /\ Len(State) \in Nat
    BY <2>1
  <2>3. Fit(State, \h50, \h5b, {\h00} \cup {} \cup {\h44})
    BY <2>1, <2>2 DEF Fit, Opcode
  <2> QED
    BY ONLY <1>6, <2>3, Naming
<1> HIDE DEF state, N6
<1>8. Names(pushes, N7, {\h00}, {}, {\h44})
  <2>1. Len(Pushes) = 32 /\ Plain(Pushes)
    BY DEF Pushes, Plain, Special, NULL
  <2>2. \h7f = \h60 + Len(Pushes) - 1 /\ Len(Pushes) \in Nat
    BY <2>1
  <2>3. Fit(Pushes, \h60, \h7f, {\h00} \cup {} \cup {\h44})
    BY <2>1, <2>2 DEF Fit, Opcode
  <2> QED
    BY ONLY <1>7, <2>3, Naming
<1> HIDE DEF pushes, N7
<1>9. Names(dups, N8, {\h00}, {}, {\h44})
  <2>1. Len(Dups) = 16 /\ Plain(Dups)
    BY DEF Dups, Plain, Special, NULL
  <2>2. \h8f = \h80 + Len(Dups) - 1 /\ Len(Dups) \in Nat
    BY <2>1
  <2>3. Fit(Dups, \h80, \h8f, {\h00} \cup {} \cup {\h44})
    BY <2>1, <2>2 DEF Fit, Opcode
  <2> QED
    BY ONLY <1>8, <2>3, Naming
<1> HIDE DEF dups, N8
<1>10. Names(items, N9, {\h00}, {}, {\h44})
  <2>1. Len(Swaps) = 16 /\ Plain(Swaps)
    BY DEF Swaps, Plain, Special, NULL
  <2>2. \h9f = \h90 + Len(Swaps) - 1 /\ Len(Swaps) \in Nat
    BY <2>1
  <2>3. Fit(Swaps, \h90, \h9f, {\h00} \cup {} \cup {\h44})
    BY <2>1, <2>2 DEF Fit, Opcode
  <2> QED
    BY ONLY <1>9, <2>3, Naming
<1> HIDE DEF items, N9
<1>11. Names(logs, N10, {\h00}, {}, {\h44})
  <2>1. Len(Logs) = 5 /\ Plain(Logs)
    BY DEF Logs, Plain, Special, NULL
  <2>2. \ha4 = \ha0 + Len(Logs) - 1 /\ Len(Logs) \in Nat
    BY <2>1
  <2>3. Fit(Logs, \ha0, \ha4, {\h00} \cup {} \cup {\h44})
    BY <2>1, <2>2 DEF Fit, Opcode
  <2> QED
    BY ONLY <1>10, <2>3, Naming
<1> HIDE DEF logs, N10
<1>12. Names(calls, N11, {\h00}, {}, {\h44})
  <2>1. Len(Calls) = 4 /\ Plain(Calls)
    BY DEF Calls, Plain, Special, NULL
  <2>2. \hf3 = \hf0 + Len(Calls) - 1 /\ Len(Calls) \in Nat
    BY <2>1
  <2>3. Fit(Calls, \hf0, \hf3, {\h00} \cup {} \cup {\h44})
    BY <2>1, <2>2 DEF Fit, Opcode
  <2> QED
    BY ONLY <1>11, <2>3, Naming
<1> HIDE DEF calls, N11
<1>13. Names(last, N11 \cup Fixed \cup {\hff}, {\h00}, {\hfe}, {\h44})
  <2>1. last = [op \in Opcode |-> IF op \in \hfe .. \hff
                                  THEN <<"INVALID", "SELFDESTRUCT">>[op - \hfd] ELSE calls[op]]
    <3>1. Len(<<"INVALID", "SELFDESTRUCT">>) = 2
      OBVIOUS
    <3> QED
      BY <3>1 DEF Name
  <2>2. last[\hfe] = "INVALID" /\ last[\hff] = "SELFDESTRUCT"
    BY <2>1 DEF Opcode
  <2>3. \A op \in Opcode \ {\hfe, \hff} : last[op] = calls[op]
    BY <2>1 DEF Opcode
  <2> HIDE DEF last
  <2>4. \h00 \in N11 /\ \hfe \notin N11 /\ \hff \notin N11
    BY DEF N11, N10, N9, N8, N7, N6, N5, N4, N3, N2, N1
  <2>5. {\h00, \h44, \hfe, \hff} \subseteq Opcode /\ \hfe # \h00 /\ \hff # \h00 /\ \hfe # \h44 /\ \hff # \h44
    BY DEF Opcode
  <2>6. At(last, NULL) = Opcode \ (N11 \cup {\hfe, \hff})
    BY <1>12, <2>2, <2>3 DEF Names, At, NULL
  <2>7. At(last, "STOP") = {\h00}
    BY <1>12, <2>2, <2>3, <2>5 DEF Names, At
  <2>8. At(last, "INVALID") = {\hfe}
    BY <1>12, <2>2, <2>3, <2>5 DEF Names, At
  <2>9. At(last, "DIFFICULTY") = {\h44}
    BY <1>12, <2>2, <2>3, <2>5 DEF Names, At
  <2>10. N11 \cup {\hfe, \hff} = N11 \cup Fixed \cup {\hff}
    BY <2>4 DEF Fixed
  <2> QED
    BY <2>6, <2>7, <2>8, <2>9, <2>10 DEF Names
<1>14. N11 \cup Fixed \cup {\hff} = FrontierOps \cup Fixed
  BY DEF N11, N10, N9, N8, N7, N6, N5, N4, N3, N2, N1, FrontierOps, Fixed
<1> HIDE DEF last
<1> QED
  BY <1>1, <1>13, <1>14

\* The table n has names for the opcodes ops, of which those in difficulty are DIFFICULTY.
NameTable(n, ops, difficulty) == Names(n, ops \cup Fixed, {\h00}, {\hfe}, difficulty)

\* The table n is n0 with other names for the opcodes new, which makes it a table of ops.
Later(n0, n, new, ops, difficulty) == Renamed(n0, n, new) /\ NameTable(n, ops, difficulty)

\* The opcode op can have another name.
Free(op, difficulty) == op \in Opcode /\ op \notin Fixed \cup difficulty

LEMMA OneMore ==
  ASSUME NEW n0, NEW n, NEW new, NEW ops, NEW difficulty, Later(n0, n, new, ops, difficulty),
         NEW op, Free(op, difficulty), NEW text, text \notin Special
  PROVE  Later(n0, Name(n, op, <<text>>), new \cup {op}, ops \cup {op}, difficulty)
<1>1. op \in Opcode /\ op \notin {\h00} \cup {\hfe} \cup difficulty
  BY DEF Free, Fixed
<1>2. /\ Names(Name(n, op, <<text>>), ops \cup Fixed \cup {op}, {\h00}, {\hfe}, difficulty)
      /\ Renamed(n, Name(n, op, <<text>>), {op})
  BY <1>1, NamingOne DEF NameTable, Later
<1>3. ops \cup Fixed \cup {op} = ops \cup {op} \cup Fixed
  OBVIOUS
<1>4. NameTable(Name(n, op, <<text>>), ops \cup {op}, difficulty)
  BY <1>2, <1>3 DEF NameTable
<1>5. Renamed(n0, Name(n, op, <<text>>), new \cup {op})
  BY <1>2 DEF Renamed, Later
<1> QED
  BY <1>4, <1>5 DEF Later

LEMMA SomeMore ==
  ASSUME NEW n0, NEW n, NEW new, NEW ops, NEW difficulty, Later(n0, n, new, ops, difficulty),
         NEW names, NEW from, NEW to, Fit(names, from, to, Fixed \cup difficulty)
  PROVE  Later(n0, Name(n, from, names), new \cup (from .. to), ops \cup (from .. to), difficulty)
<1>1. Fit(names, from, to, {\h00} \cup {\hfe} \cup difficulty)
  <2>1. {\h00} \cup {\hfe} \cup difficulty = Fixed \cup difficulty
    BY DEF Fixed
  <2> QED
    BY <2>1
<1>2. /\ Names(Name(n, from, names), ops \cup Fixed \cup (from .. to), {\h00}, {\hfe}, difficulty)
      /\ Renamed(n, Name(n, from, names), from .. to)
  <2>1. Names(n, ops \cup Fixed, {\h00}, {\hfe}, difficulty)
    BY DEF NameTable, Later
  <2> QED
    BY ONLY <1>1, <2>1, Naming
<1>3. ops \cup Fixed \cup (from .. to) = ops \cup (from .. to) \cup Fixed
  OBVIOUS
<1>4. NameTable(Name(n, from, names), ops \cup (from .. to), difficulty)
  BY <1>2, <1>3 DEF NameTable
<1>5. Renamed(n0, Name(n, from, names), new \cup (from .. to))
  BY <1>2 DEF Renamed, Later
<1> QED
  BY <1>4, <1>5 DEF Later

LEMMA NotYet ==
  ASSUME NEW n, NEW ops, NEW difficulty, NameTable(n, ops, difficulty)
  PROVE  Later(n, n, {}, ops, difficulty)
BY DEF Later, Renamed

LEMMA NotRenamed == \A n : Renamed(n, n, {})
BY DEF Renamed

LEMMA HomesteadNames ==
  Later(frontier_names, homestead_names, {} \cup {\hf4}, HomesteadOps, {\h44})
<1>1. NameTable(frontier_names, FrontierOps, {\h44})
  BY FrontierNames DEF NameTable
<1>2. "DELEGATECALL" \notin Special
  BY DEF Special, NULL
<1>3. Free(\hf4, {\h44})
  BY DEF Free, Opcode, Fixed
<1> QED
  BY <1>1, <1>2, <1>3, NotYet, OneMore DEF homestead_names, HomesteadOps

LEMMA ByzantiumNames ==
  Later(homestead_names, byzantium_names, {\h3d, \h3e, \hfa, \hfd}, ByzantiumOps, {\h44})
<1> DEFINE texts == <<"RETURNDATASIZE", "RETURNDATACOPY">>
           data == Name(homestead_names, \h3d, texts)
           static == Name(data, \hfa, <<"STATICCALL">>)
           n == Name(static, \hfd, <<"REVERT">>)
<1>1. n = byzantium_names
  BY DEF byzantium_names
<1>2. Len(texts) = 2 /\ Plain(texts)
  BY DEF Plain, Special, NULL
<1>3. "STATICCALL" \notin Special /\ "REVERT" \notin Special
  BY DEF Special, NULL
<1> HIDE DEF texts
<1>4. Fit(texts, \h3d, \h3e, Fixed \cup {\h44})
  <2>1. \h3e = \h3d + Len(texts) - 1 /\ Len(texts) \in Nat
    BY <1>2
  <2> QED
    BY <1>2, <2>1 DEF Fit, Fixed, Opcode
<1>5. /\ Free(\hfa, {\h44})
      /\ Free(\hfd, {\h44})
  BY DEF Free, Opcode, Fixed
<1>6. Later(homestead_names, data, {} \cup (\h3d .. \h3e),
            HomesteadOps \cup (\h3d .. \h3e), {\h44})
  <2>1. Later(homestead_names, homestead_names, {}, HomesteadOps, {\h44})
    BY HomesteadNames, NotYet DEF Later
  <2> QED
    BY ONLY <1>4, <2>1, SomeMore
<1> HIDE DEF data
<1>7. Later(homestead_names, static, {} \cup (\h3d .. \h3e) \cup {\hfa},
            HomesteadOps \cup (\h3d .. \h3e) \cup {\hfa}, {\h44})
  BY <1>3, <1>5, <1>6, OneMore
<1> HIDE DEF static
<1>8. Later(homestead_names, n, {} \cup (\h3d .. \h3e) \cup {\hfa} \cup {\hfd},
            HomesteadOps \cup (\h3d .. \h3e) \cup {\hfa} \cup {\hfd}, {\h44})
  BY ONLY <1>3, <1>5, <1>7, OneMore
<1>9. {} \cup (\h3d .. \h3e) \cup {\hfa} \cup {\hfd} = {\h3d, \h3e, \hfa, \hfd}
  OBVIOUS
<1>10. HomesteadOps \cup (\h3d .. \h3e) \cup {\hfa} \cup {\hfd} = ByzantiumOps
  BY DEF ByzantiumOps
<1> HIDE DEF n
<1> QED
  BY <1>1, <1>8, <1>9, <1>10

LEMMA ConstantinopleNames ==
  Later(byzantium_names, constantinople_names, (\h1b .. \h1d) \cup {\h3f, \hf5},
        ConstantinopleOps, {\h44})
<1> DEFINE texts == <<"SHL", "SHR", "SAR">>
           shifts == Name(byzantium_names, \h1b, texts)
           hash == Name(shifts, \h3f, <<"EXTCODEHASH">>)
           n == Name(hash, \hf5, <<"CREATE2">>)
<1>1. n = constantinople_names
  BY DEF constantinople_names
<1>2. Len(texts) = 3 /\ Plain(texts)
  BY DEF Plain, Special, NULL
<1>3. "EXTCODEHASH" \notin Special /\ "CREATE2" \notin Special
  BY DEF Special, NULL
<1> HIDE DEF texts
<1>4. Fit(texts, \h1b, \h1d, Fixed \cup {\h44})
  <2>1. \h1d = \h1b + Len(texts) - 1 /\ Len(texts) \in Nat
    BY <1>2
  <2> QED
    BY <1>2, <2>1 DEF Fit, Fixed, Opcode
<1>5. /\ Free(\h3f, {\h44})
      /\ Free(\hf5, {\h44})
  BY DEF Free, Opcode, Fixed
<1>6. Later(byzantium_names, shifts, {} \cup (\h1b .. \h1d),
            ByzantiumOps \cup (\h1b .. \h1d), {\h44})
  <2>1. Later(byzantium_names, byzantium_names, {}, ByzantiumOps, {\h44})
    BY ByzantiumNames, NotYet DEF Later
  <2> QED
    BY ONLY <1>4, <2>1, SomeMore
<1> HIDE DEF shifts
<1>7. Later(byzantium_names, hash, {} \cup (\h1b .. \h1d) \cup {\h3f},
            ByzantiumOps \cup (\h1b .. \h1d) \cup {\h3f}, {\h44})
  BY <1>3, <1>5, <1>6, OneMore
<1> HIDE DEF hash
<1>8. Later(byzantium_names, n, {} \cup (\h1b .. \h1d) \cup {\h3f} \cup {\hf5},
            ByzantiumOps \cup (\h1b .. \h1d) \cup {\h3f} \cup {\hf5}, {\h44})
  BY ONLY <1>3, <1>5, <1>7, OneMore
<1>9. {} \cup (\h1b .. \h1d) \cup {\h3f} \cup {\hf5} = (\h1b .. \h1d) \cup {\h3f, \hf5}
  OBVIOUS
<1>10. ByzantiumOps \cup (\h1b .. \h1d) \cup {\h3f} \cup {\hf5} = ConstantinopleOps
  BY DEF ConstantinopleOps
<1> HIDE DEF n
<1> QED
  BY <1>1, <1>8, <1>9, <1>10

LEMMA IstanbulNames ==
  Later(constantinople_names, istanbul_names, {\h46, \h47}, IstanbulOps, {\h44})
<1> DEFINE texts == <<"CHAINID", "SELFBALANCE">>
           n == Name(constantinople_names, \h46, texts)
<1>1. n = istanbul_names
  BY DEF istanbul_names
<1>2. Len(texts) = 2 /\ Plain(texts)
  BY DEF Plain, Special, NULL
<1> HIDE DEF texts
<1>3. Fit(texts, \h46, \h47, Fixed \cup {\h44})
  <2>1. \h47 = \h46 + Len(texts) - 1 /\ Len(texts) \in Nat
    BY <1>2
  <2> QED
    BY <1>2, <2>1 DEF Fit, Fixed, Opcode
<1>4. Later(constantinople_names, n, {} \cup (\h46 .. \h47),
            ConstantinopleOps \cup (\h46 .. \h47), {\h44})
  <2>1. Later(constantinople_names, constantinople_names, {}, ConstantinopleOps, {\h44})
    BY ConstantinopleNames, NotYet DEF Later
  <2> QED
    BY ONLY <1>3, <2>1, SomeMore
<1>5. {} \cup (\h46 .. \h47) = {\h46, \h47}
  OBVIOUS
<1>6. ConstantinopleOps \cup (\h46 .. \h47) = IstanbulOps
  BY DEF IstanbulOps
<1> HIDE DEF n
<1> QED
  BY <1>1, <1>4, <1>5, <1>6

LEMMA LondonNames ==
  Later(istanbul_names, london_names, {\h48}, LondonOps, {\h44})
<1>1. "BASEFEE" \notin Special
  BY DEF Special, NULL
<1>2. Free(\h48, {\h44}) /\ {} \cup {\h48} = {\h48}
  BY DEF Free, Opcode, Fixed
<1>3. Later(istanbul_names, london_names, {} \cup {\h48},
            IstanbulOps \cup {\h48}, {\h44})
  <2>1. Later(istanbul_names, istanbul_names, {}, IstanbulOps, {\h44})
    BY IstanbulNames, NotYet DEF Later
  <2> QED
    BY ONLY <1>1, <1>2, <2>1, OneMore DEF london_names
<1> QED
  BY <1>2, <1>3 DEF LondonOps

LEMMA ParisNames ==
  /\ Renamed(london_names, paris_names, {\h44})
  /\ paris_names[\h44] = "PREVRANDAO"
  /\ NameTable(paris_names, LondonOps, {})
<1>1. paris_names = [op \in Opcode |-> IF op = \h44 THEN "PREVRANDAO" ELSE london_names[op]]
  <2> DEFINE texts == <<"PREVRANDAO">>
  <2>1. Len(texts) = 1 /\ texts[1] = "PREVRANDAO"
    OBVIOUS
  <2> HIDE DEF texts
  <2>2. Name(london_names, \h44, texts)
          = [op \in Opcode |-> IF op \in \h44 .. \h44 THEN texts[op - \h44 + 1] ELSE london_names[op]]
    BY <2>1 DEF Name
  <2>3. ASSUME NEW op \in Opcode
        PROVE  (IF op \in \h44 .. \h44 THEN texts[op - \h44 + 1] ELSE london_names[op])
                 = IF op = \h44 THEN texts[1] ELSE london_names[op]
    BY DEF Opcode
  <2>4. Name(london_names, \h44, texts)
          = [op \in Opcode |-> IF op = \h44 THEN "PREVRANDAO" ELSE london_names[op]]
    BY <2>1, <2>2, <2>3
  <2> QED
    BY <2>4 DEF texts, paris_names
<1>2. \h44 \in Opcode /\ \h44 \notin {\h00, \hfe} /\ \h44 \in LondonOps
  BY DEF Opcode, LondonOps, IstanbulOps, ConstantinopleOps, ByzantiumOps, HomesteadOps, FrontierOps
<1>3. \A op \in Opcode \ {\h44} : paris_names[op] = london_names[op]
  BY <1>1
<1>4. paris_names[\h44] = "PREVRANDAO"
  BY <1>1, <1>2
<1>5. "PREVRANDAO" \notin Special
  BY DEF Special, NULL
<1>6. NameTable(paris_names, LondonOps, {})
  BY <1>2, <1>3, <1>4, <1>5, LondonNames DEF Later, NameTable, Names, At, Special, Fixed
<1> QED
  BY <1>3, <1>4, <1>6 DEF Renamed

LEMMA ShanghaiNames ==
  Later(paris_names, shanghai_names, {\h5f}, ShanghaiOps, {})
<1>1. "PUSH0" \notin Special
  BY DEF Special, NULL
<1>2. Free(\h5f, {}) /\ {} \cup {\h5f} = {\h5f}
  BY DEF Free, Opcode, Fixed
<1>3. Later(paris_names, shanghai_names, {} \cup {\h5f}, LondonOps \cup {\h5f}, {})
  BY <1>1, <1>2, ParisNames, NotYet, OneMore DEF shanghai_names
<1> QED
  BY <1>2, <1>3 DEF ShanghaiOps

(* The tables of a revision.                                               *)
M(k) == InstructionMetricsTable(Revisions[k])
N(k) == InstructionNamesTable(Revisions[k])

LEMMA RevisionNames ==
  /\ Revisions[1] = "FRONTIER" /\ Revisions[2] = "HOMESTEAD" /\ Revisions[3] = "TANGERINE_WHISTLE"
  /\ Revisions[4] = "SPURIOUS_DRAGON" /\ Revisions[5] = "BYZANTIUM" /\ Revisions[6] = "CONSTANTINOPLE"
  /\ Revisions[7] = "PETERSBURG" /\ Revisions[8] = "ISTANBUL" /\ Revisions[9] = "BERLIN"
  /\ Revisions[10] = "LONDON" /\ Revisions[11] = "PARIS" /\ Revisions[12] = "SHANGHAI"
  /\ Revisions[13] = "CANCUN" /\ Revisions[14] = "PRAGUE" /\ Revisions[15] = "OSAKA"
  /\ Revisions[16] = "EXPERIMENTAL"
  /\ Len(Revisions) = 16
BY DEF Revisions

LEMMA MetricsOfRevision ==
  /\ M(1) = frontier_metrics /\ M(2) = homestead_metrics
  /\ M(3) = tangerine_whistle_metrics /\ M(4) = tangerine_whistle_metrics
  /\ M(5) = byzantium_metrics
  /\ M(6) = constantinople_metrics /\ M(7) = constantinople_metrics
  /\ M(8) = istanbul_metrics /\ M(9) = berlin_metrics
  /\ M(10) = london_metrics /\ M(11) = london_metrics
  /\ M(12) = shanghai_metrics /\ M(13) = shanghai_metrics /\ M(14) = shanghai_metrics
  /\ M(15) = shanghai_metrics /\ M(16) = shanghai_metrics
BY RevisionNames DEF M, InstructionMetricsTable, cancun_metrics, prague_metrics, osaka_metrics

LEMMA NamesOfRevision ==
  /\ N(1) = frontier_names
  /\ N(2) = homestead_names /\ N(3) = homestead_names /\ N(4) = homestead_names
  /\ N(5) = byzantium_names
  /\ N(6) = constantinople_names /\ N(7) = constantinople_names
  /\ N(8) = istanbul_names /\ N(9) = istanbul_names
  /\ N(10) = london_names /\ N(11) = paris_names
  /\ N(12) = shanghai_names /\ N(13) = shanghai_names /\ N(14) = shanghai_names
  /\ N(15) = shanghai_names /\ N(16) = shanghai_names
BY RevisionNames DEF N, InstructionNamesTable, cancun_names, prague_names, osaka_names

\* In each revision the same opcodes have an entry and, but for STOP and INVALID, a name.
Agree(m, n) ==
  \E ops, difficulty : ops \cap Fixed = {} /\ Table(m, ops) /\ NameTable(n, ops, difficulty)

LEMMA OpsNotFixed ==
  /\ FrontierOps \cap Fixed = {} /\ HomesteadOps \cap Fixed = {} /\ ByzantiumOps \cap Fixed = {}
  /\ ConstantinopleOps \cap Fixed = {} /\ IstanbulOps \cap Fixed = {} /\ LondonOps \cap Fixed = {}
  /\ ShanghaiOps \cap Fixed = {}
BY DEF FrontierOps, HomesteadOps, ByzantiumOps, ConstantinopleOps, IstanbulOps, LondonOps, ShanghaiOps, Fixed

LEMMA Agreement ==
  ASSUME NEW k \in 1..16
  PROVE  Agree(M(k), N(k))
<1>1. Agree(frontier_metrics, frontier_names)
  BY FrontierMetricsTable, FrontierNames, OpsNotFixed DEF Agree, Table, NameTable
<1>2. Agree(homestead_metrics, homestead_names)
  BY HomesteadMetrics, HomesteadNames, OpsNotFixed DEF Agree, Later
<1>3. Agree(tangerine_whistle_metrics, homestead_names)
  BY TangerineWhistleMetrics, HomesteadNames, OpsNotFixed DEF Agree, Later
<1>4. Agree(byzantium_metrics, byzantium_names)
  BY ByzantiumMetrics, ByzantiumNames, OpsNotFixed DEF Agree, Later
<1>5. Agree(constantinople_metrics, constantinople_names)
  BY ConstantinopleMetrics, ConstantinopleNames, OpsNotFixed DEF Agree, Later
<1>6. Agree(istanbul_metrics, istanbul_names)
  BY IstanbulMetrics, IstanbulNames, OpsNotFixed DEF Agree, Later
<1>7. Agree(berlin_metrics, istanbul_names)
  BY BerlinMetrics, IstanbulNames, OpsNotFixed DEF Agree, Later
<1>8. Agree(london_metrics, london_names)
  BY LondonMetrics, LondonNames, OpsNotFixed DEF Agree, Later
<1>9. Agree(london_metrics, paris_names)
  BY LondonMetrics, ParisNames, OpsNotFixed DEF Agree
<1>10. Agree(shanghai_metrics, shanghai_names)
  BY ShanghaiMetrics, ShanghaiNames, OpsNotFixed DEF Agree, Later
<1>11. \/ k = 1 \/ k = 2 \/ k = 3 \/ k = 4 \/ k = 5 \/ k = 6 \/ k = 7 \/ k = 8 \/ k = 9 \/ k = 10
       \/ k = 11 \/ k = 12 \/ k = 13 \/ k = 14 \/ k = 15 \/ k = 16
  OBVIOUS
<1> QED
  BY <1>1, <1>2, <1>3, <1>4, <1>5, <1>6, <1>7, <1>8, <1>9, <1>10, <1>11,
     MetricsOfRevision, NamesOfRevision

LEMMA Lookup ==
  ASSUME NEW m, NEW n, Agree(m, n), NEW op \in Opcode
  PROVE  /\ m[op] \in Entry
         /\ m[op] = Undefined <=> n[op] \in {NULL, "STOP", "INVALID"}
<1>1. PICK ops, difficulty : ops \cap Fixed = {} /\ Table(m, ops) /\ NameTable(n, ops, difficulty)
  BY DEF Agree
<1>2. m[op] \in Entry /\ (m[op] # Undefined <=> op \in ops)
  BY <1>1 DEF Table, MetricsTable, Defined
<1>3. /\ n[op] = NULL <=> op \notin ops \cup Fixed
      /\ n[op] = "STOP" <=> op = \h00
      /\ n[op] = "INVALID" <=> op = \hfe
  BY <1>1 DEF NameTable, Names, At
<1> QED
  BY <1>1, <1>2, <1>3 DEF Fixed

(* What a hard fork leaves as it was.                                      *)
SameMeaning(m, n, u, o) ==
  \A op \in Opcode : n[op] # NULL => o[op] = n[op] /\ SameHeights(m[op], u[op])

LEMMA NewOnly ==
  ASSUME NEW m, NEW n, NEW ops, NEW difficulty, Table(m, ops), NameTable(n, ops, difficulty),
         NEW u, NEW o, NEW new, Grown(m, u, new), Renamed(n, o, new), new \cap (ops \cup Fixed) = {}
  PROVE  SameMeaning(m, n, u, o)
BY DEF SameMeaning, NameTable, Names, At, Grown, Renamed

LEMMA Forks ==
  ASSUME NEW k \in 1..15, k # 10
  PROVE  SameMeaning(M(k), N(k), M(k + 1), N(k + 1))
<1> USE DEF FrontierOps, HomesteadOps, ByzantiumOps, ConstantinopleOps, IstanbulOps, LondonOps,
            ShanghaiOps, Fixed
<1>1. /\ {\hf4} \cap (FrontierOps \cup Fixed) = {}
      /\ {\h3d, \h3e, \hfa, \hfd} \cap (HomesteadOps \cup Fixed) = {}
      /\ ((\h1b .. \h1d) \cup {\h3f, \hf5}) \cap (ByzantiumOps \cup Fixed) = {}
      /\ {\h46, \h47} \cap (ConstantinopleOps \cup Fixed) = {}
      /\ {\h48} \cap (IstanbulOps \cup Fixed) = {}
      /\ {\h5f} \cap (LondonOps \cup Fixed) = {}
  OBVIOUS
<1> HIDE DEF FrontierOps, HomesteadOps, ByzantiumOps, ConstantinopleOps, IstanbulOps, LondonOps,
            ShanghaiOps, Fixed
<1>2. \A ops : {} \cap (ops \cup Fixed) = {}
  OBVIOUS
<1>3. {} \cup {\hf4} = {\hf4}
  OBVIOUS
<1>4. SameMeaning(frontier_metrics, frontier_names, homestead_metrics, homestead_names)
  <2>1. Table(frontier_metrics, FrontierOps)
    BY FrontierMetricsTable DEF Table
  <2>2. NameTable(frontier_names, FrontierOps, {\h44})
    BY FrontierNames DEF NameTable
  <2> QED
    BY <1>1, <1>3, <2>1, <2>2, HomesteadMetrics, HomesteadNames, NewOnly DEF Later
<1>5. SameMeaning(homestead_metrics, homestead_names, tangerine_whistle_metrics, homestead_names)
  BY <1>2, HomesteadMetrics, HomesteadNames, TangerineWhistleMetrics, NotRenamed, NewOnly DEF Later
<1>6. SameMeaning(tangerine_whistle_metrics, homestead_names, byzantium_metrics, byzantium_names)
  BY <1>1, HomesteadNames, TangerineWhistleMetrics, ByzantiumMetrics, ByzantiumNames, NewOnly DEF Later
<1>7. SameMeaning(byzantium_metrics, byzantium_names, constantinople_metrics, constantinople_names)
  BY <1>1, ByzantiumMetrics, ByzantiumNames, ConstantinopleMetrics, ConstantinopleNames, NewOnly DEF Later
<1>8. SameMeaning(constantinople_metrics, constantinople_names, istanbul_metrics, istanbul_names)
  BY <1>1, ConstantinopleMetrics, ConstantinopleNames, IstanbulMetrics, IstanbulNames, NewOnly DEF Later
<1>9. SameMeaning(istanbul_metrics, istanbul_names, berlin_metrics, istanbul_names)
  BY <1>2, IstanbulMetrics, IstanbulNames, BerlinMetrics, NotRenamed, NewOnly DEF Later
<1>10. SameMeaning(berlin_metrics, istanbul_names, london_metrics, london_names)
  BY <1>1, IstanbulNames, BerlinMetrics, LondonMetrics, LondonNames, NewOnly DEF Later
<1>11. SameMeaning(london_metrics, paris_names, shanghai_metrics, shanghai_names)
  BY <1>1, LondonMetrics, ParisNames, ShanghaiMetrics, ShanghaiNames, NewOnly DEF Later
<1>12. \A m, n : SameMeaning(m, n, m, n)
  BY DEF SameMeaning, SameHeights
<1>13. CASE k \in {1, 2, 3, 4, 5}
  BY <1>4, <1>5, <1>6, <1>7, <1>12, <1>13, MetricsOfRevision, NamesOfRevision
<1>14. CASE k \in {6, 7, 8, 9}
  BY <1>8, <1>9, <1>10, <1>12, <1>14, MetricsOfRevision, NamesOfRevision
<1>15. CASE k \in {11, 12, 13, 14, 15}
  BY <1>11, <1>12, <1>15, MetricsOfRevision, NamesOfRevision
<1> QED
  BY <1>13, <1>14, <1>15

(* The Merge: DIFFICULTY is called PREVRANDAO, and nothing else changes.    *)
LEMMA Merge ==
  ASSUME NEW op \in Opcode
  PROVE  /\ M(11) = M(10)
         /\ N(11)[op] = IF N(10)[op] = "DIFFICULTY" THEN "PREVRANDAO" ELSE N(10)[op]
<1>1. M(11) = M(10) /\ N(10) = london_names /\ N(11) = paris_names
  BY MetricsOfRevision, NamesOfRevision
<1>2. london_names[op] = "DIFFICULTY" <=> op = \h44
  BY LondonNames DEF Later, NameTable, Names, At, Opcode
<1>3. op # \h44 => paris_names[op] = london_names[op]
  BY ParisNames DEF Renamed
<1> QED
  BY <1>1, <1>2, <1>3, ParisNames
-----------------------------------------------------------------------------
Inv == revision \in 1..16 /\ opcode \in Opcode

LEMMA Invariance == Spec => []Inv
<1>1. Init => Inv
  BY DEF Init, Inv
<1>2. Inv /\ [Next]_vars => Inv'
  BY RevisionNames DEF Inv, Next, HardFork, vars
<1> QED
  BY <1>1, <1>2, PTL DEF Spec

(* Of every instruction that some revision has, the entry fits the types   *)
(* of its fields, and a stack with the required height does not underflow. *)
THEOREM Stack == Spec => []StackCannotUnderflow
<1>1. Inv => StackCannotUnderflow
  <2> SUFFICES ASSUME Inv
               PROVE  StackCannotUnderflow
    OBVIOUS
  <2>1. metrics \in Entry
    BY Agreement, Lookup DEF metrics, M, Inv
  <2> QED
    BY <2>1 DEF StackCannotUnderflow, Entry
<1> QED
  BY <1>1, Invariance, PTL

(* A client may test either of the tables for what is an instruction.      *)
THEOREM Tables == Spec => []TablesAgree
<1>1. Inv => TablesAgree
  BY Agreement, Lookup DEF TablesAgree, metrics, name, M, N, Inv
<1> QED
  BY <1>1, Invariance, PTL

(* A hard fork adds instructions and prices, and changes the meaning of    *)
(* none that there was.                                                    *)
THEOREM Deployed == Spec => DeployedCodeKeepsItsMeaning
<1> DEFINE Kept ==
      name # NULL =>
        /\ name' = IF name = "DIFFICULTY" /\ Revisions[revision'] = "PARIS" THEN "PREVRANDAO" ELSE name
        /\ [metrics' EXCEPT !.gas_cost = 0] = [metrics EXCEPT !.gas_cost = 0]
<1>1. ASSUME NEW m \in Entry, NEW u \in Entry, SameHeights(m, u)
      PROVE  [u EXCEPT !.gas_cost = 0] = [m EXCEPT !.gas_cost = 0]
  BY <1>1 DEF SameHeights, Entry
<1>2. ASSUME Inv, HardFork
      PROVE  Kept
  <2>1. /\ revision \in 1..15 /\ revision' = revision + 1 /\ revision + 1 \in 1..16
        /\ opcode' = opcode /\ opcode \in Opcode
    BY <1>2, RevisionNames DEF Inv, HardFork
  <2>2. /\ metrics = M(revision)[opcode] /\ metrics' = M(revision + 1)[opcode]
        /\ name = N(revision)[opcode] /\ name' = N(revision + 1)[opcode]
    BY <2>1 DEF metrics, name, M, N
  <2>3. M(revision)[opcode] \in Entry /\ M(revision + 1)[opcode] \in Entry
    BY <2>1, Agreement, Lookup
  <2>4. CASE revision # 10
    <3>1. Revisions[revision + 1] # "PARIS"
      BY <2>1, <2>4, RevisionNames
    <3>2. name # NULL => name' = name /\ SameHeights(M(revision)[opcode], M(revision + 1)[opcode])
      BY <2>1, <2>2, <2>4, Forks DEF SameMeaning
    <3> QED
      BY <1>1, <2>1, <2>2, <2>3, <3>1, <3>2
  <2>5. CASE revision = 10
    <3>1. /\ M(11) = M(10)
          /\ N(11)[opcode] = IF N(10)[opcode] = "DIFFICULTY" THEN "PREVRANDAO" ELSE N(10)[opcode]
      BY <2>1, Merge
    <3>2. Revisions[11] = "PARIS" /\ revision + 1 = 11
      BY <2>5, RevisionNames
    <3> QED
      BY <2>1, <2>2, <2>5, <3>1, <3>2
  <2> QED
    BY <2>4, <2>5
<1>3. Inv /\ [Next]_vars => [Kept]_vars
  BY <1>2 DEF Next
<1>4. Inv /\ Inv' /\ [Next]_vars => [Kept]_vars
  BY <1>3
<1> HIDE DEF Kept
<1>5. Spec => [][Kept]_vars
  BY <1>4, Invariance, PTL DEF Spec
<1> QED
  BY <1>5 DEF Kept, DeployedCodeKeepsItsMeaning
=============================================================================

--------------------------- MODULE TracingProofs ----------------------------
(***************************************************************************)
(* Proofs about Tracing, for any number of contexts and spans, tasks or    *)
(* threads, and any limit.                                                 *)
(***************************************************************************)
EXTENDS Tracing, FiniteSetTheorems, TLAPS

-----------------------------------------------------------------------------
(***************************************************************************)
(* The types that the stacks of active spans rest on.  The spans of a stack *)
(* are in the order in which they began, so that none is on it twice.      *)
(***************************************************************************)
InCall == {"flush", "clear", "parent"}

Op == [at : InCall \cup {"idle", "create", "queue"},
       of : Spans \cup {Tx, None}, leaf : BOOLEAN]

SpanRecord ==
  [kind : {"none", "real", "dropped"}, parent : Spans \cup {Tx},
   leaf : BOOLEAN, owner : Contexts,
   class : {"plain", "cancelled", "exit", "cancelled exit"},
   state : {"none", "open", "ending", "ended"}]

Ascending(q) ==
  \A i \in DOMAIN q :
    q[i] \in 1 .. begun /\ \A j \in DOMAIN q : i < j => q[i] < q[j]

Types ==
  /\ running \in SUBSET Contexts
  /\ begun \in 0 .. MaxBegun
  /\ stack \in [Contexts -> Seq(Nat)]
  /\ \A c \in Contexts : Ascending(stack[c])
  /\ op \in [Contexts -> Op]
  /\ span \in [Spans -> SpanRecord]
  /\ \A s \in Spans \ 1 .. begun : span[s].state = "none"
  /\ stale \in SUBSET Spans
  /\ strays \in SUBSET Spans

\* The contexts that have, or had, the transaction.
Known == running \cup {Main}

(***************************************************************************)
(* The spans of the context c.                                             *)
(***************************************************************************)
\* c ends a span of its own, or the transaction.
EndsOwn(c) ==
  op[c].at \in InCall =>
    \/ op[c].of = Tx /\ op[c].at # "parent"
    \/ op[c].of \in 1 .. begun /\ span[op[c].of].owner = c

\* ActiveSpanOpen, also while c is in a call: what is on its stack and not open
\* may then be the span that it is ending.
OwnActive(c) ==
  \A s \in 1 .. begun : span[s].owner = c =>
    /\ s \in Range(stack[c]) =>
         \/ span[s].state = "open"
         \/ s \in stale
         \/ op[c].at \in InCall /\ op[c].of = s
    /\ span[s].state = "open" => s \in Range(stack[c]) \/ s \in strays

\* A context that is not known yet is in no call and owns no span.
NotStarted(c) ==
  c \notin Known => op[c] = Idle /\ \A s \in 1 .. begun : span[s].owner # c

Local(c) == EndsOwn(c) /\ OwnActive(c) /\ NotStarted(c)
Inv == Types /\ \A c \in Contexts : Local(c)

-----------------------------------------------------------------------------
(***************************************************************************)
(* Lemmas about stacks.                                                    *)
(***************************************************************************)
LEMMA SpanNumbers ==
  ASSUME Types
  PROVE  /\ begun \in Nat /\ MaxBegun \in Nat
         /\ 1 .. begun \subseteq Spans
         /\ 1 .. begun \subseteq Nat
BY TracingAssumption DEF Types, Spans

LEMMA LastOf ==
  ASSUME NEW q \in Seq(Nat), q # <<>>
  PROVE  Len(q) \in Nat \ {0} /\ Len(q) \in DOMAIN q /\ Last(q) = q[Len(q)]
BY DEF Last

LEMMA FrontOf ==
  ASSUME NEW q \in Seq(Nat), q # <<>>
  PROVE  /\ Front(q) \in Seq(Nat)
         /\ Len(Front(q)) = Len(q) - 1
         /\ DOMAIN Front(q) = 1 .. Len(q) - 1
         /\ \A i \in 1 .. Len(q) - 1 : Front(q)[i] = q[i]
<1>1. Len(q) \in Nat \ {0} /\ DOMAIN q = 1 .. Len(q)
  OBVIOUS
<1>2. Front(q) = SubSeq(q, 1, Len(q) - 1)
  BY DEF Front
<1>3. Front(q) = [i \in 1 .. Len(q) - 1 |-> q[i]]
  BY <1>1, <1>2
<1>4. \A i \in 1 .. Len(q) - 1 : q[i] \in Nat
  BY <1>1
<1> QED
  BY <1>1, <1>3, <1>4

\* A stack without its top is in order.
LEMMA FrontAscends ==
  ASSUME NEW q \in Seq(Nat), q # <<>>, Ascending(q)
  PROVE  Ascending(Front(q))
<1>1. Len(q) \in Nat \ {0} /\ DOMAIN q = 1 .. Len(q)
  OBVIOUS
<1>2. /\ DOMAIN Front(q) = 1 .. Len(q) - 1
      /\ \A i \in 1 .. Len(q) - 1 : Front(q)[i] = q[i]
  BY FrontOf, Zenon
<1>3. \A i \in 1 .. Len(q) - 1 : i \in DOMAIN q
  BY <1>1
<1>4. \A i \in 1 .. Len(q) - 1 :
        /\ q[i] \in 1 .. begun
        /\ \A j \in 1 .. Len(q) - 1 : i < j => q[i] < q[j]
  BY <1>3 DEF Ascending
<1> DEFINE r == Front(q)
<1>5. DOMAIN r = 1 .. Len(q) - 1 /\ \A i \in 1 .. Len(q) - 1 : r[i] = q[i]
  BY <1>2
<1> HIDE DEF r
<1>6. ASSUME NEW i \in DOMAIN r
      PROVE  r[i] \in 1 .. begun /\ \A j \in DOMAIN r : i < j => r[i] < r[j]
  <2>1. i \in 1 .. Len(q) - 1 /\ r[i] = q[i]
    BY <1>5, <1>6
  <2>2. \A j \in DOMAIN r : j \in 1 .. Len(q) - 1 /\ r[j] = q[j]
    BY <1>5
  <2> QED
    BY <1>4, <2>1, <2>2
<1>7. Ascending(r)
  BY <1>6, Zenon DEF Ascending
<1> QED
  BY <1>7 DEF r

\* A new span on top of a stack.
LEMMA AppendAscends ==
  ASSUME Types, NEW c \in Contexts, NEW n \in Nat, n = begun + 1
  PROVE  LET q == Append(stack[c], n)
         IN  /\ q \in Seq(Nat)
             /\ Len(q) = Len(stack[c]) + 1
             /\ DOMAIN q = 1 .. Len(stack[c]) + 1
             /\ q[Len(q)] = n
             /\ \A i \in DOMAIN stack[c] : q[i] = stack[c][i]
             /\ \A i \in DOMAIN q :
                  q[i] \in 1 .. n /\ \A j \in DOMAIN q : i < j => q[i] < q[j]
<1> DEFINE p == stack[c]
           q == Append(p, n)
<1>1. begun \in Nat /\ p \in Seq(Nat) /\ Ascending(p)
  BY SpanNumbers DEF Types
<1>2. /\ Len(p) \in Nat
      /\ DOMAIN p = 1 .. Len(p)
      /\ DOMAIN q = 1 .. Len(p) + 1
      /\ Len(q) = Len(p) + 1
      /\ q[Len(p) + 1] = n
      /\ \A i \in 1 .. Len(p) : q[i] = p[i]
      /\ q \in Seq(Nat)
  BY <1>1
<1>3. \A i \in 1 .. Len(p) : p[i] \in 1 .. begun
  BY <1>1, <1>2 DEF Ascending
<1> HIDE DEF q
<1>4. ASSUME NEW i \in DOMAIN q
      PROVE  q[i] \in 1 .. n
  <2>1. CASE i = Len(p) + 1
    BY <1>1, <1>2, <2>1
  <2>2. CASE i \in 1 .. Len(p)
    <3>1. q[i] = p[i] /\ p[i] \in 1 .. begun /\ begun \in Nat
      BY <1>1, <1>2, <1>3, <2>2
    <3> HIDE DEF p
    <3> QED
      BY <3>1
  <2>3. i = Len(p) + 1 \/ i \in 1 .. Len(p)
    BY <1>2, <1>4
  <2> QED
    BY <2>1, <2>2, <2>3
<1>5. ASSUME NEW i \in DOMAIN q, NEW j \in DOMAIN q, i < j
      PROVE  q[i] < q[j]
  <2>1. i \in 1 .. Len(p) /\ q[i] = p[i] /\ p[i] \in 1 .. begun
    <3>1. i \in 1 .. Len(p)
      BY <1>2, <1>5
    <3> QED
      BY <1>2, <1>3, <3>1
  <2>2. CASE j = Len(p) + 1
    <3>1. q[j] = n
      BY <1>2, <2>2
    <3> HIDE DEF p
    <3> QED
      BY <1>1, <2>1, <3>1
  <2>3. CASE j \in 1 .. Len(p)
    BY <1>1, <1>2, <1>5, <2>1, <2>3 DEF Ascending
  <2>4. j = Len(p) + 1 \/ j \in 1 .. Len(p)
    BY <1>2, <1>5
  <2> QED
    BY <2>2, <2>3, <2>4
<1> QED
  BY <1>2, <1>4, <1>5 DEF q

\* What a new span adds to a stack.
LEMMA AppendRange ==
  ASSUME NEW q \in Seq(Nat), NEW n \in Nat
  PROVE  Range(Append(q, n)) = Range(q) \cup {n}
<1> DEFINE r == Append(q, n)
<1>1. /\ DOMAIN q = 1 .. Len(q) /\ DOMAIN r = 1 .. Len(q) + 1
      /\ r[Len(q) + 1] = n /\ Len(q) \in Nat
      /\ \A i \in 1 .. Len(q) : r[i] = q[i]
  OBVIOUS
<1> HIDE DEF r
<1>2. 1 .. Len(q) + 1 = (1 .. Len(q)) \cup {Len(q) + 1}
  BY <1>1
<1>3. Range(r) = Range(q) \cup {n}
  BY <1>1, <1>2 DEF Range
<1> QED
  BY <1>3 DEF r

\* What a stack in order loses with its top.
LEMMA FrontRange ==
  ASSUME NEW q \in Seq(Nat), q # <<>>, Ascending(q)
  PROVE  Range(Front(q)) = Range(q) \ {Last(q)}
<1> DEFINE r == Front(q)
<1>1. /\ DOMAIN q = 1 .. Len(q) /\ DOMAIN r = 1 .. Len(q) - 1
      /\ Len(q) \in Nat \ {0} /\ Last(q) = q[Len(q)]
      /\ \A i \in 1 .. Len(q) - 1 : r[i] = q[i]
  BY FrontOf, LastOf
<1> HIDE DEF r
<1>2. 1 .. Len(q) = (1 .. Len(q) - 1) \cup {Len(q)}
  BY <1>1
<1>3. ASSUME NEW i \in 1 .. Len(q) - 1
      PROVE  q[i] # q[Len(q)]
  <2>1. i \in DOMAIN q /\ Len(q) \in DOMAIN q /\ i < Len(q)
    BY <1>1
  <2>2. q[i] < q[Len(q)] /\ q[i] \in Nat /\ q[Len(q)] \in Nat
    BY <2>1 DEF Ascending
  <2> HIDE <1>1
  <2> QED
    BY <2>2
<1>4. Range(r) = Range(q) \ {Last(q)}
  BY <1>1, <1>2, <1>3, Zenon DEF Range
<1> QED
  BY <1>4 DEF r

\* What unset_span does.
LEMMA UnsetDoes ==
  ASSUME Types, NEW c \in Contexts, stack' = Unset(c), begun' = begun
  PROVE  /\ stack' \in [Contexts -> Seq(Nat)]
         /\ \A d \in Contexts \ {c} : stack'[d] = stack[d]
         /\ \A d \in Contexts : Ascending(stack[d])'
         /\ Range(stack'[c]) = Range(stack[c]) \ Active(c)
<1>1. stack \in [Contexts -> Seq(Nat)] /\ \A d \in Contexts : Ascending(stack[d])
  BY DEF Types
<1>2. CASE stack[c] = <<>>
  <2>1. stack' = stack /\ Active(c) = {}
    BY <1>2 DEF Unset, Active
  <2> QED
    BY <1>1, <2>1 DEF Ascending
<1>3. CASE stack[c] # <<>>
  <2> DEFINE r == Front(stack[c])
  <2>1. /\ r \in Seq(Nat) /\ Ascending(r)
        /\ Range(r) = Range(stack[c]) \ Active(c)
    BY <1>1, <1>3, FrontOf, FrontAscends, FrontRange DEF Active
  <2>2. stack' = [stack EXCEPT ![c] = r]
    BY <1>3 DEF Unset
  <2> HIDE DEF r
  <2>3. stack'[c] = r /\ \A d \in Contexts \ {c} : stack'[d] = stack[d]
    BY <1>1, <2>2
  <2>4. ASSUME NEW d \in Contexts
        PROVE  Ascending(stack[d])'
    <3>1. Ascending(stack'[d])
      BY <1>1, <2>1, <2>3
    <3> QED
      BY <3>1 DEF Ascending
  <2>5. stack' \in [Contexts -> Seq(Nat)]
    BY <1>1, <2>1, <2>2
  <2> QED
    BY <2>1, <2>3, <2>4, <2>5
<1> QED
  BY <1>2, <1>3

-----------------------------------------------------------------------------
(***************************************************************************)
(* What the steps do to stacks and spans.                                  *)
(***************************************************************************)
\* A step of another context leaves what is local to d alone.
LEMMA OthersKeep ==
  ASSUME Inv, NEW d \in Contexts, stack'[d] = stack[d], op'[d] = op[d],
         1 .. begun \subseteq 1 .. begun',
         \A s \in 1 .. begun : /\ span'[s].owner = span[s].owner
                               /\ span[s].owner = d => span'[s] = span[s],
         \A s \in 1 .. begun' : s \in 1 .. begun \/ span'[s].owner # d,
         stale \subseteq stale', strays \subseteq strays',
         d \in Known => d \in Known'
  PROVE  Local(d)'
<1>1. Local(d)
  BY DEF Inv
<1>2. EndsOwn(d)'
  BY <1>1 DEF Local, EndsOwn
<1>3. OwnActive(d)'
  BY <1>1 DEF Local, OwnActive, Range
<1>4. NotStarted(d)'
  BY <1>1 DEF Local, NotStarted
<1> QED
  BY <1>2, <1>3, <1>4 DEF Local

\* c begins a span.
LEMMA ActivateKeeps ==
  ASSUME Inv, NEW c \in Contexts, c \in Known,
         NEW sp \in SpanRecord, sp.owner = c, sp.state = "open",
         op[c].at \in {"idle", "create"},
         Activate(c, sp), op' = [op EXCEPT ![c] = Idle],
         UNCHANGED <<running, order>>
  PROVE  Inv'
<1> DEFINE n == begun + 1
           q == Append(stack[c], n)
<1>1. Types /\ (\A d \in Contexts : Local(d)) /\ begun \in Nat /\ begun < MaxBegun
  BY SpanNumbers DEF Inv, Activate
<1>2. /\ n \in Nat /\ n \in Spans /\ n \in 1 .. n /\ n \notin 1 .. begun
      /\ 1 .. begun \subseteq 1 .. n /\ 1 .. begun \subseteq Spans
      /\ \A k \in 1 .. n : k = n \/ k \in 1 .. begun
  BY <1>1, TracingAssumption DEF Spans
<1>3. begun' = n /\ span' = [span EXCEPT ![n] = sp] /\ stack' = [stack EXCEPT ![c] = q]
  BY DEF Activate
<1>4. /\ q \in Seq(Nat)
      /\ \A i \in DOMAIN q :
           q[i] \in 1 .. n /\ \A j \in DOMAIN q : i < j => q[i] < q[j]
  BY <1>1, <1>2, AppendAscends
<1>5. Range(q) = Range(stack[c]) \cup {n}
  BY <1>1, <1>2, AppendRange DEF Types
<1> HIDE DEF n, q
<1>6. stack \in [Contexts -> Seq(Nat)] /\ span \in [Spans -> SpanRecord] /\ op \in [Contexts -> Op]
  BY <1>1 DEF Types
<1>7. /\ stack'[c] = q /\ span'[n] = sp
      /\ \A d \in Contexts \ {c} : stack'[d] = stack[d] /\ op'[d] = op[d]
      /\ \A s \in Spans \ {n} : span'[s] = span[s]
      /\ op'[c] = Idle /\ stale' = stale /\ strays' = strays /\ Known' = Known
  BY <1>2, <1>3, <1>6 DEF order, Known
<1>8. Types'
  <2>1. Idle \in Op
    BY DEF Idle, At, Op
  <2>2. ASSUME NEW d \in Contexts
        PROVE  Ascending(stack[d])'
    <3>1. CASE d = c
      BY <1>3, <1>4, <1>7, <3>1 DEF Ascending
    <3>2. CASE d # c
      BY <1>1, <1>2, <1>3, <1>7, <3>2 DEF Ascending, Types
    <3> QED
      BY <3>1, <3>2
  <2>3. begun' \in 0 .. MaxBegun
    BY <1>1, <1>3, TracingAssumption DEF n
  <2>4. stack' \in [Contexts -> Seq(Nat)] /\ span' \in [Spans -> SpanRecord]
    BY <1>2, <1>3, <1>4, <1>6
  <2>5. \A s \in Spans \ 1 .. begun' : span'[s].state = "none"
    BY <1>1, <1>2, <1>3, <1>7 DEF Types
  <2> QED
    BY <1>6, <1>7, <2>1, <2>2, <2>3, <2>4, <2>5, <1>1 DEF Types
<1>9. ASSUME NEW d \in Contexts, d # c
      PROVE  Local(d)'
  <2>1. stack'[d] = stack[d] /\ op'[d] = op[d] /\ 1 .. begun \subseteq 1 .. begun'
    BY <1>2, <1>3, <1>7, <1>9
  <2>2. \A s \in 1 .. begun : span'[s] = span[s]
    BY <1>2, <1>7
  <2>3. \A s \in 1 .. begun' : s \in 1 .. begun \/ span'[s].owner # d
    BY <1>2, <1>3, <1>7, <1>9
  <2> QED
    BY <1>7, <2>1, <2>2, <2>3, OthersKeep
<1>10. Local(c)'
  <2>1. EndsOwn(c)' /\ NotStarted(c)'
    BY <1>7 DEF EndsOwn, NotStarted, Idle, At, InCall
  <2>2. ASSUME NEW s \in 1 .. n, span'[s].owner = c
        PROVE  /\ s \in Range(q) => span'[s].state = "open" \/ s \in stale
               /\ span'[s].state = "open" => s \in Range(q) \/ s \in strays
    <3>1. CASE s = n
      BY <1>5, <1>7, <3>1
    <3>2. CASE s \in 1 .. begun
      <4>1. span'[s] = span[s] /\ s # n
        BY <1>2, <1>7, <3>2
      <4>2. OwnActive(c) /\ op[c].at \notin InCall
        BY <1>1 DEF Local, InCall
      <4> QED
        BY <1>5, <2>2, <3>2, <4>1, <4>2 DEF OwnActive
    <3> QED
      BY <1>2, <3>1, <3>2
  <2>3. OwnActive(c)'
    BY <1>3, <1>7, <2>2 DEF OwnActive
  <2> QED
    BY <2>1, <2>3 DEF Local
<1> QED
  BY <1>8, <1>9, <1>10 DEF Inv

\* c has ended its span s: if s was the active span it no longer is, and what
\* else was removed from the stack is among the strays.
LEMMA SpanEnds ==
  ASSUME Inv, NEW c \in Contexts, c \in Known,
         NEW s \in 1 .. begun, span[s].owner = c,
         op[c] = Idle \/ op[c].of = s,
         \/ stack' = Unset(c) /\ strays' = strays \cup (Active(c) \ {s})
         \/ stack' = stack /\ strays' = strays /\ s \notin Active(c),
         stale' = stale \cup OutOfTurn(c, s),
         span' = [span EXCEPT ![s].state = "ended"],
         op' = [op EXCEPT ![c] = Idle], UNCHANGED <<running, begun>>
  PROVE  Inv'
<1>1. Types /\ \A d \in Contexts : Local(d)
  BY DEF Inv
<1>2. stack \in [Contexts -> Seq(Nat)] /\ span \in [Spans -> SpanRecord] /\ op \in [Contexts -> Op]
  BY <1>1 DEF Types
<1>3. s \in Spans /\ 1 .. begun \subseteq Spans
  BY <1>1, SpanNumbers
<1>4. /\ stack' \in [Contexts -> Seq(Nat)]
      /\ \A d \in Contexts \ {c} : stack'[d] = stack[d]
      /\ \A d \in Contexts : Ascending(stack[d])'
      /\ Range(stack'[c]) \subseteq Range(stack[c])
      /\ \A r \in Range(stack[c]) \ Range(stack'[c]) : r = s \/ r \in strays'
      /\ s \in Range(stack'[c]) => s \in stale'
  <2>1. CASE stack' = Unset(c) /\ strays' = strays \cup (Active(c) \ {s})
    <3>1. /\ stack' \in [Contexts -> Seq(Nat)]
          /\ \A d \in Contexts \ {c} : stack'[d] = stack[d]
          /\ \A d \in Contexts : Ascending(stack[d])'
          /\ Range(stack'[c]) = Range(stack[c]) \ Active(c)
      BY <1>1, <2>1, UnsetDoes
    <3> QED
      BY <2>1, <3>1 DEF OutOfTurn
  <2>2. CASE stack' = stack /\ s \notin Active(c)
    BY <1>1, <1>2, <2>2 DEF OutOfTurn, Types, Ascending
  <2> QED
    BY <2>1, <2>2
<1>5. /\ \A d \in Contexts \ {c} : op'[d] = op[d]
      /\ op'[c] = Idle
      /\ \A r \in Spans : span'[r].owner = span[r].owner
      /\ \A r \in Spans \ {s} : span'[r] = span[r]
      /\ span'[s].state = "ended"
  BY <1>2, <1>3 DEF SpanRecord
<1>6. stale \subseteq stale' /\ strays \subseteq strays' /\ Known' = Known
  BY DEF Known
<1>7. Active(c) \subseteq Spans
  <2>1. stack[c] # <<>> => Last(stack[c]) \in Spans
    BY <1>1, <1>2, <1>3, LastOf DEF Types, Ascending
  <2> QED
    BY <2>1 DEF Active
<1>8. Types'
  <2>1. Idle \in Op
    BY DEF Idle, At, Op
  <2>2. [span[s] EXCEPT !.state = "ended"] \in SpanRecord
    <3>1. span[s] \in SpanRecord
      BY <1>2, <1>3
    <3> QED
      BY <3>1 DEF SpanRecord
  <2>3. span' \in [Spans -> SpanRecord]
    BY <1>2, <2>2
  <2>4. \A r \in Spans \ 1 .. begun' : span'[r].state = "none"
    BY <1>1, <1>5 DEF Types
  <2>5. stale' \in SUBSET Spans /\ strays' \in SUBSET Spans
    BY <1>1, <1>3, <1>7 DEF Types, OutOfTurn
  <2> QED
    BY <1>1, <1>2, <1>4, <2>1, <2>3, <2>4, <2>5 DEF Types
<1>9. ASSUME NEW d \in Contexts, d # c
      PROVE  Local(d)'
  <2>1. stack'[d] = stack[d] /\ op'[d] = op[d]
    BY <1>4, <1>5, <1>9
  <2>2. \A r \in 1 .. begun : /\ span'[r].owner = span[r].owner
                              /\ span[r].owner = d => span'[r] = span[r]
    BY <1>3, <1>5, <1>9
  <2> QED
    BY <1>6, <2>1, <2>2, OthersKeep
<1>10. Local(c)'
  <2>1. EndsOwn(c)' /\ NotStarted(c)'
    BY <1>5, <1>6 DEF EndsOwn, NotStarted, Idle, At, InCall
  <2>2. OwnActive(c)
    BY <1>1 DEF Local
  <2>3. ASSUME NEW r \in 1 .. begun, span'[r].owner = c
        PROVE  /\ r \in Range(stack'[c]) => span'[r].state = "open" \/ r \in stale'
               /\ span'[r].state = "open" => r \in Range(stack'[c]) \/ r \in strays'
    <3>1. CASE r = s
      BY <1>4, <1>5, <3>1
    <3>2. CASE r # s
      <4>1. span'[r] = span[r] /\ ~ (op[c].at \in InCall /\ op[c].of = r)
        BY <1>3, <1>5, <3>2 DEF Idle, At, InCall
      <4> QED
        BY <1>4, <1>6, <2>2, <2>3, <3>2, <4>1 DEF OwnActive
    <3> QED
      BY <3>1, <3>2
  <2>4. OwnActive(c)'
    BY <2>3 DEF OwnActive
  <2> QED
    BY <2>1, <2>4 DEF Local
<1> QED
  BY <1>8, <1>9, <1>10 DEF Inv

-----------------------------------------------------------------------------
(***************************************************************************)
(* Every step keeps the invariant.                                         *)
(***************************************************************************)
LEMMA InitInv == Init => Inv
<1> SUFFICES ASSUME Init
             PROVE  Inv
  OBVIOUS
<1>1. Types
  BY TracingAssumption
  DEF Init, Types, Ascending, Idle, At, Op, Unused, Span, SpanRecord, Spans
<1>2. \A c \in Contexts : Local(c)
  BY DEF Init, Local, EndsOwn, OwnActive, NotStarted, Idle, At, InCall
<1> QED
  BY <1>1, <1>2 DEF Inv

\* Who is in a call, or ready for one, has the transaction.
LEMMA CallerKnown ==
  ASSUME Inv, NEW c \in Contexts
  PROVE  /\ Ready(c) => c \in Known /\ op[c] = Idle
         /\ op[c] # Idle => c \in Known
BY DEF Inv, Local, NotStarted, Known, Ready

\* The span that a context may end has begun.
LEMMA EndsBegun ==
  ASSUME Inv, NEW c \in Contexts, NEW s \in Spans, Ends(c, s)
  PROVE  s \in 1 .. begun /\ span[s].owner = c /\ span[s].state \in {"open", "ending"}
BY DEF Inv, Types, Ends

\* A step of c inside a call keeps the stacks and the spans.
LEMMA CallStep ==
  ASSUME Inv, NEW c \in Contexts, c \in Known, NEW o \in Op,
         UNCHANGED <<begun, stack, span, strays>>, op' = [op EXCEPT ![c] = o],
         running' \in SUBSET Contexts, Known' = Known,
         stale \subseteq stale', stale' \in SUBSET Spans,
         \/ op[c].at \notin InCall /\ (o.at \in InCall => o.of = Tx /\ o.at # "parent")
         \/ /\ op[c].at \in InCall
            /\ o.of = op[c].of
            /\ \/ o.at = "clear" /\ op[c].at # "parent"
               \/ o.at = "parent" /\ o.of # Tx
               \/ o.at = "queue" /\ o.of = Tx
         \/ o = Idle /\ op[c].of \in stale' \cup {Tx}
  PROVE  Inv'
<1>1. Types /\ \A d \in Contexts : Local(d)
  BY DEF Inv
<1>2. op'[c] = o /\ \A d \in Contexts \ {c} : op'[d] = op[d]
  BY <1>1 DEF Types
<1>3. Types'
  BY <1>1 DEF Types, Ascending
<1>4. ASSUME NEW d \in Contexts, d # c
      PROVE  Local(d)'
  BY <1>2, <1>4, OthersKeep
<1>5. NotStarted(c)'
  BY DEF NotStarted
<1>6. EndsOwn(c)'
  BY <1>1, <1>2 DEF Local, EndsOwn, Idle, At, InCall
<1>7. OwnActive(c)'
  <2>1. OwnActive(c)
    BY <1>1 DEF Local
  <2>2. \A s \in 1 .. begun : s # Tx
    BY <1>1, SpanNumbers, TracingAssumption
  <2> QED
    BY <1>2, <2>1, <2>2 DEF OwnActive, InCall
<1> QED
  BY <1>3, <1>4, <1>5, <1>6, <1>7 DEF Inv, Local

\* c starts to end a span of its own.
LEMMA EndKeeps ==
  ASSUME Inv, NEW c \in Contexts, NEW s \in Spans, NEW k \in Classes(TRUE),
         End(c, s, k)
  PROVE  Inv'
<1> DEFINE o == AfterEnd(s, "parent")
<1>1. Types /\ (\A d \in Contexts : Local(d)) /\ c \in Known
  BY CallerKnown DEF Inv, End
<1>2. stack \in [Contexts -> Seq(Nat)] /\ span \in [Spans -> SpanRecord] /\ op \in [Contexts -> Op]
  BY <1>1 DEF Types
<1>3. /\ s \in 1 .. begun /\ span[s].owner = c /\ op[c] = Idle
      /\ op' = [op EXCEPT ![c] = o]
      /\ span' = [span EXCEPT ![s].state = "ending", ![s].class = k]
      /\ UNCHANGED <<running, begun, stack, stale, strays>>
  BY EndsBegun DEF End, Ready, order
<1>4. o \in Op /\ o.at \in InCall /\ o.of = s
  BY DEF AfterEnd, At, Op, InCall
<1> HIDE DEF o
<1>5. op'[c] = o /\ \A d \in Contexts \ {c} : op'[d] = op[d]
  BY <1>2, <1>3
<1>6. k \in {"plain", "cancelled", "exit", "cancelled exit"}
  BY DEF Classes
<1>7. /\ \A r \in Spans : span'[r].owner = span[r].owner
      /\ \A r \in Spans \ {s} : span'[r] = span[r]
      /\ span'[s].state = "ending"
      /\ span' \in [Spans -> SpanRecord]
  <2>1. [span[s] EXCEPT !.state = "ending", !.class = k] \in SpanRecord
    BY <1>2, <1>6 DEF SpanRecord
  <2>2. span' = [span EXCEPT ![s] = [span[s] EXCEPT !.state = "ending", !.class = k]]
    BY <1>2, <1>3
  <2>3. /\ [span[s] EXCEPT !.state = "ending", !.class = k].owner = span[s].owner
        /\ [span[s] EXCEPT !.state = "ending", !.class = k].state = "ending"
    BY <1>2 DEF SpanRecord
  <2> QED
    BY <1>2, <2>1, <2>2, <2>3
<1>8. 1 .. begun \subseteq Spans /\ Known' = Known
  BY <1>1, <1>3, SpanNumbers DEF Known
<1>9. Types'
  BY <1>1, <1>3, <1>4, <1>7 DEF Types, Ascending
<1>10. ASSUME NEW d \in Contexts, d # c
       PROVE  Local(d)'
  <2>1. \A r \in 1 .. begun : /\ span'[r].owner = span[r].owner
                              /\ span[r].owner = d => span'[r] = span[r]
    BY <1>3, <1>7, <1>8, <1>10
  <2>2. stack'[d] = stack[d] /\ op'[d] = op[d]
    BY <1>3, <1>5, <1>10
  <2> QED
    BY <1>3, <1>8, <2>1, <2>2, OthersKeep
<1>11. Local(c)'
  <2>1. EndsOwn(c)'
    BY <1>3, <1>4, <1>5, <1>7 DEF EndsOwn
  <2>2. NotStarted(c)'
    BY <1>1, <1>8 DEF NotStarted
  <2>3. OwnActive(c) /\ op[c].at \notin InCall
    BY <1>1, <1>3 DEF Local, Idle, At, InCall
  <2>4. OwnActive(c)'
    BY <1>3, <1>4, <1>5, <1>7, <1>8, <2>3 DEF OwnActive
  <2> QED
    BY <2>1, <2>2, <2>4 DEF Local
<1> QED
  BY <1>9, <1>10, <1>11 DEF Inv

\* A context starts with the active spans of another one, none of them its own.
LEMMA SpawnKeeps ==
  ASSUME Inv, NEW c \in Contexts, NEW d \in Contexts, Spawn(c, d)
  PROVE  Inv'
<1>1. Types /\ (\A e \in Contexts : Local(e)) /\ c \in Known /\ d \notin Known
  BY CallerKnown DEF Inv, Spawn, Known
<1>2. /\ stack \in [Contexts -> Seq(Nat)]
      /\ stack' = [stack EXCEPT ![d] = stack[c]]
      /\ Known' = Known \cup {d} /\ running' \in SUBSET Contexts
      /\ UNCHANGED <<op, begun, span, stale, strays>>
  BY <1>1 DEF Types, Spawn, Known, order
<1>3. op[d] = Idle /\ \A s \in 1 .. begun : span[s].owner # d
  BY <1>1 DEF Local, NotStarted
<1>4. stack'[d] = stack[c] /\ \A e \in Contexts \ {d} : stack'[e] = stack[e]
  BY <1>2
<1>5. Types'
  <2>1. ASSUME NEW e \in Contexts
        PROVE  Ascending(stack[e])'
    <3>1. Ascending(stack'[e])
      BY <1>1, <1>4 DEF Types
    <3> QED
      BY <1>2, <3>1 DEF Ascending
  <2> QED
    BY <1>1, <1>2, <2>1 DEF Types
<1>6. ASSUME NEW e \in Contexts, e # d
      PROVE  Local(e)'
  BY <1>2, <1>4, <1>6, OthersKeep
<1>7. Local(d)'
  BY <1>2, <1>3 DEF Local, EndsOwn, OwnActive, NotStarted, Idle, At, InCall
<1> QED
  BY <1>5, <1>6, <1>7 DEF Inv

LEMMA NextInv == Inv /\ [Next]_vars => Inv'
<1> SUFFICES ASSUME Inv, [Next]_vars
             PROVE  Inv'
  OBVIOUS
<1>1. Types /\ \A c \in Contexts : Local(c)
  BY DEF Inv
<1>2. CASE UNCHANGED vars
  BY <1>1, <1>2
  DEF vars, order, Inv, Types, Ascending, Local, EndsOwn, OwnActive, NotStarted,
      Known
<1> SUFFICES ASSUME Next
             PROVE  Inv'
  BY <1>2
<1>3. PICK c \in Contexts :
        \/ \E d \in Contexts : Spawn(c, d)
        \/ BeginUnderLeaf(c)
        \/ BeginOverLimit(c)
        \/ \E leaf \in BOOLEAN : BeginCheck(c, leaf)
        \/ Create(c)
        \/ \E s \in Spans : EndDropped(c, s)
        \/ \E s \in Spans, k \in Classes(TRUE) : End(c, s, k)
        \/ EndTransaction(c)
        \/ Flush(c)
        \/ FlushRaises(c)
        \/ ClearBuffer(c)
        \/ ToParent(c)
        \/ QueueTransaction(c)
        \/ IgnoreTransaction(c)
  BY DEF Next
<1>4. op[c] \in Op /\ op \in [Contexts -> Op] /\ Idle.at = "idle"
  BY <1>1 DEF Types, Idle, At
<1>5. Parent(c) \in Spans \cup {Tx}
  <2>1. stack[c] \in Seq(Nat)
    BY <1>1 DEF Types
  <2>2. \A i \in DOMAIN stack[c] : stack[c][i] \in Spans
    BY <1>1, SpanNumbers DEF Types, Ascending
  <2> QED
    BY <2>1, <2>2, LastOf DEF Parent
<1>6. \A kind \in {"real", "dropped"}, leaf \in BOOLEAN :
        /\ Span(kind, Parent(c), leaf, c) \in SpanRecord
        /\ Span(kind, Parent(c), leaf, c).owner = c
        /\ Span(kind, Parent(c), leaf, c).state = "open"
  BY <1>5 DEF Span, SpanRecord
<1>7. op[c] = Idle => op = [op EXCEPT ![c] = Idle]
  BY <1>4
<1>8. ASSUME BeginUnderLeaf(c) \/ BeginOverLimit(c)
      PROVE  Inv'
  <2>1. /\ c \in Known /\ op[c].at = "idle" /\ UNCHANGED <<running, order>>
        /\ op' = [op EXCEPT ![c] = Idle]
    BY <1>4, <1>7, <1>8, CallerKnown DEF BeginUnderLeaf, BeginOverLimit, Ready
  <2>2. PICK leaf \in BOOLEAN : Activate(c, Span("dropped", Parent(c), leaf, c))
    BY <1>8 DEF BeginUnderLeaf, BeginOverLimit
  <2> QED
    BY <1>6, <2>1, <2>2, ActivateKeeps
<1>9. ASSUME Create(c)
      PROVE  Inv'
  <2>1. /\ c \in Known /\ op[c].at = "create" /\ UNCHANGED <<running, order>>
        /\ op' = [op EXCEPT ![c] = Idle]
    BY <1>4, <1>9, CallerKnown DEF Create
  <2>2. op[c].leaf \in BOOLEAN /\ Activate(c, Span("real", Parent(c), op[c].leaf, c))
    BY <1>4, <1>9 DEF Create, Op
  <2> QED
    BY <1>6, <2>1, <2>2, ActivateKeeps
<1>10. ASSUME NEW leaf \in BOOLEAN, BeginCheck(c, leaf)
       PROVE  Inv'
  <2>1. At("create", None, leaf) \in Op
    BY DEF At, Op
  <2>2. c \in Known /\ op[c].at = "idle"
    BY <1>4, <1>10, CallerKnown DEF BeginCheck
  <2> QED
    BY <1>1, <1>10, <2>1, <2>2, CallStep
    DEF BeginCheck, At, InCall, Types, Known, order
<1>11. ASSUME NEW s \in Spans, EndDropped(c, s)
       PROVE  Inv'
  <2>1. c \in Known /\ op[c] = Idle /\ s \in 1 .. begun /\ span[s].owner = c
    BY <1>11, CallerKnown, EndsBegun DEF EndDropped
  <2> QED
    BY <1>7, <1>11, <2>1, SpanEnds DEF EndDropped
<1>12. ASSUME ToParent(c)
       PROVE  Inv'
  <2> DEFINE s == op[c].of
  <2>1. c \in Known /\ op[c].at = "parent"
    BY <1>4, <1>12, CallerKnown DEF ToParent
  <2>2. s \in 1 .. begun /\ span[s].owner = c
    BY <1>1, <2>1 DEF Local, EndsOwn, InCall
  <2>3. \/ stack' = Unset(c) /\ strays' = strays \cup (Active(c) \ {s})
        \/ stack' = stack /\ strays' = strays /\ s \notin Active(c)
    <3>1. strays' = strays /\ stack' = Pop(c, s)
      BY <1>12 DEF ToParent
    <3>2. s \in Active(c) => Active(c) \ {s} = {}
      BY DEF Active
    <3> QED
      BY <3>1, <3>2 DEF Pop
  <2>4. /\ stale' = stale \cup OutOfTurn(c, s)
        /\ span' = [span EXCEPT ![s].state = "ended"]
        /\ op' = [op EXCEPT ![c] = Idle]
        /\ UNCHANGED <<running, begun>>
    BY <1>12 DEF ToParent
  <2>5. op[c].of = s
    OBVIOUS
  <2> HIDE DEF s
  <2> QED
    BY <2>1, <2>2, <2>3, <2>4, <2>5, SpanEnds
<1>13. ASSUME EndTransaction(c)
       PROVE  Inv'
  <2> DEFINE o == AfterEnd(Tx, "queue")
  <2>1. o \in Op /\ o.of = Tx /\ o.at # "parent"
    BY DEF AfterEnd, At, Op, InCall
  <2>2. c \in Known /\ op[c].at = "idle" /\ c = Main
    BY <1>4, <1>13, CallerKnown DEF EndTransaction
  <2>3. Known' = Known /\ running' \in SUBSET Contexts
    BY <1>1, <1>13 DEF EndTransaction, Known, Types
  <2>4. UNCHANGED <<begun, stack, span, stale, strays>> /\ op' = [op EXCEPT ![c] = o]
    BY <1>13 DEF EndTransaction, order
  <2> HIDE DEF o
  <2> QED
    BY <1>1, <2>1, <2>2, <2>3, <2>4, CallStep DEF Types, InCall
<1>14. ASSUME Flush(c) \/ ClearBuffer(c)
       PROVE  Inv'
  <2> DEFINE at == IF Flush(c) THEN "clear" ELSE
                   IF op[c].of = Tx THEN "queue" ELSE "parent"
             o == [op[c] EXCEPT !.at = at]
  <2>1. /\ o \in Op
        /\ o.of = op[c].of
        /\ o.at = at
    BY <1>4 DEF Op, InCall
  <2>2. /\ op[c].at \in InCall /\ op[c].at # "parent" /\ c \in Known
    BY <1>4, <1>14, CallerKnown DEF Flush, ClearBuffer, InCall
  <2>3. /\ UNCHANGED <<begun, stack, span, stale, strays>>
        /\ Known' = Known /\ running' \in SUBSET Contexts
    BY <1>1, <1>14 DEF Flush, ClearBuffer, Known, Types, order
  <2>4. op' = [op EXCEPT ![c] = o]
    BY <1>4, <1>14 DEF Flush, ClearBuffer
  <2>5. \/ at = "clear"
        \/ at = "parent" /\ op[c].of # Tx
        \/ at = "queue" /\ op[c].of = Tx
    OBVIOUS
  <2> HIDE DEF at, o
  <2> QED
    BY <1>1, <2>1, <2>2, <2>3, <2>4, <2>5, CallStep DEF Types
<1>16. ASSUME FlushRaises(c)
       PROVE  Inv'
  <2>1. op[c].at = "flush" /\ c \in Known /\ Idle \in Op
    BY <1>4, <1>16, CallerKnown DEF FlushRaises, Idle, At, Op
  <2>2. /\ UNCHANGED <<begun, stack, span, strays>> /\ op' = [op EXCEPT ![c] = Idle]
        /\ Known' = Known /\ running' \in SUBSET Contexts
        /\ stale' = stale \cup ({op[c].of} \ {Tx})
    BY <1>1, <1>16 DEF FlushRaises, Known, Types
  <2>3. op[c].of \in Spans \cup {Tx}
    BY <1>1, <2>1, SpanNumbers DEF Local, EndsOwn, InCall
  <2>4. stale \subseteq stale' /\ stale' \in SUBSET Spans /\ op[c].of \in stale' \cup {Tx}
    BY <1>1, <2>2, <2>3 DEF Types
  <2> QED
    BY <2>1, <2>2, <2>4, CallStep
<1>15. ASSUME QueueTransaction(c) \/ IgnoreTransaction(c)
       PROVE  Inv'
  <2>1. op[c].at = "queue" /\ c \in Known
    BY <1>4, <1>15, CallerKnown DEF QueueTransaction, IgnoreTransaction
  <2>2. Idle \in Op
    BY DEF Idle, At, Op
  <2>3. /\ UNCHANGED <<begun, stack, span, stale, strays>>
        /\ op' = [op EXCEPT ![c] = Idle]
        /\ Known' = Known /\ running' \in SUBSET Contexts
    BY <1>1, <1>15 DEF QueueTransaction, IgnoreTransaction, Known, Types, order
  <2> QED
    BY <1>1, <2>1, <2>2, <2>3, CallStep DEF Types, InCall, Idle, At
<1> QED
  BY <1>3, <1>8, <1>9, <1>10, <1>11, <1>12, <1>13, <1>14, <1>15, <1>16,
     SpawnKeeps, EndKeeps

\* Between its calls a context has exactly its own open spans on its stack, but
\* for those that an end out of turn, or one that raised, left behind or took
\* away: tasks and threads that share a transaction, end its spans in any order
\* and start with a copy of each other's stack bring nothing else back.
THEOREM ActiveSpanIsOpen == Spec => []ActiveSpanOpen
<1>1. Inv => ActiveSpanOpen
  BY DEF Inv, Local, OwnActive, ActiveSpanOpen, Begun, Idle, At, InCall
<1> QED
  BY <1>1, InitInv, NextInv, PTL DEF Spec

-----------------------------------------------------------------------------
(***************************************************************************)
(* How spans are settled and counted.  The part about stacks is above.     *)
(***************************************************************************)
Records ==
  /\ preemptive \in BOOLEAN /\ limit \in Limits
  /\ tx \in {"open", "ending", "ended"}
  /\ buffer \in [Spans \cup {Tx} -> Spans \cup {None}]
  /\ counter \in Int /\ dropped \in Nat
  /\ fate \in [Spans -> Seq(Fates)]
  /\ late \in SUBSET (Spans \cup {Tx})

\* A span that began: its parent began before it, and under a leaf there are
\* only dropped spans.
Shape(s) ==
  /\ span[s].kind \in {"real", "dropped"}
  /\ span[s].state \in {"open", "ending", "ended"}
  /\ span[s].parent \in (1 .. s - 1) \cup {Tx}
  /\ span[s].class \in Classes(span[s].leaf)
  /\ span[s].parent # Tx /\ span[span[s].parent].leaf => ~Real(s)

\* A span that did not begin yet.
Fresh(s) == span[s].kind = "none" /\ fate[s] = <<>> /\ buffer[s] = None

\* What may have become of a span.
Destiny(s) ==
  /\ fate[s] # <<>> => Real(s) /\ span[s].state = "ended"
  /\ "discarded" \in Range(fate[s]) => Discardable(s)
  /\ "merged" \in Range(fate[s]) => Eligible(s)
  /\ "lost" \in Range(fate[s]) => ~Real(span[s].parent)
  /\ Real(span[s].parent) \/ Range(fate[s]) \subseteq {"lost"}
  /\ Real(s) /\ span[s].state = "ended" /\ ~Real(span[s].parent) =>
       fate[s] # <<>>

\* In a buffer there is a child that ended and that may be compressed.
Waits(p) ==
  LET b == buffer[p]
  IN  b # None => /\ b \in Begun /\ Real(b) /\ Eligible(b)
                  /\ span[b].parent = p /\ span[b].state = "ended"

\* What a context is ending is a span, or the transaction that Main began.
Calls(c) ==
  /\ op[c].at \in InCall \cup {"queue"} =>
       /\ ~op[c].leaf
       /\ op[c].of \in Begun \cup {Tx}
       /\ Real(op[c].of) /\ StateOf(op[c].of) = "ending"
       /\ op[c].of = Tx => c = Main
  /\ op[c].at = "queue" => op[c].of = Tx
  /\ op[c].at = "create" => ~UnderLeaf(c)

\* The children of a parent that all end before it does: this is SettledOnce,
\* and what the buffer holds while the parent ends.
Clearing(p) == \E c \in Contexts : op[c].at = "clear" /\ op[c].of = p

NeatChild(p, s) ==
  /\ Len(fate[s]) <= 1
  /\ span[s].state = "ended" /\ fate[s] = <<>> => buffer[p] = s
  /\ fate[s] # <<>> /\ buffer[p] = s => Clearing(p)

NeatCall(p, c) ==
  /\ op[c].at = "clear" /\ buffer[p] # None => fate[buffer[p]] # <<>>
  /\ op[c].at \in {"parent", "queue"} => buffer[p] = None

Neat(p) ==
  p \notin late /\ Real(p) =>
    /\ \A s \in Begun : Real(s) /\ span[s].parent = p => NeatChild(p, s)
    /\ \A c \in Contexts : op[c].of = p => NeatCall(p, c)
    /\ StateOf(p) = "ended" => buffer[p] = None

Settling ==
  /\ \A s \in Begun : Shape(s) /\ Destiny(s)
  /\ \A s \in Spans \ Begun : Fresh(s)
  /\ \A p \in Spans \cup {Tx} : Waits(p) /\ Neat(p)
  /\ \A c \in Contexts : Calls(c)

SInv == Inv /\ Records /\ Settling

-----------------------------------------------------------------------------
(***************************************************************************)
(* Lemmas about the operators of Tracing.                                  *)
(***************************************************************************)
LEMMA SpansFinite ==
  /\ IsFiniteSet(Spans)
  /\ Tx \notin Spans /\ None \notin Spans /\ None # Tx
  /\ \A S \in SUBSET Spans : IsFiniteSet(S) /\ Cardinality(S) \in Nat
<1>1. IsFiniteSet(Spans)
  BY TracingAssumption, FS_Interval DEF Spans
<1>2. ASSUME NEW S \in SUBSET Spans
      PROVE  IsFiniteSet(S) /\ Cardinality(S) \in Nat
  <2>1. IsFiniteSet(S)
    BY <1>1, FS_Subset
  <2> QED
    BY <2>1, FS_CardinalityType
<1> QED
  BY <1>1, <1>2, TracingAssumption

\* What a store may leave of x += n, and what it leaves when nobody disturbs.
LEMMA PlusType ==
  ASSUME NEW c \in Contexts, NEW x \in Int, NEW n \in Int, NEW y \in Plus(c, x, n)
  PROVE  /\ y \in Int
         /\ x \in Nat /\ n \in Nat => y \in Nat
         /\ Alone(c) => y = x + n
<1>1. PICK k \in IF Alone(c) THEN {n} ELSE (n .. 0) \cup (0 .. n) : y = x + k
  BY DEF Plus
<1>2. k \in Int /\ (n \in Nat => k \in Nat) /\ (Alone(c) => k = n)
  <2>1. CASE Alone(c)
    BY <1>1, <2>1
  <2>2. CASE ~Alone(c)
    BY <1>1, <2>2
  <2> QED
    BY <2>1, <2>2
<1> QED
  BY <1>1, <1>2

LEMMA OneMore ==
  ASSUME NEW q \in Seq(Fates), NEW h \in Fates
  PROVE  /\ Append(q, h) \in Seq(Fates)
         /\ Append(q, h) # <<>>
         /\ Len(Append(q, h)) = Len(q) + 1
         /\ Range(Append(q, h)) = Range(q) \cup {h}
<1> DEFINE r == Append(q, h)
<1>1. /\ r \in Seq(Fates) /\ Len(r) = Len(q) + 1 /\ DOMAIN r = 1 .. Len(q) + 1
      /\ r[Len(q) + 1] = h /\ Len(q) \in Nat /\ DOMAIN q = 1 .. Len(q)
      /\ \A i \in 1 .. Len(q) : r[i] = q[i]
  OBVIOUS
<1>2. r # <<>>
  BY <1>1
<1> HIDE DEF r
<1>3. 1 .. Len(q) + 1 = (1 .. Len(q)) \cup {Len(q) + 1}
  BY <1>1
<1>4. Range(r) = Range(q) \cup {h}
  BY <1>1, <1>3 DEF Range
<1> QED
  BY <1>1, <1>2, <1>4 DEF r

LEMMA NoFate == Len(<<>>) = 0 /\ Range(<<>>) = {}
BY DEF Range

\* What settling a set of spans does to their fates and to the counts.
LEMMA SettleDoes ==
  ASSUME Records, NEW c \in Contexts, NEW S \in SUBSET Spans,
         NEW f \in [S -> Fates], Settle(c, f)
  PROVE  /\ fate' \in [Spans -> Seq(Fates)]
         /\ \A s \in S : fate'[s] = Append(fate[s], f[s])
         /\ \A s \in Spans \ S : fate'[s] = fate[s]
         /\ counter' \in Int /\ dropped' \in Nat
         /\ Alone(c) =>
              /\ counter' = counter - Cardinality({s \in S : f[s] \in Uncounted})
              /\ dropped' = dropped + Cardinality({s \in S : f[s] = "discarded"})
<1> DEFINE U == {s \in S : f[s] \in Uncounted}
           D == {s \in S : f[s] = "discarded"}
<1>1. DOMAIN f = S
  OBVIOUS
<1>2. fate' = [s \in Spans |-> IF s \in S THEN Append(fate[s], f[s]) ELSE fate[s]]
  BY <1>1 DEF Settle
<1>3. \A s \in Spans : fate[s] \in Seq(Fates)
  BY DEF Records
<1>4. \A s \in S : f[s] \in Fates
  OBVIOUS
<1>5. \A s \in S : Append(fate[s], f[s]) \in Seq(Fates)
  BY <1>3, <1>4
<1>6. Cardinality(U) \in Nat /\ Cardinality(D) \in Nat
  BY SpansFinite
<1>7. /\ counter' \in Plus(c, counter, -Cardinality(U))
      /\ dropped' \in Plus(c, dropped, Cardinality(D))
  BY <1>1 DEF Settle
<1> HIDE DEF U, D
<1>8. /\ counter' \in Int /\ dropped' \in Nat
      /\ Alone(c) => counter' = counter - Cardinality(U) /\ dropped' = dropped + Cardinality(D)
  BY <1>6, <1>7, PlusType DEF Records
<1> QED
  BY <1>2, <1>3, <1>5, <1>8 DEF U, D

-----------------------------------------------------------------------------
(***************************************************************************)
(* Lemmas about the invariant.                                             *)
(***************************************************************************)
\* Where the spans that a context ends come from.
LEMMA Ending ==
  ASSUME SInv, NEW c \in Contexts, op[c].at \in InCall \cup {"queue"}
  PROVE  /\ op[c].of \in Begun \cup {Tx}
         /\ op[c].of = Tx => c = Main /\ op[c].at # "parent"
         /\ op[c].of # Tx => /\ op[c].of \in Begun /\ op[c].of \in Spans
                             /\ op[c].at \in InCall
                             /\ span[op[c].of].owner = c
         /\ Real(op[c].of) /\ StateOf(op[c].of) = "ending"
<1>1. Calls(c) /\ EndsOwn(c) /\ Begun \subseteq Spans /\ Tx \notin Begun
  BY SpanNumbers, SpansFinite DEF SInv, Settling, Inv, Local, Begun
<1> QED
  BY <1>1 DEF Calls, EndsOwn, Begun, InCall

\* No two contexts end the same span, nor the transaction.
LEMMA EndsAlone ==
  ASSUME SInv, NEW c \in Contexts, NEW d \in Contexts,
         op[c].at \in InCall \cup {"queue"}, op[d].at \in InCall \cup {"queue"},
         op[c].of = op[d].of
  PROVE  c = d
BY Ending

\* The span that a context is ready to end has not ended.
LEMMA ReadyOpen ==
  ASSUME SInv, NEW c \in Contexts, NEW s \in Spans, Ends(c, s)
  PROVE  /\ s \in Begun /\ span[s].owner = c
         /\ span[s].state \in {"open", "ending"}
BY EndsBegun DEF SInv, Begun

LEMMA InitSettling == Init => Records /\ Settling
<1> SUFFICES ASSUME Init
             PROVE  Records /\ Settling
  OBVIOUS
<1>1. Records
  BY SpansFinite, TracingAssumption DEF Init, Records, Fates
<1>2. Begun = {}
  BY DEF Init, Begun
<1>3. \A s \in Spans : Fresh(s)
  BY DEF Init, Fresh, Unused, Span
<1>4. \A p \in Spans \cup {Tx} : Waits(p) /\ (p # Tx => ~Real(p)) /\ StateOf(p) # "ended"
  BY SpansFinite DEF Init, Waits, Real, StateOf, Unused, Span
<1>5. \A c \in Contexts : Calls(c) /\ op[c].at = "idle"
  BY DEF Init, Calls, Idle, At, InCall
<1>6. \A p \in Spans \cup {Tx} : Neat(p)
  BY <1>2, <1>4, <1>5 DEF Neat, NeatCall
<1> QED
  BY <1>1, <1>2, <1>3, <1>4, <1>5, <1>6 DEF Settling

-----------------------------------------------------------------------------
(***************************************************************************)
(* Every step keeps the invariant.                                         *)
(***************************************************************************)
\* A step that leaves the spans and their fates alone.
LEMMA QuietStep ==
  ASSUME SInv, UNCHANGED <<begun, span, buffer, fate, late>>,
         \A c \in Contexts : Calls(c)',
         \A p \in Spans \cup {Tx} : Neat(p)'
  PROVE  Settling'
<1>1. Begun' = Begun
  BY DEF Begun
<1>2. \A s : /\ Shape(s) => Shape(s)'
             /\ Destiny(s) => Destiny(s)'
             /\ Fresh(s) => Fresh(s)'
             /\ Waits(s) => Waits(s)'
  <2>1. \A s : /\ Real(s)' <=> Real(s)
               /\ Discardable(s)' <=> Discardable(s)
               /\ Eligible(s)' <=> Eligible(s)
    BY DEF Real, Discardable, Eligible
  <2>2. \A s : Shape(s) => Shape(s)'
    BY <1>1, <2>1 DEF Shape, Real
  <2>3. \A s : Destiny(s) => Destiny(s)'
    BY <1>1, <2>1 DEF Destiny
  <2>4. \A s : Fresh(s) => Fresh(s)'
    BY <1>1 DEF Fresh
  <2>5. \A s : Waits(s) => Waits(s)'
    BY <1>1, <2>1 DEF Waits, Real, Eligible
  <2> QED
    BY <2>2, <2>3, <2>4, <2>5
<1> QED
  BY <1>1, <1>2 DEF SInv, Settling

\* What a step of c does not change for another context.
LEMMA OthersCall ==
  ASSUME SInv, NEW c \in Contexts, NEW d \in Contexts, d # c,
         op'[d] = op[d],
         stack'[d] = stack[d] \/ op[d] = Idle,
         \A s \in Begun : /\ s \in Begun' /\ span'[s].kind = span[s].kind
                          /\ span'[s].leaf = span[s].leaf,
         \A s \in Begun : span'[s].state = span[s].state \/ span[s].owner = c
                          \/ span[s].state # "ending",
         tx' = tx \/ c = Main \/ tx # "ending"
  PROVE  Calls(d)'
<1>1. Calls(d) /\ Types
  BY DEF SInv, Settling, Inv
<1>2. ASSUME op[d].at \in InCall \cup {"queue"}
      PROVE  /\ op'[d].of \in Begun' \cup {Tx}
             /\ Real(op[d].of)' /\ StateOf(op[d].of)' = "ending"
             /\ op'[d].of = Tx => d = Main
  <2>1. CASE op[d].of = Tx
    BY <1>2, <2>1, Ending DEF Real, StateOf
  <2>2. CASE op[d].of # Tx
    BY <1>2, <2>2, Ending DEF Real, StateOf
  <2> QED
    BY <2>1, <2>2
<1>3. op[d].at = "create" => ~UnderLeaf(d)'
  <2> SUFFICES ASSUME op[d].at = "create", stack[d] # <<>>
               PROVE  ~span'[Last(stack[d])].leaf /\ stack'[d] = stack[d]
    BY DEF UnderLeaf, Idle, At
  <2>1. ~UnderLeaf(d) /\ stack'[d] = stack[d]
    BY <1>1 DEF Calls, Idle, At
  <2>2. Last(stack[d]) \in Begun
    BY <1>1, LastOf DEF Types, Ascending, Begun
  <2> QED
    BY <2>1, <2>2 DEF UnderLeaf
<1> QED
  BY <1>1, <1>2, <1>3 DEF Calls

\* An idle context, and one that creates a span, do not disturb what others end.
LEMMA ClearingStays ==
  ASSUME NEW c \in Contexts, \A d \in Contexts \ {c} : op'[d] = op[d],
         op[c].at # "clear", op'[c].at # "clear"
  PROVE  \A p : Clearing(p)' <=> Clearing(p)
BY DEF Clearing

\* c begins a span, a dropped one if it is below a leaf.
LEMMA BeginSettles ==
  ASSUME SInv, NEW c \in Contexts, NEW n, n = begun + 1,
         NEW kind \in {"real", "dropped"}, NEW leaf \in BOOLEAN,
         Activate(c, Span(kind, Parent(c), leaf, c)),
         op[c].at \in {"idle", "create"}, op' = [op EXCEPT ![c] = Idle],
         UnderLeaf(c) => kind = "dropped",
         UNCHANGED <<tx, buffer, fate, late>>
  PROVE  Settling'
<1> DEFINE sp == Span(kind, Parent(c), leaf, c)
<1>1. Types /\ Records /\ Settling /\ begun \in Nat
  BY SpanNumbers DEF SInv, Inv
<1>2. /\ n \in Spans /\ n \notin Begun /\ Begun \subseteq Spans /\ Begun = 1 .. n - 1
      /\ Begun' = Begun \cup {n} /\ \A s \in Begun : s # n /\ s \in Nat /\ s < n
  <2>1. begun < MaxBegun /\ MaxBegun \in Nat /\ begun' = n
    BY TracingAssumption DEF Activate
  <2> QED
    BY <1>1, <2>1 DEF Spans, Begun
<1>3. /\ span'[n] = sp /\ \A s \in Begun : span'[s] = span[s]
      /\ \A s \in Spans \ {n} : span'[s] = span[s]
      /\ \A d \in Contexts \ {c} : stack'[d] = stack[d] /\ op'[d] = op[d]
      /\ op'[c] = Idle
  <2>1. /\ span \in [Spans -> SpanRecord] /\ op \in [Contexts -> Op]
        /\ stack \in [Contexts -> Seq(Nat)]
    BY <1>1 DEF Types
  <2> QED
    BY <1>2, <2>1 DEF Activate
<1>4. /\ Parent(c) \in Begun \cup {Tx}
      /\ Parent(c) # Tx /\ span[Parent(c)].leaf => UnderLeaf(c)
  <2>1. stack[c] \in Seq(Nat) /\ Ascending(stack[c])
    BY <1>1 DEF Types
  <2> QED
    BY <2>1, LastOf DEF Parent, UnderLeaf, Ascending, Begun
<1>5. /\ sp.kind = kind /\ sp.state = "open" /\ sp.parent = Parent(c)
      /\ sp.class = "plain" /\ sp.leaf = leaf
  BY DEF Span
<1>6. fate[n] = <<>> /\ buffer[n] = None
  BY <1>1, <1>2 DEF Settling, Fresh
<1> HIDE DEF sp
<1>7. \A s \in Begun : span[s].parent \in Begun \cup {Tx}
  <2> SUFFICES ASSUME NEW s \in Begun
               PROVE  span[s].parent \in Begun \cup {Tx}
    OBVIOUS
  <2>1. span[s].parent \in (1 .. s - 1) \cup {Tx} /\ s \in 1 .. begun
    BY <1>1 DEF Settling, Shape, Begun
  <2> QED
    BY <1>1, <2>1 DEF Begun
<1>8. /\ \A q \in Begun \cup {Tx} : Real(q)' <=> Real(q)
      /\ \A q \in Begun : (Eligible(q)' <=> Eligible(q)) /\ (Discardable(q)' <=> Discardable(q))
  BY <1>2, <1>3 DEF Real, Eligible, Discardable
<1>9. Shape(n)' /\ Destiny(n)'
  <2>1. Shape(n)'
    <3>1. span'[n].parent = Tx \/ span'[span'[n].parent].leaf = span[Parent(c)].leaf
      BY <1>3, <1>4, <1>5
    <3>2. Parent(c) \in (1 .. n - 1) \cup {Tx} /\ n # Tx
      BY <1>2, <1>4, SpansFinite
    <3>3. span'[n].class \in Classes(span'[n].leaf)
      BY <1>3, <1>5 DEF Classes
    <3>4. span'[n].parent # Tx /\ span'[span'[n].parent].leaf => ~Real(n)'
      BY <1>3, <1>4, <1>5, <3>1, <3>2 DEF Real
    <3> QED
      BY <1>3, <1>5, <3>2, <3>3, <3>4 DEF Shape
  <2>2. Destiny(n)'
    BY <1>3, <1>5, <1>6, NoFate DEF Destiny
  <2> QED
    BY <2>1, <2>2
<1>10. ASSUME NEW s \in Begun
       PROVE  Shape(s)' /\ Destiny(s)'
  <2>1. /\ Shape(s) /\ Destiny(s) /\ span'[s] = span[s] /\ fate' = fate
        /\ span[s].parent = Tx \/ span'[span[s].parent] = span[span[s].parent]
    BY <1>1, <1>3, <1>7 DEF Settling
  <2>2. /\ Real(s)' <=> Real(s)
        /\ Real(span[s].parent)' <=> Real(span[s].parent)
        /\ Eligible(s)' <=> Eligible(s)
        /\ Discardable(s)' <=> Discardable(s)
    BY <1>8, <2>1 DEF Real
  <2>3. Shape(s)'
    BY <2>1, <2>2 DEF Shape
  <2>4. Destiny(s)'
    BY <2>1, <2>2, <1>3 DEF Destiny, Real
  <2> QED
    BY <2>3, <2>4
<1>11. ASSUME NEW s \in Spans \ Begun'
       PROVE  Fresh(s)'
  <2>1. s # n /\ s \in Spans \ Begun
    BY <1>2
  <2>2. Fresh(s) /\ span'[s] = span[s] /\ fate'[s] = fate[s] /\ buffer'[s] = buffer[s]
    BY <1>1, <1>3, <2>1 DEF Settling
  <2> QED
    BY <2>2 DEF Fresh
<1>12. ASSUME NEW q \in Spans \cup {Tx}
       PROVE  Waits(q)'
  <2>1. Waits(q)
    BY <1>1 DEF Settling
  <2> QED
    BY <1>2, <1>3, <1>8, <2>1 DEF Waits
<1>13. \A q : Clearing(q)' <=> Clearing(q)
  BY <1>3, ClearingStays DEF Idle, At
<1>14. ASSUME NEW q \in Spans \cup {Tx}, q \notin late', Real(q)'
       PROVE  /\ \A s \in Begun' : Real(s)' /\ span'[s].parent = q => NeatChild(q, s)'
              /\ \A d \in Contexts : op'[d].of = q => NeatCall(q, d)'
              /\ StateOf(q)' = "ended" => buffer'[q] = None
  <2>1. CASE q = n
    <3>1. ASSUME NEW s \in Begun'
          PROVE  span'[s].parent # q
      BY <1>2, <1>3, <1>4, <1>5, <1>7, <2>1, <3>1, SpansFinite
    <3> QED
      BY <1>6, <2>1, <3>1 DEF NeatCall
  <2>2. CASE q # n
    <3>1. q \in Begun \cup {Tx} /\ Real(q) /\ Neat(q) /\ q \notin late
      <4>1. q \in Spans => q \in Begun
        BY <1>1, <1>2, <1>3, <1>14, <2>2, SpansFinite DEF Settling, Fresh, Real
      <4> QED
        BY <1>1, <1>8, <1>14, <4>1 DEF Settling
    <3>2. ASSUME NEW s \in Begun', Real(s)', span'[s].parent = q
          PROVE  NeatChild(q, s)'
      <4>1. CASE s = n
        BY <1>3, <1>5, <1>6, <4>1, OneMore DEF NeatChild
      <4>2. CASE s \in Begun
        BY <1>3, <1>8, <1>13, <3>1, <3>2, <4>2 DEF NeatChild, Neat
      <4> QED
        BY <1>2, <4>1, <4>2
    <3>3. ASSUME NEW d \in Contexts, op'[d].of = q
          PROVE  NeatCall(q, d)'
      BY <1>3, <3>1, <3>3 DEF Neat, NeatCall, Idle, At
    <3>4. StateOf(q)' = StateOf(q)
      BY <1>3, <3>1 DEF StateOf
    <3> QED
      BY <3>1, <3>2, <3>3, <3>4 DEF Neat
  <2> QED
    BY <2>1, <2>2
<1>15. ASSUME NEW d \in Contexts
       PROVE  Calls(d)'
  <2>1. CASE d = c
    BY <1>3, <2>1 DEF Calls, Idle, At, InCall
  <2>2. CASE d # c
    BY <1>2, <1>3, <2>2, OthersCall
  <2> QED
    BY <2>1, <2>2
<1>16. ASSUME NEW q \in Spans \cup {Tx}
       PROVE  Neat(q)'
  BY <1>14 DEF Neat
<1> QED
  BY <1>2, <1>9, <1>10, <1>11, <1>12, <1>15, <1>16 DEF Settling

\* c ends its span s: a real one is not over yet, a dropped one is.
LEMMA LeavesOpen ==
  ASSUME SInv, NEW c \in Contexts, NEW s \in Begun, s \in Spans, op[c] = Idle,
         span[s].state \in {"open", "ending"}, span[s].owner = c,
         \A r \in Spans \ {s} : span'[r] = span[r],
         span'[s].kind = span[s].kind, span'[s].leaf = span[s].leaf,
         span'[s].parent = span[s].parent,
         span'[s].class \in Classes(span[s].leaf),
         \/ /\ Real(s) /\ span'[s].state = "ending"
            /\ op'[c] = AfterEnd(s, "parent")
         \/ ~Real(s) /\ span'[s].state = "ended" /\ op'[c] = Idle,
         \A d \in Contexts \ {c} : op'[d] = op[d] /\ stack'[d] = stack[d],
         UNCHANGED <<begun, tx, buffer, fate, late>>
  PROVE  Settling'
<1>1. /\ Types /\ Records /\ Settling /\ Begun \subseteq Spans /\ Begun' = Begun
      /\ begun \in Nat
  BY SpanNumbers DEF SInv, Inv, Begun
<1>2. s \in Nat /\ s # Tx /\ s # None /\ span[s].parent # s
  <2>1. s \in Nat /\ s # Tx /\ s # None
    BY SpansFinite, <1>1 DEF Begun
  <2>2. span[s].parent \in (1 .. s - 1) \cup {Tx}
    BY <1>1 DEF Settling, Shape
  <2> QED
    BY <2>1, <2>2
<1>3. /\ \A q \in Spans \cup {Tx} : Real(q)' <=> Real(q)
      /\ \A q \in Spans \ {s} : /\ Eligible(q)' <=> Eligible(q)
                                /\ Discardable(q)' <=> Discardable(q)
  BY DEF Real, Eligible, Discardable
<1>4. \A r \in Begun : span[r].parent \in Spans \cup {Tx} /\ span'[r].parent = span[r].parent
  <2> SUFFICES ASSUME NEW r \in Begun
               PROVE  span[r].parent \in Spans \cup {Tx} /\ span'[r].parent = span[r].parent
    OBVIOUS
  <2>1. span[r] \in SpanRecord
    BY <1>1 DEF Types
  <2> QED
    BY <1>1, <2>1 DEF SpanRecord
<1>5. fate[s] = <<>>
  BY <1>1 DEF Settling, Destiny
<1>6. \A q : Clearing(q)' <=> Clearing(q)
  BY ClearingStays DEF Idle, At, AfterEnd
<1>7. ASSUME NEW r \in Begun
      PROVE  Shape(r)' /\ Destiny(r)'
  <2>1. /\ Shape(r) /\ Destiny(r) /\ span'[r].parent = span[r].parent
        /\ span[r].parent \in Spans \cup {Tx} /\ r \in Spans
    BY <1>1, <1>4 DEF Settling
  <2>2. Real(r)' <=> Real(r)
    BY <1>3, <2>1
  <2>3. Real(span[r].parent)' <=> Real(span[r].parent)
    BY <1>3, <2>1 DEF Real
  <2>4. /\ span'[r].kind = span[r].kind /\ span'[r].leaf = span[r].leaf
        /\ span[r].parent # Tx =>
             span'[span[r].parent].leaf = span[span[r].parent].leaf
    BY <2>1
  <2>5. Shape(r)'
    <3>1. span'[r].class \in Classes(span'[r].leaf)
      BY <2>1, <2>4 DEF Shape
    <3>2. span'[r].state \in {"open", "ending", "ended"}
      BY <2>1 DEF Shape
    <3> QED
      BY <2>1, <2>2, <2>4, <3>1, <3>2 DEF Shape
  <2>6. Destiny(r)'
    <3>1. CASE r = s
      BY <1>2, <1>3, <1>5, <2>2, <2>3, <3>1, NoFate DEF Destiny, Real
    <3>2. CASE r # s
      <4>1. /\ Eligible(r)' <=> Eligible(r)
            /\ Discardable(r)' <=> Discardable(r)
        <5>1. r \in Spans \ {s}
          BY <2>1, <3>2
        <5> QED
          BY <1>3, <5>1
      <4>2. span'[r] = span[r]
        BY <2>1, <3>2
      <4> QED
        BY <2>1, <2>2, <2>3, <4>1, <4>2 DEF Destiny
    <3> QED
      BY <3>1, <3>2
  <2> QED
    BY <2>5, <2>6
<1>8. ASSUME NEW r \in Spans \ Begun
      PROVE  Fresh(r)'
  BY <1>1 DEF Settling, Fresh
<1>9. ASSUME NEW q \in Spans \cup {Tx}
      PROVE  Waits(q)'
  <2>1. Waits(q) /\ buffer'[q] = buffer[q]
    BY <1>1 DEF Settling
  <2>2. ASSUME buffer[q] # None
        PROVE  /\ buffer[q] \in Begun' /\ Real(buffer[q])' /\ Eligible(buffer[q])'
               /\ span'[buffer[q]].parent = q /\ span'[buffer[q]].state = "ended"
    <3>1. /\ buffer[q] \in Begun /\ Real(buffer[q]) /\ Eligible(buffer[q])
          /\ span[buffer[q]].parent = q /\ span[buffer[q]].state = "ended"
          /\ buffer[q] # s /\ buffer[q] \in Spans
      BY <1>1, <2>1, <2>2 DEF Waits
    <3>2. span'[buffer[q]] = span[buffer[q]]
      BY <3>1
    <3> QED
      BY <1>1, <3>1, <3>2 DEF Real, Eligible
  <2> QED
    BY <2>1, <2>2 DEF Waits, Real, Eligible
<1>10. ASSUME NEW q \in Spans \cup {Tx}, q \notin late', Real(q)'
       PROVE  /\ \A r \in Begun' : Real(r)' /\ span'[r].parent = q => NeatChild(q, r)'
              /\ \A d \in Contexts : op'[d].of = q => NeatCall(q, d)'
              /\ StateOf(q)' = "ended" => buffer'[q] = None
  <2>1. Real(q) /\ Neat(q) /\ q \notin late
    BY <1>1, <1>3, <1>10 DEF Settling
  <2>2. ASSUME NEW r \in Begun', Real(r)', span'[r].parent = q
        PROVE  NeatChild(q, r)'
    <3>1. Real(r) /\ span[r].parent = q /\ r \in Begun /\ NeatChild(q, r)
      BY <1>1, <1>3, <1>4, <2>1, <2>2 DEF Neat
    <3>2. CASE r = s
      BY <1>5, <3>1, <3>2, NoFate DEF NeatChild
    <3>3. CASE r # s
      BY <1>1, <1>6, <3>1, <3>3 DEF NeatChild
    <3> QED
      BY <3>2, <3>3
  <2>3. ASSUME NEW d \in Contexts, op'[d].of = q
        PROVE  NeatCall(q, d)'
    <3>1. CASE d = c
      BY <3>1, <2>3 DEF NeatCall, AfterEnd, At, Idle
    <3>2. CASE d # c
      BY <2>1, <2>3, <3>2 DEF Neat, NeatCall
    <3> QED
      BY <3>1, <3>2
  <2>4. StateOf(q)' = "ended" => StateOf(q) = "ended"
    BY <1>10, <1>3 DEF StateOf
  <2> QED
    BY <2>1, <2>2, <2>3, <2>4 DEF Neat
<1>11. ASSUME NEW q \in Spans \cup {Tx}
       PROVE  Neat(q)'
  BY <1>10 DEF Neat
<1>12. ASSUME NEW d \in Contexts
       PROVE  Calls(d)'
  <2>1. CASE d = c
    BY <1>1, <1>2, <1>3, <2>1 DEF Calls, Idle, At, InCall, AfterEnd, StateOf
  <2>2. CASE d # c
    BY <1>1, <2>2, OthersCall
  <2> QED
    BY <2>1, <2>2
<1> QED
  BY <1>1, <1>7, <1>8, <1>9, <1>11, <1>12 DEF Settling

\* c moves on in its call, or the transaction does, but the spans and their
\* fates stay.
LEMMA CallMoves ==
  ASSUME SInv, NEW c \in Contexts, op[c].at # "clear", op'[c].at # "clear",
         \A d \in Contexts \ {c} : op'[d] = op[d],
         UNCHANGED <<begun, span, stack, buffer, fate, late>>,
         tx' = tx \/ (c = Main /\ tx # "ending") \/ (op[c].at = "queue" /\ c = Main),
         tx' = "ended" /\ tx # "ended" => (Tx \notin late => buffer[Tx] = None),
         op'[c].at \in {"parent", "queue"} => buffer[op'[c].of] = None,
         Calls(c)'
  PROVE  Settling'
<1>1. Types /\ Records /\ Settling /\ Begun' = Begun
  BY DEF SInv, Inv, Begun
<1>2. \A q : Clearing(q)' <=> Clearing(q)
  BY ClearingStays
<1>3. ASSUME NEW q \in Spans \cup {Tx}
      PROVE  Neat(q)'
  <2> SUFFICES ASSUME q \notin late, Real(q)
               PROVE  /\ \A s \in Begun : Real(s) /\ span[s].parent = q => NeatChild(q, s)'
                      /\ \A d \in Contexts : op'[d].of = q => NeatCall(q, d)'
                      /\ StateOf(q)' = "ended" => buffer[q] = None
    BY <1>1 DEF Neat, Real
  <2>1. Neat(q)
    BY <1>1 DEF Settling
  <2>2. ASSUME NEW s \in Begun, Real(s), span[s].parent = q
        PROVE  NeatChild(q, s)'
    BY <1>2, <2>1, <2>2 DEF Neat, NeatChild
  <2>3. ASSUME NEW d \in Contexts, op'[d].of = q
        PROVE  NeatCall(q, d)'
    BY <2>1, <2>3 DEF Neat, NeatCall
  <2>4. StateOf(q)' = "ended" => buffer[q] = None
    BY <2>1, SpansFinite DEF Neat, StateOf
  <2> QED
    BY <2>2, <2>3, <2>4
<1>4. ASSUME NEW d \in Contexts
      PROVE  Calls(d)'
  <2>1. CASE d # c
    <3>1. tx' = tx \/ c = Main \/ tx # "ending"
      OBVIOUS
    <3> QED
      BY <1>1, <2>1, <3>1, OthersCall
  <2> QED
    BY <2>1
<1> QED
  BY <1>3, <1>4, QuietStep

LEMMA SpawnSettles ==
  ASSUME SInv, NEW c \in Contexts, NEW d \in Contexts, Spawn(c, d)
  PROVE  Settling'
<1>1. Types /\ Records /\ Settling /\ Begun' = Begun
  BY DEF SInv, Inv, Begun, Spawn
<1>2. /\ op[d] = Idle /\ UNCHANGED <<op, begun, span, tx, buffer, fate, late>>
      /\ \A e \in Contexts \ {d} : stack'[e] = stack[e]
  <2>1. stack \in [Contexts -> Seq(Nat)] /\ NotStarted(d)
    BY DEF SInv, Inv, Types, Local
  <2> QED
    BY <2>1 DEF Spawn, NotStarted, Known
<1>3. ASSUME NEW q \in Spans \cup {Tx}
      PROVE  Neat(q)'
  BY <1>1, <1>2
  DEF Settling, Neat, NeatChild, NeatCall, Clearing, StateOf, Real
<1>4. ASSUME NEW e \in Contexts
      PROVE  Calls(e)'
  <2>1. CASE e = d
    BY <1>2, <2>1 DEF Calls, Idle, At, InCall
  <2>2. CASE e # d
    BY <1>1, <1>2, <2>2, OthersCall
  <2> QED
    BY <2>1, <2>2
<1> QED
  BY <1>2, <1>3, <1>4, QuietStep

\* The steps that change only what a context is doing.
LEMMA CallsSettle ==
  ASSUME SInv, NEW c \in Contexts,
         \/ \E leaf \in BOOLEAN : BeginCheck(c, leaf)
         \/ FlushRaises(c)
         \/ EndTransaction(c)
         \/ QueueTransaction(c)
         \/ IgnoreTransaction(c)
  PROVE  Settling'
<1>1. Types /\ Records /\ Settling /\ op \in [Contexts -> Op]
  BY DEF SInv, Inv, Types
<1>2. Idle.at = "idle"
  BY DEF Idle, At
<1>3. ASSUME NEW leaf \in BOOLEAN, BeginCheck(c, leaf)
      PROVE  Settling'
  <2>1. /\ op[c] = Idle /\ op'[c] = At("create", None, leaf)
        /\ \A d \in Contexts \ {c} : op'[d] = op[d]
        /\ UNCHANGED <<begun, span, stack, buffer, fate, late, tx>>
        /\ ~UnderLeaf(c)'
    BY <1>1, <1>3 DEF BeginCheck, Ready, UnderLeaf
  <2>2. Calls(c)' /\ op'[c].at = "create"
    BY <2>1 DEF Calls, At, InCall
  <2> QED
    BY <1>2, <2>1, <2>2, CallMoves
<1>4. ASSUME FlushRaises(c)
      PROVE  Settling'
  <2>1. /\ op[c].at = "flush" /\ op'[c] = Idle
        /\ \A d \in Contexts \ {c} : op'[d] = op[d]
        /\ UNCHANGED <<begun, span, stack, buffer, fate, late, tx>>
    BY <1>1, <1>4 DEF FlushRaises
  <2>2. Calls(c)'
    BY <1>2, <2>1 DEF Calls, InCall
  <2> QED
    BY <1>2, <2>1, <2>2, CallMoves
<1>5. ASSUME EndTransaction(c)
      PROVE  Settling'
  <2>1. /\ op[c] = Idle /\ op'[c] = AfterEnd(Tx, "queue")
        /\ \A d \in Contexts \ {c} : op'[d] = op[d]
        /\ UNCHANGED <<begun, span, stack, buffer, fate, late>>
        /\ tx = "open" /\ tx' = "ending" /\ c = Main
    BY <1>1, <1>5 DEF EndTransaction, Ready
  <2>2. /\ op'[c].at \in {"flush", "queue"} /\ op'[c].of = Tx /\ ~op'[c].leaf
        /\ op'[c].at = "queue" => buffer[Tx] = None
    BY <2>1 DEF AfterEnd, At
  <2>3. Calls(c)'
    BY <2>1, <2>2 DEF Calls, InCall, Real, StateOf
  <2> QED
    BY <1>2, <2>1, <2>2, <2>3, CallMoves
<1>6. ASSUME QueueTransaction(c) \/ IgnoreTransaction(c)
      PROVE  Settling'
  <2>1. /\ op[c].at = "queue" /\ op'[c] = Idle
        /\ \A d \in Contexts \ {c} : op'[d] = op[d]
        /\ UNCHANGED <<begun, span, stack, buffer, fate, late>>
        /\ tx' = "ended"
    BY <1>1, <1>6 DEF QueueTransaction, IgnoreTransaction
  <2>2. c = Main /\ op[c].of = Tx
    BY <1>1, <2>1 DEF Settling, Calls, InCall
  <2>3. Tx \notin late => buffer[Tx] = None
    BY <1>1, <2>1, <2>2 DEF Settling, Neat, NeatCall, Real
  <2>4. Calls(c)'
    BY <1>2, <2>1 DEF Calls, InCall
  <2> QED
    BY <1>2, <2>1, <2>2, <2>3, <2>4, CallMoves
<1> QED
  BY <1>3, <1>4, <1>5, <1>6

\* The end of a span or of the transaction empties the buffer that it reported.
LEMMA ClearSettles ==
  ASSUME SInv, NEW c \in Contexts, ClearBuffer(c)
  PROVE  Settling'
<1> DEFINE p == op[c].of
<1>1. Types /\ Records /\ Settling /\ Begun' = Begun /\ op \in [Contexts -> Op]
  BY DEF SInv, Inv, Types, Begun, ClearBuffer
<1>2. /\ op[c].at = "clear" /\ p \in Spans \cup {Tx} /\ Real(p) /\ StateOf(p) = "ending"
      /\ Begun \subseteq Spans
  BY Ending, SpanNumbers, <1>1 DEF ClearBuffer, InCall, Begun
<1>3. /\ op'[c] = [op[c] EXCEPT !.at = IF p = Tx THEN "queue" ELSE "parent"]
      /\ op'[c].of = p /\ op'[c].at = (IF p = Tx THEN "queue" ELSE "parent")
      /\ op'[c].leaf = op[c].leaf
      /\ \A d \in Contexts \ {c} : op'[d] = op[d]
      /\ buffer'[p] = None
      /\ \A q \in Spans \cup {Tx} : q # p => buffer'[q] = buffer[q]
      /\ UNCHANGED <<begun, span, stack, fate, late, tx>>
  BY <1>1, <1>2 DEF ClearBuffer, Op, Records
<1>4. Calls(c)'
  BY <1>1, <1>2, <1>3 DEF Settling, Calls, InCall, Real, StateOf
<1> HIDE DEF p
<1>5. ASSUME NEW d \in Contexts
      PROVE  Calls(d)'
  BY <1>1, <1>3, <1>4, OthersCall
<1>6. \A q : q # p => (Clearing(q)' <=> Clearing(q))
  BY <1>3 DEF Clearing, p
<1>7. ASSUME NEW q \in Spans \cup {Tx}
      PROVE  Neat(q)'
  <2> SUFFICES ASSUME q \notin late, Real(q)
               PROVE  /\ \A s \in Begun : Real(s) /\ span[s].parent = q => NeatChild(q, s)'
                      /\ \A d \in Contexts : op'[d].of = q => NeatCall(q, d)'
                      /\ StateOf(q)' = "ended" => buffer'[q] = None
    BY <1>1, <1>3 DEF Neat, Real
  <2>1. Neat(q)
    BY <1>1 DEF Settling
  <2>2. ASSUME NEW s \in Begun, Real(s), span[s].parent = q
        PROVE  NeatChild(q, s)'
    <3>1. NeatChild(q, s) /\ s # None
      BY <1>2, <2>1, <2>2, SpansFinite DEF Neat
    <3>2. CASE q # p
      BY <1>3, <1>6, <3>1, <3>2 DEF NeatChild
    <3>3. CASE q = p
      <4>1. NeatCall(p, c)
        BY <2>1, <3>3 DEF Neat, p
      <4> QED
        BY <1>2, <1>3, <3>1, <3>3, <4>1 DEF NeatChild, NeatCall
    <3> QED
      BY <3>2, <3>3
  <2>3. ASSUME NEW d \in Contexts, op'[d].of = q
        PROVE  NeatCall(q, d)'
    BY <1>3, <2>1, <2>3 DEF Neat, NeatCall
  <2>4. StateOf(q)' = "ended" => buffer'[q] = None
    BY <1>3, <2>1 DEF Neat, StateOf
  <2> QED
    BY <2>2, <2>3, <2>4
<1>8. ASSUME NEW q \in Spans \cup {Tx}
      PROVE  Waits(q)'
  <2>1. Waits(q)
    BY <1>1 DEF Settling
  <2> QED
    BY <1>1, <1>3, <2>1 DEF Waits, Real, Eligible
<1>9. ASSUME NEW s \in Begun
      PROVE  Shape(s)' /\ Destiny(s)'
  BY <1>1, <1>3 DEF Settling, Shape, Destiny, Real, Discardable, Eligible
<1>10. ASSUME NEW s \in Spans \ Begun
       PROVE  Fresh(s)'
  BY <1>1, <1>3 DEF Settling, Fresh
<1> QED
  BY <1>1, <1>5, <1>7, <1>8, <1>9, <1>10 DEF Settling

\* What reporting a set of spans may do to each.
LEMMA ReportsDo ==
  ASSUME NEW S \in SUBSET Spans, NEW f \in Reports(S)
  PROVE  /\ f \in [S -> Fates]
         /\ \A s \in S : /\ f[s] \notin {"merged", "lost"}
                         /\ f[s] = "discarded" => Discardable(s)
BY DEF Reports, Outcomes, Fates

\* The end of a span or of the transaction reports what its buffer holds.
LEMMA FlushSettles ==
  ASSUME SInv, NEW c \in Contexts, Flush(c)
  PROVE  Settling'
<1> DEFINE p == op[c].of
           b == buffer[p]
<1>1. /\ Types /\ Records /\ Settling /\ Begun' = Begun /\ op \in [Contexts -> Op]
      /\ Begun \subseteq Spans
  BY SpanNumbers DEF SInv, Inv, Types, Begun, Flush
<1>2. /\ op[c].at = "flush" /\ p \in Spans \cup {Tx} /\ Real(p) /\ StateOf(p) = "ending"
      /\ b # None
  BY Ending, <1>1 DEF Flush, InCall
<1>3. /\ b \in Begun /\ b \in Spans /\ Real(b) /\ Eligible(b)
      /\ span[b].parent = p /\ span[b].state = "ended"
  BY <1>1, <1>2 DEF Settling, Waits
<1>4. PICK f \in Reports({b}) : Settle(c, f)
  BY DEF Flush
<1> HIDE DEF p, b
<1>5. /\ f \in [{b} -> Fates] /\ f[b] \in Fates /\ f[b] \notin {"merged", "lost"}
      /\ f[b] = "discarded" => Discardable(b)
  <2>1. {b} \in SUBSET Spans
    BY <1>3
  <2> QED
    BY <1>4, <2>1, ReportsDo
<1>6. /\ fate'[b] = Append(fate[b], f[b])
      /\ \A s \in Spans : s # b => fate'[s] = fate[s]
  <2>1. {b} \in SUBSET Spans
    BY <1>3
  <2> QED
    BY <1>1, <1>4, <1>5, <2>1, SettleDoes
<1>7. /\ fate[b] \in Seq(Fates)
      /\ fate'[b] # <<>> /\ Len(fate'[b]) = Len(fate[b]) + 1
      /\ Range(fate'[b]) = Range(fate[b]) \cup {f[b]}
  <2>1. fate[b] \in Seq(Fates)
    BY <1>1, <1>3 DEF Records
  <2> QED
    BY <1>5, <1>6, <2>1, OneMore
<1>8. /\ op'[c].of = p /\ op'[c].at = "clear" /\ op'[c].leaf = op[c].leaf
      /\ \A d \in Contexts \ {c} : op'[d] = op[d]
      /\ UNCHANGED <<begun, span, stack, buffer, late, tx>>
  BY <1>1 DEF Flush, Op, p
<1>9. Calls(c)'
  BY <1>1, <1>2, <1>8 DEF Settling, Calls, InCall, Real, StateOf, p
<1> DEFINE h == f[b]
<1>10. ASSUME NEW d \in Contexts
       PROVE  Calls(d)'
  BY <1>1, <1>8, <1>9, OthersCall
<1>11. \A q : q # p => (Clearing(q)' <=> Clearing(q))
  BY <1>8 DEF Clearing, p
<1>12. ASSUME NEW q \in Spans \cup {Tx}
       PROVE  Neat(q)'
  <2> SUFFICES ASSUME q \notin late, Real(q)
               PROVE  /\ \A s \in Begun : Real(s) /\ span[s].parent = q => NeatChild(q, s)'
                      /\ \A d \in Contexts : op'[d].of = q => NeatCall(q, d)'
                      /\ StateOf(q)' = "ended" => buffer'[q] = None
    BY <1>1, <1>8 DEF Neat, Real
  <2>1. Neat(q)
    BY <1>1 DEF Settling
  <2>2. ASSUME NEW s \in Begun, Real(s), span[s].parent = q
        PROVE  NeatChild(q, s)'
    <3>1. NeatChild(q, s) /\ s \in Spans
      BY <1>1, <2>1, <2>2 DEF Neat
    <3>2. CASE s = b
      <4>1. q = p /\ Clearing(q)'
        BY <1>3, <1>8, <2>2, <3>2 DEF Clearing
      <4>2. ~Clearing(q)
        BY <1>2, <4>1, EndsAlone DEF Clearing, InCall, p
      <4>3. buffer[q] = s /\ fate[s] = <<>>
        BY <3>1, <3>2, <4>1, <4>2 DEF NeatChild, b
      <4>4. Len(fate'[s]) = 1 /\ fate'[s] # <<>>
        BY <1>7, <3>2, <4>3, NoFate
      <4> QED
        BY <4>1, <4>4 DEF NeatChild
    <3>3. CASE s # b /\ q # p
      BY <1>6, <1>8, <1>11, <3>1, <3>3 DEF NeatChild
    <3>4. CASE s # b /\ q = p
      <4>1. fate'[s] = fate[s] /\ buffer[q] # s /\ UNCHANGED <<span, buffer>>
        BY <1>6, <1>8, <3>1, <3>4 DEF b
      <4> QED
        BY <3>1, <4>1 DEF NeatChild
    <3> QED
      BY <3>2, <3>3, <3>4
  <2>3. ASSUME NEW d \in Contexts, op'[d].of = q
        PROVE  NeatCall(q, d)'
    <3>1. CASE d = c
      BY <1>7, <1>8, <2>3, <3>1 DEF NeatCall, b
    <3>2. CASE d # c
      <4>1. NeatCall(q, d) /\ op'[d] = op[d]
        BY <1>8, <2>1, <2>3, <3>2 DEF Neat
      <4>2. fate[buffer[q]] # <<>> => fate'[buffer[q]] # <<>> \/ buffer[q] = None
        <5>1. buffer[q] \in Spans \cup {None}
          BY <1>1 DEF Records
        <5> QED
          BY <1>6, <1>7, <5>1
      <4> QED
        BY <1>8, <4>1, <4>2 DEF NeatCall
    <3> QED
      BY <3>1, <3>2
  <2>4. StateOf(q)' = "ended" => buffer'[q] = None
    BY <1>8, <2>1 DEF Neat, StateOf
  <2> QED
    BY <2>2, <2>3, <2>4
<1>13. ASSUME NEW q \in Spans \cup {Tx}
       PROVE  Waits(q)'
  <2>1. Waits(q)
    BY <1>1 DEF Settling
  <2> QED
    BY <1>1, <1>8, <2>1 DEF Waits, Real, Eligible
<1>14. ASSUME NEW s \in Begun
       PROVE  Shape(s)' /\ Destiny(s)'
  <2>1. Shape(s) /\ Destiny(s) /\ s \in Spans
    BY <1>1 DEF Settling
  <2>2. Shape(s)'
    BY <1>8, <2>1 DEF Shape, Real
  <2>3. Destiny(s)'
    <3>1. /\ (Real(s)' <=> Real(s)) /\ (Eligible(s)' <=> Eligible(s))
          /\ (Discardable(s)' <=> Discardable(s))
          /\ (Real(span[s].parent)' <=> Real(span[s].parent))
          /\ span' = span
      BY <1>8 DEF Real, Eligible, Discardable
    <3>2. CASE s = b
      <4> HIDE DEF h
      <4>1. h \notin {"merged", "lost"} /\ (h = "discarded" => Discardable(b))
            /\ Range(fate'[b]) = Range(fate[b]) \cup {h}
        BY <1>5, <1>7 DEF h
      <4> QED
        BY <1>2, <1>3, <1>7, <2>1, <3>1, <3>2, <4>1 DEF Destiny
    <3>3. CASE s # b
      BY <1>6, <2>1, <3>1, <3>3 DEF Destiny
    <3> QED
      BY <3>2, <3>3
  <2> QED
    BY <2>2, <2>3
<1>15. ASSUME NEW s \in Spans \ Begun
       PROVE  Fresh(s)'
  BY <1>1, <1>3, <1>6, <1>8 DEF Settling, Fresh
<1> QED
  BY <1>1, <1>10, <1>12, <1>13, <1>14, <1>15 DEF Settling

\* Which spans child_ended settles when the span s of c tells its parent p,
\* whose buffer held b, and what it leaves there.
Told(s, p, b, S, f) ==
  /\ S \subseteq {s, b}
  /\ \A x \in S : /\ f[x] = "discarded" => Discardable(x)
                  /\ f[x] = "merged" => x = s /\ Eligible(s)
                  /\ f[x] = "lost" => x = s
                  /\ f[x] = "lost" <=> ~Real(p)

Rebuffered(s, p, b, S) ==
  /\ \A q \in Spans \cup {Tx} : q # p => buffer'[q] = buffer[q]
  /\ \/ ~Real(p) /\ S = {s} /\ buffer'[p] = b
     \/ Real(p) /\ S = {s, b} \ {None} /\ buffer'[p] = None
     \/ Real(p) /\ S = {b} \ {None} /\ buffer'[p] = s /\ Eligible(s)
     \/ Real(p) /\ S = {s} /\ buffer'[p] = b /\ b # None

LEMMA ChildEndedDoes ==
  ASSUME SInv, NEW c \in Contexts, NEW s \in Begun, NEW p \in Spans \cup {Tx},
         NEW b, b = buffer[p], ChildEnded(c, s, p)
  PROVE  \E S \in SUBSET Spans : \E f \in [S -> Fates] :
           Settle(c, f) /\ Told(s, p, b, S, f) /\ Rebuffered(s, p, b, S)
<1>1. /\ s \in Spans /\ s # None /\ b \in Spans \cup {None}
      /\ buffer \in [Spans \cup {Tx} -> Spans \cup {None}]
  BY SpanNumbers, SpansFinite DEF SInv, Inv, Records, Begun
<1>2. Replaced(b) = {b} \ {None} /\ Replaced(b) \subseteq Spans
  BY <1>1 DEF Replaced
<1>3. ASSUME Real(p), NEW S \in SUBSET Spans, S \subseteq {s, b}, NEW f \in Reports(S)
      PROVE  f \in [S -> Fates] /\ Told(s, p, b, S, f)
  BY <1>3, ReportsDo DEF Told
<1>4. CASE ~Real(p)
  <2> DEFINE f == [x \in {s} |-> "lost"]
  <2>1. Settle(c, f) /\ UNCHANGED buffer
    BY <1>4 DEF ChildEnded
  <2>2. f \in [{s} -> Fates] /\ f[s] = "lost"
    BY DEF Fates
  <2> HIDE DEF f
  <2>3. {s} \in SUBSET Spans /\ Told(s, p, b, {s}, f) /\ Rebuffered(s, p, b, {s})
    BY <1>1, <1>4, <2>1, <2>2 DEF Told, Rebuffered
  <2> QED
    BY <2>1, <2>2, <2>3
<1>5. CASE Real(p) /\ ~Eligible(s)
  <2> DEFINE S == Replaced(b) \cup {s}
  <2>1. PICK f \in Reports(S) : Settle(c, f)
    BY <1>5 DEF ChildEnded
  <2>2. buffer' = [buffer EXCEPT ![p] = None]
    BY <1>5 DEF ChildEnded
  <2>3. S \in SUBSET Spans /\ S = {s, b} \ {None}
    BY <1>1, <1>2
  <2> HIDE DEF S
  <2>4. f \in [S -> Fates] /\ Told(s, p, b, S, f)
    BY <1>3, <1>5, <2>1, <2>3
  <2>5. Rebuffered(s, p, b, S)
    BY <1>1, <1>5, <2>2, <2>3 DEF Rebuffered
  <2> QED
    BY <2>1, <2>3, <2>4, <2>5
<1>6. CASE Real(p) /\ Eligible(s)
  <2> DEFINE S == Replaced(b)
             g == [x \in {s} |-> "merged"]
  <2>1. \/ /\ \E f \in Reports(S) : Settle(c, f)
           /\ buffer' = [buffer EXCEPT ![p] = s]
        \/ b # None /\ Settle(c, g) /\ UNCHANGED buffer
    BY <1>6 DEF ChildEnded
  <2>2. CASE b # None /\ Settle(c, g) /\ UNCHANGED buffer
    <3>1. g \in [{s} -> Fates] /\ g[s] = "merged"
      BY DEF Fates
    <3> HIDE DEF g
    <3>2. {s} \in SUBSET Spans /\ Told(s, p, b, {s}, g) /\ Rebuffered(s, p, b, {s})
      BY <1>1, <1>6, <2>2, <3>1 DEF Told, Rebuffered
    <3> QED
      BY <2>2, <3>1, <3>2
  <2>3. CASE /\ \E f \in Reports(S) : Settle(c, f)
             /\ buffer' = [buffer EXCEPT ![p] = s]
    <3>1. PICK f \in Reports(S) : Settle(c, f)
      BY <2>3
    <3>2. S \in SUBSET Spans /\ S = {b} \ {None}
      BY <1>1, <1>2
    <3> HIDE DEF S
    <3>3. f \in [S -> Fates] /\ Told(s, p, b, S, f)
      BY <1>3, <1>6, <3>1, <3>2
    <3>4. Rebuffered(s, p, b, S)
      BY <1>1, <1>6, <2>3, <3>2 DEF Rebuffered
    <3> QED
      BY <3>1, <3>2, <3>3, <3>4
  <2> QED
    BY <2>1, <2>2, <2>3
<1> QED
  BY <1>4, <1>5, <1>6

\* A real span is over: its parent is told.
LEMMA ToParentSettles ==
  ASSUME SInv, NEW c \in Contexts, ToParent(c),
         NEW s, s = op[c].of, NEW p, p = span[s].parent, NEW b, b = buffer[p]
  PROVE  Settling'
<1>1. /\ Types /\ Records /\ Settling /\ Begun' = Begun /\ op \in [Contexts -> Op]
      /\ Begun \subseteq Spans /\ op[c].at = "parent"
  BY SpanNumbers DEF SInv, Inv, Types, Begun, ToParent
<1>2. /\ s # Tx /\ s \in Begun /\ s \in Spans /\ Real(s)
      /\ span[s].state = "ending" /\ span[s].owner = c
  <2>1. s # Tx
    BY <1>1, Ending DEF InCall
  <2> QED
    BY <1>1, <2>1, Ending DEF InCall, StateOf
<1>3. p \in Spans \cup {Tx} /\ p # s /\ s # None /\ s \in Nat
  <2>1. p \in (1 .. s - 1) \cup {Tx} /\ span[s] \in SpanRecord
    BY <1>1, <1>2 DEF Settling, Shape, Types
  <2>2. s \in Nat /\ s # None
    BY <1>2, SpansFinite DEF Begun
  <2>3. p \in Spans \cup {Tx}
    BY <2>1 DEF SpanRecord
  <2> QED
    BY <1>2, <2>1, <2>2, <2>3
<1>4. ASSUME b # None
      PROVE  /\ b \in Begun /\ b \in Spans /\ Real(b) /\ Eligible(b)
             /\ span[b].parent = p /\ span[b].state = "ended" /\ b # s
  BY <1>1, <1>2, <1>3, <1>4 DEF Settling, Waits
<1>5. PICK S \in SUBSET Spans : \E f \in [S -> Fates] :
        Settle(c, f) /\ Told(s, p, b, S, f) /\ Rebuffered(s, p, b, S)
  <2>1. ChildEnded(c, s, p)
    BY DEF ToParent
  <2> QED
    BY <1>2, <1>3, <2>1, ChildEndedDoes
<1>6. PICK f \in [S -> Fates] :
        Settle(c, f) /\ Told(s, p, b, S, f) /\ Rebuffered(s, p, b, S)
  BY <1>5
<1>7. /\ \A x \in S : fate'[x] = Append(fate[x], f[x])
      /\ \A x \in Spans \ S : fate'[x] = fate[x]
  BY <1>1, <1>6, SettleDoes
<1>8. \A x \in S : /\ fate[x] \in Seq(Fates) /\ fate'[x] # <<>>
                   /\ Len(fate'[x]) = Len(fate[x]) + 1
                   /\ Range(fate'[x]) = Range(fate[x]) \cup {f[x]}
  <2> SUFFICES ASSUME NEW x \in S
               PROVE  /\ fate[x] \in Seq(Fates) /\ fate'[x] # <<>>
                      /\ Len(fate'[x]) = Len(fate[x]) + 1
                      /\ Range(fate'[x]) = Range(fate[x]) \cup {f[x]}
    OBVIOUS
  <2>1. fate[x] \in Seq(Fates) /\ f[x] \in Fates
    BY <1>1 DEF Records
  <2> QED
    BY <1>7, <2>1, OneMore
<1>9. /\ \A x \in Spans \ {s} : span'[x] = span[x]
      /\ span'[s].state = "ended" /\ span'[s].kind = span[s].kind
      /\ span'[s].class = span[s].class /\ span'[s].leaf = span[s].leaf
      /\ span'[s].parent = p
  <2>1. span' = [span EXCEPT ![s].state = "ended"] /\ span \in [Spans -> SpanRecord]
    BY <1>1 DEF ToParent, Types
  <2>2. /\ \A x \in Spans \ {s} : span'[x] = span[x]
        /\ span'[s] = [span[s] EXCEPT !.state = "ended"] /\ span[s] \in SpanRecord
    BY <1>2, <2>1
  <2>3. /\ span'[s].state = "ended" /\ span'[s].kind = span[s].kind
        /\ span'[s].class = span[s].class /\ span'[s].leaf = span[s].leaf
        /\ span'[s].parent = span[s].parent
    BY <2>2 DEF SpanRecord
  <2> QED
    BY <1>2, <2>2, <2>3
<1>10. /\ op'[c] = Idle /\ \A d \in Contexts \ {c} : op'[d] = op[d] /\ stack'[d] = stack[d]
       /\ begun' = begun /\ tx' = tx
  <2>1. stack \in [Contexts -> Seq(Nat)]
    BY <1>1 DEF Types
  <2> QED
    BY <1>1, <2>1 DEF ToParent, Pop, Unset
<1>11. late \subseteq late' /\ (p \notin late' => StateOf(p) = "open")
  BY DEF ToParent, StateOf
<1>12. fate[s] = <<>>
  BY <1>1, <1>2 DEF Settling, Destiny
<1>13. /\ \A q \in Spans \cup {Tx} : Real(q)' <=> Real(q)
       /\ \A q \in Spans : (Eligible(q)' <=> Eligible(q)) /\ (Discardable(q)' <=> Discardable(q))
       /\ \A q \in Spans : span'[q].parent = span[q].parent
  BY <1>9 DEF Real, Eligible, Discardable
<1>14. \A q : Clearing(q)' <=> Clearing(q)
  BY <1>1, <1>10, ClearingStays DEF Idle, At
<1>15. ASSUME NEW d \in Contexts
       PROVE  Calls(d)'
  <2>1. CASE d = c
    BY <1>10, <2>1 DEF Calls, Idle, At, InCall
  <2>2. CASE d # c
    BY <1>1, <1>2, <1>9, <1>10, <2>2, OthersCall
  <2> QED
    BY <2>1, <2>2
<1>16. ASSUME NEW q \in Spans \cup {Tx}
       PROVE  Waits(q)'
  <2>1. Waits(q)
    BY <1>1 DEF Settling
  <2>2. CASE q = p
    <3>1. buffer'[p] \in {None, s, b} /\ (buffer'[p] = s => Eligible(s))
      BY <1>3, <1>4, <1>6 DEF Rebuffered
    <3>2. CASE buffer'[p] = s
      BY <1>1, <1>2, <1>9, <1>13, <2>2, <3>1, <3>2 DEF Waits
    <3>3. CASE buffer'[p] = b
      BY <1>1, <1>4, <1>9, <1>13, <2>2, <3>3 DEF Waits
    <3> QED
      BY <2>2, <3>1, <3>2, <3>3 DEF Waits
  <2>3. CASE q # p
    <3>1. buffer'[q] = buffer[q] /\ (buffer[q] # None => buffer[q] # s)
      BY <1>2, <1>6, <2>1, <2>3 DEF Waits, Rebuffered
    <3> QED
      BY <1>1, <1>9, <1>13, <2>1, <3>1 DEF Waits
  <2> QED
    BY <2>2, <2>3
<1>17. ASSUME NEW r \in Begun
       PROVE  Shape(r)' /\ Destiny(r)'
  <2>1. Shape(r) /\ Destiny(r) /\ r \in Spans
    BY <1>1 DEF Settling
  <2>2. /\ (Real(r)' <=> Real(r)) /\ (Eligible(r)' <=> Eligible(r))
        /\ (Discardable(r)' <=> Discardable(r))
        /\ span'[r].parent = span[r].parent /\ span[r].parent \in Spans \cup {Tx}
    <3>1. span[r] \in SpanRecord
      BY <1>1, <2>1 DEF Types
    <3> QED
      BY <1>13, <2>1, <3>1 DEF SpanRecord
  <2>3. Real(span[r].parent)' <=> Real(span[r].parent)
    BY <1>13, <2>2 DEF Real
  <2>4. Shape(r)'
    <3>1. /\ span'[r].kind = span[r].kind /\ span'[r].leaf = span[r].leaf
          /\ span'[r].class = span[r].class
          /\ span[r].parent # Tx =>
               span'[span[r].parent].leaf = span[span[r].parent].leaf
          /\ span'[r].state \in {"open", "ending", "ended"}
      BY <1>9, <2>1, <2>2 DEF Shape
    <3> QED
      BY <2>1, <2>2, <3>1 DEF Shape
  <2>5. Destiny(r)'
    <3>1. CASE r = s /\ s \in S
      <4>1. Range(fate'[s]) = {f[s]} /\ fate'[s] # <<>>
        BY <1>8, <1>12, <3>1, NoFate
      <4>2. span[r].parent = p
        BY <3>1
      <4> QED
        BY <1>2, <1>6, <1>9, <2>2, <2>3, <3>1, <4>1, <4>2 DEF Destiny, Told
    <3>2. CASE r = s /\ s \notin S
      <4>1. fate'[s] = <<>> /\ Real(p)
        BY <1>2, <1>6, <1>7, <1>12, <3>2 DEF Rebuffered
      <4>2. span[r].parent = p
        BY <3>2
      <4> QED
        BY <2>2, <2>3, <3>2, <4>1, <4>2, NoFate DEF Destiny
    <3>3. CASE r # s /\ r \in S
      <4>1. /\ r = b /\ r # None /\ f[r] \notin {"merged", "lost"}
            /\ (f[r] = "discarded" => Discardable(r)) /\ Real(p)
        BY <1>6, <2>1, <3>3, SpansFinite DEF Told
      <4>2. /\ Range(fate'[r]) = Range(fate[r]) \cup {f[r]} /\ fate'[r] # <<>>
            /\ Real(r) /\ span'[r].state = "ended" /\ span[r].parent = p
        BY <1>4, <1>8, <1>9, <2>1, <3>3, <4>1
      <4>3. span'[r].state = span[r].state
        BY <1>9, <2>1, <3>3
      <4> QED
        BY <2>1, <2>2, <2>3, <4>1, <4>2, <4>3 DEF Destiny
    <3>4. CASE r # s /\ r \notin S
      <4>1. fate'[r] = fate[r] /\ span'[r] = span[r]
        BY <1>7, <1>9, <2>1, <3>4
      <4> QED
        BY <2>1, <2>2, <2>3, <4>1 DEF Destiny
    <3> QED
      BY <3>1, <3>2, <3>3, <3>4
  <2> QED
    BY <2>4, <2>5
<1>18. ASSUME NEW r \in Spans \ Begun
       PROVE  Fresh(r)'
  <2>1. r \notin S /\ r # s /\ Fresh(r)
    BY <1>1, <1>2, <1>4, <1>6, SpansFinite DEF Settling, Told
  <2>2. r # p
    <3>1. p \in Begun \cup {Tx}
      <4>1. s \in 1 .. begun /\ p \in (1 .. s - 1) \cup {Tx} /\ begun \in Nat
        BY <1>1, <1>2, SpanNumbers DEF Settling, Shape, Begun
      <4> QED
        BY <4>1 DEF Begun
    <3> QED
      BY <3>1, SpansFinite
  <2>3. fate'[r] = fate[r] /\ span'[r] = span[r] /\ buffer'[r] = buffer[r]
    BY <1>6, <1>7, <1>9, <2>1, <2>2 DEF Rebuffered
  <2> QED
    BY <2>1, <2>3 DEF Fresh
<1>19. ASSUME NEW q \in Spans \cup {Tx}
       PROVE  Neat(q)'
  <2> SUFFICES ASSUME q \notin late', Real(q)
               PROVE  /\ \A r \in Begun : Real(r) /\ span[r].parent = q => NeatChild(q, r)'
                      /\ \A d \in Contexts : op'[d].of = q => NeatCall(q, d)'
                      /\ StateOf(q)' = "ended" => buffer'[q] = None
    BY <1>1, <1>13 DEF Neat
  <2>1. Neat(q) /\ q \notin late
    BY <1>1, <1>11 DEF Settling
  <2>2. \A d \in Contexts : op'[d].of = q => d # c /\ op'[d] = op[d] /\ NeatCall(q, d)
    BY <1>10, <2>1, SpansFinite DEF Idle, At, Neat
  <2>3. CASE q = p
    <3>1. StateOf(p) = "open" /\ ~Clearing(p)
          /\ \A d \in Contexts : op[d].of = p => op[d].at \notin InCall \cup {"queue"}
      <4>1. StateOf(p) = "open"
        BY <1>11, <2>3
      <4>2. \A d \in Contexts : op[d].of = p => op[d].at \notin InCall \cup {"queue"}
        BY <4>1, Ending
      <4> QED
        BY <4>1, <4>2 DEF Clearing, InCall
    <3>2. ASSUME NEW r \in Begun, Real(r), span[r].parent = q
          PROVE  NeatChild(q, r)'
      <4>1. NeatChild(p, r) /\ r \in Spans /\ r # None
        BY <1>1, <2>1, <2>3, <3>2, SpansFinite DEF Neat
      <4>2. CASE r = s /\ s \in S
        <5>1. Len(fate'[s]) = 1 /\ fate'[s] # <<>>
          <6>1. Len(fate'[s]) = Len(fate[s]) + 1 /\ fate'[s] # <<>>
            BY <1>8, <4>2
          <6> QED
            BY <1>12, <6>1, NoFate
        <5>2. buffer'[p] # s
          BY <1>3, <1>4, <1>6, <4>2, <2>3 DEF Rebuffered
        <5> QED
          BY <2>3, <4>2, <5>1, <5>2 DEF NeatChild
      <4>3. CASE r = s /\ s \notin S
        <5>1. fate'[r] = <<>> /\ buffer'[p] = s
          BY <1>2, <1>4, <1>6, <1>7, <1>12, <4>3, <2>3 DEF Rebuffered
        <5> QED
          BY <2>3, <4>3, <5>1, NoFate DEF NeatChild
      <4>4. CASE r # s /\ r = b
        <5>1. fate[r] = <<>>
          BY <3>1, <4>1, <4>4 DEF NeatChild
        <5>2. CASE r \in S
          <6>1. Len(fate'[r]) = 1 /\ fate'[r] # <<>>
            <7>1. Len(fate'[r]) = Len(fate[r]) + 1 /\ fate'[r] # <<>>
              BY <1>8, <5>2
            <7> QED
              BY <5>1, <7>1, NoFate
          <6>2. buffer'[p] # r
            BY <1>6, <2>3, <4>1, <4>4, <5>2 DEF Rebuffered
          <6> QED
            BY <2>3, <6>1, <6>2 DEF NeatChild
        <5>3. CASE r \notin S
          <6>1. fate'[r] = <<>> /\ buffer'[p] = r
            BY <1>6, <1>7, <2>3, <4>1, <4>4, <5>1, <5>3 DEF Rebuffered
          <6> QED
            BY <2>3, <6>1, NoFate DEF NeatChild
        <5> QED
          BY <5>2, <5>3
      <4>5. CASE r # s /\ r # b
        <5>1. fate'[r] = fate[r] /\ span'[r] = span[r] /\ buffer'[p] # r
          BY <1>6, <1>7, <1>9, <4>1, <4>5 DEF Rebuffered, Told
        <5>2. Len(fate[r]) <= 1 /\ ~(span[r].state = "ended" /\ fate[r] = <<>>)
          BY <4>1, <4>5 DEF NeatChild
        <5> QED
          BY <2>3, <5>1, <5>2 DEF NeatChild
      <4> QED
        BY <4>2, <4>3, <4>4, <4>5
    <3>3. ASSUME NEW d \in Contexts, op'[d].of = q
          PROVE  NeatCall(q, d)'
      BY <2>2, <2>3, <3>1, <3>3 DEF NeatCall, InCall
    <3>4. StateOf(q)' = "open"
      BY <1>3, <1>9, <1>10, <2>3, <3>1 DEF StateOf
    <3> QED
      BY <3>2, <3>3, <3>4
  <2>4. CASE q # p
    <3>1. buffer'[q] = buffer[q]
      BY <1>6, <2>4 DEF Rebuffered
    <3>2. ASSUME NEW r \in Begun, Real(r), span[r].parent = q
          PROVE  NeatChild(q, r)'
      <4>1. r # s /\ r # b /\ NeatChild(q, r) /\ r \in Spans
        BY <1>1, <1>4, <2>1, <2>4, <3>2, SpansFinite DEF Neat
      <4>2. fate'[r] = fate[r] /\ span'[r] = span[r]
        BY <1>6, <1>7, <1>9, <4>1 DEF Told
      <4> QED
        BY <1>14, <3>1, <4>1, <4>2 DEF NeatChild
    <3>3. ASSUME NEW d \in Contexts, op'[d].of = q
          PROVE  NeatCall(q, d)'
      <4>1. buffer[q] # None /\ fate[buffer[q]] # <<>> => fate'[buffer[q]] # <<>>
        <5>1. buffer[q] \in Spans \cup {None}
          BY <1>1 DEF Records
        <5> QED
          BY <1>7, <1>8, <5>1
      <4> QED
        BY <2>2, <3>1, <3>3, <4>1 DEF NeatCall
    <3>4. StateOf(q)' = "ended" => buffer'[q] = None
      <4>1. CASE q = s
        BY <1>1, <2>1, <3>1, <4>1 DEF Neat, NeatCall
      <4>2. CASE q # s
        BY <1>9, <1>10, <2>1, <3>1, <4>2 DEF Neat, StateOf
      <4> QED
        BY <4>1, <4>2
    <3> QED
      BY <3>2, <3>3, <3>4
  <2> QED
    BY <2>3, <2>4
<1> QED
  BY <1>1, <1>15, <1>16, <1>17, <1>18, <1>19 DEF Settling

\* The types of what the steps count, buffer and settle.
LEMMA StepRecords ==
  ASSUME SInv, NEW c \in Contexts, Flush(c) \/ ToParent(c)
  PROVE  /\ fate' \in [Spans -> Seq(Fates)] /\ counter' \in Int /\ dropped' \in Nat
         /\ buffer' \in [Spans \cup {Tx} -> Spans \cup {None}]
         /\ late' \in SUBSET (Spans \cup {Tx})
<1>1. /\ Types /\ Records /\ Settling /\ Begun \subseteq Spans
      /\ buffer \in [Spans \cup {Tx} -> Spans \cup {None}]
  BY SpanNumbers DEF SInv, Inv, Begun, Records
<1>2. CASE Flush(c)
  <2> DEFINE b == buffer[op[c].of]
  <2>1. b \in Spans /\ buffer' = buffer /\ late' = late
    <3>1. op[c].of \in Spans \cup {Tx} /\ b # None
      BY <1>1, <1>2, Ending DEF Flush, InCall
    <3> QED
      BY <1>1, <1>2, <3>1 DEF Flush
  <2>2. PICK f \in Reports({b}) : Settle(c, f)
    BY <1>2 DEF Flush
  <2> HIDE DEF b
  <2>3. {b} \in SUBSET Spans
    BY <2>1
  <2>4. f \in [{b} -> Fates]
    BY <2>2, <2>3, ReportsDo
  <2> QED
    BY <1>1, <2>1, <2>2, <2>3, <2>4, SettleDoes DEF Records
<1>3. CASE ToParent(c)
  <2> DEFINE s == op[c].of
             p == span[s].parent
  <2>1. s \in Begun /\ s \in Spans
    BY <1>3, Ending DEF ToParent, InCall
  <2>2. p \in Spans \cup {Tx}
    <3>1. span[s] \in SpanRecord
      BY <1>1, <2>1 DEF Types
    <3> QED
      BY <3>1 DEF SpanRecord
  <2>3. ChildEnded(c, s, p) /\ (late' = late \/ late' = late \cup {p})
    BY <1>3 DEF ToParent
  <2> HIDE DEF s, p
  <2>4. PICK S \in SUBSET Spans : \E f \in [S -> Fates] :
          Settle(c, f) /\ Told(s, p, buffer[p], S, f) /\ Rebuffered(s, p, buffer[p], S)
    BY <2>1, <2>2, <2>3, ChildEndedDoes
  <2>5. PICK f \in [S -> Fates] : Settle(c, f)
    BY <2>4
  <2>6. \/ buffer' = buffer
        \/ buffer' = [buffer EXCEPT ![p] = None]
        \/ buffer' = [buffer EXCEPT ![p] = s]
    BY <2>3 DEF ChildEnded
  <2>7. buffer' \in [Spans \cup {Tx} -> Spans \cup {None}]
    BY <1>1, <2>1, <2>2, <2>6
  <2>8. late' \in SUBSET (Spans \cup {Tx})
    BY <1>1, <2>2, <2>3 DEF Records
  <2>9. fate' \in [Spans -> Seq(Fates)] /\ counter' \in Int /\ dropped' \in Nat
    BY <1>1, <2>5, SettleDoes
  <2> QED
    BY <2>7, <2>8, <2>9
<1> QED
  BY <1>2, <1>3

LEMMA NextSettling == SInv /\ [Next]_vars => SInv'
<1> SUFFICES ASSUME SInv, [Next]_vars
             PROVE  SInv'
  OBVIOUS
<1>1. Inv' /\ Types /\ Records /\ Settling
  BY NextInv DEF SInv, Inv
<1>2. CASE UNCHANGED vars
  <2>1. Records'
    BY <1>1, <1>2 DEF Records, vars, config
  <2>2. /\ \A c \in Contexts : Calls(c)'
        /\ \A p \in Spans \cup {Tx} : Neat(p)'
        /\ UNCHANGED <<begun, span, buffer, fate, late>>
    <3>1. UNCHANGED <<begun, span, buffer, fate, late, op, stack, tx>> /\ Begun' = Begun
      BY <1>2 DEF vars, Begun
    <3>2. \A c \in Contexts : Calls(c)'
      BY <1>1, <3>1 DEF Settling, Calls, Real, StateOf, UnderLeaf
    <3>3. \A p \in Spans \cup {Tx} : Neat(p)'
      BY <1>1, <3>1
      DEF Settling, Neat, NeatChild, NeatCall, Clearing, StateOf, Real
    <3> QED
      BY <3>1, <3>2, <3>3
  <2>3. Settling'
    BY <2>2, QuietStep
  <2> QED
    BY <1>1, <2>1, <2>3 DEF SInv
<1> SUFFICES ASSUME Next
             PROVE  Records' /\ Settling'
  BY <1>1, <1>2 DEF SInv
<1>3. PICK c \in Contexts :
        \/ \E d \in Contexts : Spawn(c, d)
        \/ BeginUnderLeaf(c)
        \/ BeginOverLimit(c)
        \/ \E leaf \in BOOLEAN : BeginCheck(c, leaf)
        \/ Create(c)
        \/ \E s \in Spans : EndDropped(c, s)
        \/ \E s \in Spans, k \in Classes(TRUE) : End(c, s, k)
        \/ EndTransaction(c)
        \/ Flush(c)
        \/ FlushRaises(c)
        \/ ClearBuffer(c)
        \/ ToParent(c)
        \/ QueueTransaction(c)
        \/ IgnoreTransaction(c)
  BY DEF Next
<1>4. op \in [Contexts -> Op] /\ Idle.at = "idle" /\ (op[c] = Idle => op = [op EXCEPT ![c] = Idle])
  BY <1>1 DEF Types, Idle, At
<1>5. /\ preemptive' = preemptive /\ limit' = limit
      /\ tx' \in {"open", "ending", "ended"}
  BY <1>1, <1>3
  DEF Records, config, Spawn, BeginUnderLeaf, BeginOverLimit, BeginCheck, Create,
      EndDropped, End, EndTransaction, Flush, FlushRaises, ClearBuffer, ToParent,
      QueueTransaction, IgnoreTransaction
<1>6. ASSUME BeginUnderLeaf(c) \/ BeginOverLimit(c)
      PROVE  Records' /\ Settling'
  <2>1. /\ op[c].at \in {"idle", "create"} /\ op' = [op EXCEPT ![c] = Idle]
        /\ UNCHANGED <<tx, buffer, fate, late, counter>>
    BY <1>4, <1>6 DEF BeginUnderLeaf, BeginOverLimit, Ready
  <2>2. PICK leaf \in BOOLEAN : Activate(c, Span("dropped", Parent(c), leaf, c))
    BY <1>6 DEF BeginUnderLeaf, BeginOverLimit
  <2>3. Settling'
    BY <2>1, <2>2, BeginSettles
  <2>4. dropped' \in Nat
    <3>1. dropped \in Nat /\ dropped \in Int
      BY <1>1 DEF Records
    <3>2. dropped' = dropped \/ dropped' \in Plus(c, dropped, 1)
      BY <1>6 DEF BeginUnderLeaf, BeginOverLimit
    <3> QED
      BY <3>1, <3>2, PlusType
  <2> QED
    BY <1>1, <1>5, <2>1, <2>3, <2>4 DEF Records
<1>7. ASSUME Create(c)
      PROVE  Records' /\ Settling'
  <2>1. /\ op[c].at = "create" /\ op' = [op EXCEPT ![c] = Idle]
        /\ UNCHANGED <<tx, buffer, fate, late, dropped>>
        /\ op[c].leaf \in BOOLEAN
        /\ Activate(c, Span("real", Parent(c), op[c].leaf, c))
    BY <1>4, <1>7 DEF Create, Op
  <2>2. ~UnderLeaf(c)
    BY <1>1, <2>1 DEF Settling, Calls
  <2>3. Settling'
    BY <2>1, <2>2, BeginSettles
  <2>4. counter' \in Int
    BY <1>1, <1>7, PlusType DEF Create, Records
  <2> QED
    BY <1>1, <1>5, <2>1, <2>3, <2>4 DEF Records
<1>8. ASSUME NEW s \in Spans, EndDropped(c, s)
      PROVE  Records' /\ Settling'
  <2>1. /\ UNCHANGED <<begun, tx, buffer, fate, late, counter, dropped, op>>
        /\ op[c] = Idle /\ Ends(c, s) /\ ~Real(s)
    BY <1>8 DEF EndDropped, Ready
  <2>2. s \in Begun /\ s \in Spans /\ span[s].state \in {"open", "ending"} /\ span[s].owner = c
    BY <2>1, ReadyOpen
  <2>3. /\ \A r \in Spans \ {s} : span'[r] = span[r]
        /\ span'[s].kind = span[s].kind /\ span'[s].leaf = span[s].leaf
        /\ span'[s].parent = span[s].parent /\ span'[s].class = span[s].class
        /\ span'[s].state = "ended"
        /\ \A d \in Contexts \ {c} : stack'[d] = stack[d]
    BY <1>1, <1>8 DEF EndDropped, Unset, Types, SpanRecord
  <2>4. span[s].class \in Classes(span[s].leaf)
    BY <1>1, <2>2 DEF Settling, Shape
  <2>5. Settling'
    BY <2>1, <2>2, <2>3, <2>4, LeavesOpen
  <2> QED
    BY <1>1, <1>5, <2>1, <2>5 DEF Records
<1>9. ASSUME NEW s \in Spans, NEW k \in Classes(TRUE), End(c, s, k)
      PROVE  Records' /\ Settling'
  <2>1. /\ UNCHANGED <<begun, tx, buffer, fate, late, counter, dropped, stack>>
        /\ op[c] = Idle /\ Ends(c, s) /\ Real(s)
        /\ op'[c] = AfterEnd(s, "parent")
        /\ \A d \in Contexts \ {c} : op'[d] = op[d]
        /\ k \in Classes(span[s].leaf)
    BY <1>4, <1>9 DEF End, Ready
  <2>2. s \in Begun /\ s \in Spans /\ span[s].state \in {"open", "ending"} /\ span[s].owner = c
    BY <2>1, ReadyOpen
  <2>3. /\ \A r \in Spans \ {s} : span'[r] = span[r]
        /\ span'[s].kind = span[s].kind /\ span'[s].leaf = span[s].leaf
        /\ span'[s].parent = span[s].parent /\ span'[s].class = k
        /\ span'[s].state = "ending"
    BY <1>1, <1>9 DEF End, Types, SpanRecord
  <2>4. Settling'
    BY <2>1, <2>2, <2>3, LeavesOpen
  <2> QED
    BY <1>1, <1>5, <2>1, <2>4 DEF Records
<1>10. ASSUME NEW d \in Contexts, Spawn(c, d)
       PROVE  Records' /\ Settling'
  BY <1>1, <1>5, <1>10, SpawnSettles DEF Records, Spawn
<1>11. ASSUME \/ \E leaf \in BOOLEAN : BeginCheck(c, leaf)
              \/ FlushRaises(c)
              \/ EndTransaction(c)
              \/ QueueTransaction(c)
              \/ IgnoreTransaction(c)
       PROVE  Records' /\ Settling'
  <2>1. UNCHANGED <<buffer, fate, late, counter, dropped>>
    BY <1>11 DEF BeginCheck, FlushRaises, EndTransaction, QueueTransaction, IgnoreTransaction
  <2> QED
    BY <1>1, <1>5, <1>11, <2>1, CallsSettle DEF Records
<1>12. ASSUME ClearBuffer(c)
       PROVE  Records' /\ Settling'
  BY <1>1, <1>5, <1>12, ClearSettles DEF Records, ClearBuffer
<1>13. ASSUME Flush(c)
       PROVE  Records' /\ Settling'
  BY <1>1, <1>5, <1>13, FlushSettles, StepRecords DEF Records
<1>14. ASSUME ToParent(c)
       PROVE  Records' /\ Settling'
  BY <1>1, <1>5, <1>14, ToParentSettles, StepRecords DEF Records
<1> QED
  BY <1>3, <1>6, <1>7, <1>8, <1>9, <1>10, <1>11, <1>12, <1>13, <1>14

LEMMA SettlingAlways == Spec => []SInv
<1>1. Init => SInv
  BY InitInv, InitSettling DEF SInv
<1> QED
  BY <1>1, NextSettling, PTL DEF Spec

-----------------------------------------------------------------------------
(***************************************************************************)
(* The theorems that hold for tasks and for threads.                       *)
(***************************************************************************)
\* Every variable of a transaction and its spans has its type, however the
\* threads overwrite each other's counts: in particular dropped_spans is never
\* negative.
THEOREM TypesAreKept == Spec => []TypeOK
<1>1. SInv => TypeOK
  <2> SUFFICES ASSUME SInv
               PROVE  TypeOK
    OBVIOUS
  <2>1. Types /\ Records
    BY DEF SInv, Inv
  <2>2. \A c \in Contexts : Range(stack[c]) \subseteq 1 .. begun
    BY <2>1 DEF Types, Ascending, Range
  <2>3. \A c \in Contexts :
          /\ op[c].at \in {"idle", "create", "flush", "clear", "parent", "queue"}
          /\ op[c].of \in Spans \cup {Tx, None}
    BY <2>1 DEF Types, Op, InCall
  <2>4. \A s \in Spans : Range(fate[s]) \subseteq Fates
    <3> SUFFICES ASSUME NEW s \in Spans
                 PROVE  Range(fate[s]) \subseteq Fates
      OBVIOUS
    <3>1. fate[s] \in Seq(Fates)
      BY <2>1 DEF Records
    <3> QED
      BY <3>1 DEF Range
  <2>5. span \in [Spans ->
          [kind : {"none", "real", "dropped"}, parent : Spans \cup {Tx},
           leaf : BOOLEAN, owner : Contexts, class : Classes(TRUE),
           state : {"none", "open", "ending", "ended"}]]
    <3>1. Classes(TRUE) = {"plain", "cancelled", "exit", "cancelled exit"}
      BY DEF Classes
    <3> QED
      BY <2>1, <3>1 DEF Types, SpanRecord
  <2> QED
    BY <2>1, <2>2, <2>3, <2>4, <2>5 DEF TypeOK, Types, Records
<1> QED
  BY <1>1, SettlingAlways, PTL

\* A span is settled once: it is never lost from the buffer of its parent nor
\* reported again by the flush of a parent and a sibling, in whatever order the
\* contexts end spans, as long as the parent ends after its children.
THEOREM SpansSettleOnce == Spec => []SettledOnce
<1>1. SInv => SettledOnce
  <2> SUFFICES ASSUME SInv, NEW p \in Spans \cup {Tx}, p \notin late, Real(p)
               PROVE  /\ \A s \in Begun :
                           Real(s) /\ span[s].parent = p =>
                             /\ span[s].state # "ended" => fate[s] = <<>>
                             /\ span[s].state = "ended" /\ fate[s] = <<>> => buffer[p] = s
                             /\ fate[s] # <<>> =>
                                  /\ Len(fate[s]) = 1
                                  /\ buffer[p] = s =>
                                       \E c \in Contexts : op[c] = At("clear", p, FALSE)
                      /\ StateOf(p) = "ended" => buffer[p] = None
    BY DEF SettledOnce
  <2>1. Neat(p) /\ op \in [Contexts -> Op] /\ Begun \subseteq Spans
    BY SpanNumbers DEF SInv, Settling, Inv, Types, Begun
  <2>2. ASSUME NEW s \in Begun, Real(s), span[s].parent = p
        PROVE  /\ span[s].state # "ended" => fate[s] = <<>>
               /\ span[s].state = "ended" /\ fate[s] = <<>> => buffer[p] = s
               /\ fate[s] # <<>> =>
                    /\ Len(fate[s]) = 1
                    /\ buffer[p] = s =>
                         \E c \in Contexts : op[c] = At("clear", p, FALSE)
    <3>1. NeatChild(p, s) /\ fate[s] \in Seq(Fates)
      BY <2>1, <2>2 DEF Neat, SInv, Records
    <3>2. span[s].state # "ended" => fate[s] = <<>>
      BY DEF SInv, Settling, Destiny
    <3>3. fate[s] # <<>> => Len(fate[s]) = 1
      <4> DEFINE n == Len(fate[s])
      <4>1. n \in Nat /\ n <= 1 /\ (n = 0 => fate[s] = <<>>)
        BY <3>1 DEF NeatChild
      <4> HIDE DEF n
      <4>2. fate[s] # <<>> => n = 1
        BY <4>1
      <4> QED
        BY <4>2 DEF n
    <3>4. ASSUME fate[s] # <<>>, buffer[p] = s
          PROVE  \E c \in Contexts : op[c] = At("clear", p, FALSE)
      <4>1. PICK c \in Contexts : op[c].at = "clear" /\ op[c].of = p
        BY <3>1, <3>4 DEF NeatChild, Clearing
      <4>2. op[c] \in Op /\ ~op[c].leaf
        BY <2>1, <4>1 DEF SInv, Settling, Calls, InCall
      <4>3. op[c] = At("clear", p, FALSE)
        BY <4>1, <4>2 DEF Op, At
      <4> QED
        BY <4>3
    <3>5. span[s].state = "ended" /\ fate[s] = <<>> => buffer[p] = s
      BY <3>1 DEF NeatChild
    <3> QED
      BY <3>2, <3>3, <3>4, <3>5
  <2> QED
    BY <2>1, <2>2 DEF Neat
<1> QED
  BY <1>1, SettlingAlways, PTL

\* The trace is not broken: compression and exit_span_min_duration, which take
\* away only leaves, never take away the parent of a span that was sent.
THEOREM SentParentsArrive == Spec => []ParentsArrive
<1>1. SInv => ParentsArrive
  <2> SUFFICES ASSUME SInv, late = {}, NEW s \in Settled("sent"),
                      NEW p, p = span[s].parent, p # Tx, span[p].state = "ended",
                      ~BelowLimit(p)
               PROVE  p \in Settled("sent") \cup Settled("cancelled")
    BY DEF ParentsArrive
  <2>1. s \in Begun /\ "sent" \in Range(fate[s])
    BY DEF Settled
  <2>2. Shape(s) /\ Destiny(s) /\ begun \in Nat /\ fate[s] # <<>> /\ Real(s)
    BY <2>1, SpanNumbers, NoFate DEF SInv, Settling, Inv, Destiny
  <2>3. p \in Begun /\ p \in Spans /\ s \in Spans
    BY <2>1, <2>2, SpanNumbers DEF Shape, Begun, SInv, Inv
  <2>4. Shape(p) /\ Destiny(p) /\ fate[p] \in Seq(Fates)
    BY <2>3 DEF SInv, Settling, Records
  <2>5. Real(p) /\ ~span[p].leaf
    <3>1. ~span[p].leaf
      BY <2>2 DEF Shape
    <3>2. Real(p)
      BY <2>1, <2>2 DEF Destiny
    <3> QED
      BY <3>1, <3>2
  <2>6. ~Eligible(p) /\ ~Discardable(p)
    BY <2>4, <2>5 DEF Shape, Classes, Eligible, Discardable
  <2> DEFINE g == span[p].parent
  <2>7. g \in Spans \cup {Tx} /\ Real(g)
    <3>1. span[p] \in SpanRecord
      BY <2>3 DEF SInv, Inv, Types
    <3> QED
      BY <3>1 DEF SpanRecord, BelowLimit, Real
  <2>8. fate[p] # <<>>
    <3>1. Waits(g) /\ Neat(g)
      BY <2>7 DEF SInv, Settling
    <3>2. NeatChild(g, p)
      BY <2>3, <2>5, <2>7, <3>1 DEF Neat
    <3>3. buffer[g] # p
      BY <2>3, <2>6, <3>1, SpansFinite DEF Waits
    <3> QED
      BY <3>2, <3>3 DEF NeatChild
  <2>9. PICK h \in Fates : h \in Range(fate[p])
    <3>1. 1 \in DOMAIN fate[p] /\ fate[p][1] \in Fates
      BY <2>4, <2>8
    <3> QED
      BY <3>1 DEF Range
  <2>10. h \in {"sent", "cancelled"}
    BY <2>4, <2>6, <2>7, <2>9 DEF Destiny, Fates
  <2> QED
    BY <2>3, <2>9, <2>10 DEF Settled
<1> QED
  BY <1>1, SettlingAlways, PTL

-----------------------------------------------------------------------------
(***************************************************************************)
(* The counts of a transaction of tasks: at most one is in a call, so that *)
(* every span that is settled was not settled before, and counter and      *)
(* dropped are the sizes of two sets of spans.                             *)
(***************************************************************************)
Counted == {s \in Begun : Real(s) /\ Range(fate[s]) \cap Uncounted = {}}
Missed == DroppedByLimit \cup Settled("discarded")

Serial ==
  /\ \A c \in Contexts : op[c] # Idle => Alone(c)
  /\ \A s \in Spans : Len(fate[s]) <= 1
  /\ \A p \in Spans \cup {Tx} :
       buffer[p] # None /\ fate[buffer[p]] # <<>> => Clearing(p)
  /\ counter = Cardinality(Counted)
  /\ dropped = Cardinality(Missed)
  /\ limit > 0 =>
       /\ counter <= limit
       /\ \A c \in Contexts : op[c].at = "create" => counter < limit

TaskInv == SInv /\ (~preemptive => Serial)

LEMMA SetsOfSpans ==
  ASSUME SInv
  PROVE  /\ Counted \subseteq Begun /\ Missed \subseteq Begun /\ Begun \subseteq Spans
         /\ IsFiniteSet(Counted) /\ IsFiniteSet(Missed)
         /\ Cardinality(Counted) \in Nat /\ Cardinality(Missed) \in Nat
         /\ limit \in Nat
<1>1. Counted \subseteq Begun /\ Missed \subseteq Begun /\ Begun \subseteq Spans
  BY SpanNumbers DEF SInv, Inv, Counted, Missed, DroppedByLimit, Settled, Begun
<1>2. limit \in Nat
  BY TracingAssumption DEF SInv, Records
<1> QED
  BY <1>1, <1>2, SpansFinite

\* The turn passes from task to task.
LEMMA OneAtATime ==
  ASSUME NEW c \in Contexts, Alone(c), \A d \in Contexts \ {c} : op'[d] = op[d]
  PROVE  /\ Alone(c)'
         /\ \A d \in Contexts : op'[d] # Idle => d = c /\ Alone(d)'
BY DEF Alone

\* A step of a task that settles nothing.
LEMMA SerialStays ==
  ASSUME SInv, Serial, NEW c \in Contexts, Alone(c),
         \A d \in Contexts \ {c} : op'[d] = op[d],
         UNCHANGED <<begun, fate, counter, dropped, limit>>,
         \A s \in Begun : span'[s].kind = span[s].kind /\ span'[s].leaf = span[s].leaf,
         \A q \in Spans \cup {Tx} :
           /\ buffer'[q] \in {buffer[q], None}
           /\ Clearing(q) /\ buffer'[q] # None => Clearing(q)',
         op'[c].at = "create" => ~OverLimit
  PROVE  Serial'
<1>1. Counted' = Counted /\ Missed' = Missed
  <2>1. Begun' = Begun /\ Uncounted' = Uncounted
    BY DEF Begun, Uncounted
  <2>2. \A s \in Begun : Real(s)' <=> Real(s)
    BY DEF Real
  <2>3. Counted' = Counted
    BY <2>1, <2>2 DEF Counted
  <2>4. DroppedByLimit' = DroppedByLimit
    BY <2>1, <2>2 DEF DroppedByLimit
  <2>5. Settled("discarded")' = Settled("discarded")
    BY <2>1 DEF Settled
  <2> QED
    BY <2>3, <2>4, <2>5 DEF Missed
<1>2. ASSUME NEW q \in Spans \cup {Tx}, buffer'[q] # None, fate'[buffer'[q]] # <<>>
      PROVE  Clearing(q)'
  BY <1>2 DEF Serial
<1>3. limit > 0 /\ op'[c].at = "create" => counter < limit
  BY SetsOfSpans DEF OverLimit, SInv, Records
<1>4. ASSUME NEW d \in Contexts
      PROVE  /\ op'[d] # Idle => Alone(d)'
             /\ limit > 0 /\ op'[d].at = "create" => counter < limit
  <2>1. op'[d] # Idle => d = c /\ Alone(d)'
    BY OneAtATime
  <2> QED
    BY <1>3, <2>1 DEF Idle, At
<1> QED
  BY <1>1, <1>2, <1>4 DEF Serial

\* Settling spans that were not settled before.
LEMMA SettleCounts ==
  ASSUME SInv, Serial, NEW c \in Contexts, Alone(c),
         NEW S \in SUBSET Begun, NEW f \in [S -> Fates], Settle(c, f),
         \A s \in S : Real(s) /\ fate[s] = <<>>,
         begun' = begun,
         \A s \in Begun : span'[s].kind = span[s].kind /\ span'[s].leaf = span[s].leaf
  PROVE  /\ \A s \in Spans : Len(fate'[s]) <= 1
         /\ counter' = Cardinality(Counted') /\ dropped' = Cardinality(Missed')
         /\ counter' <= counter
<1> DEFINE U == {s \in S : f[s] \in Uncounted}
           D == {s \in S : f[s] = "discarded"}
<1>1. /\ S \in SUBSET Spans /\ Records
      /\ \A s \in S : fate'[s] = Append(fate[s], f[s])
      /\ \A s \in Spans \ S : fate'[s] = fate[s]
      /\ counter' = counter - Cardinality(U)
      /\ dropped' = dropped + Cardinality(D)
  <2>1. S \in SUBSET Spans /\ Records
    BY SetsOfSpans DEF SInv
  <2> QED
    BY <2>1, SettleDoes
<1>2. \A s \in S : Len(fate'[s]) = 1 /\ Range(fate'[s]) = {f[s]} /\ Range(fate[s]) = {}
  <2> SUFFICES ASSUME NEW s \in S
               PROVE  Len(fate'[s]) = 1 /\ Range(fate'[s]) = {f[s]} /\ Range(fate[s]) = {}
    OBVIOUS
  <2>1. fate[s] = <<>> /\ fate[s] \in Seq(Fates) /\ f[s] \in Fates
    BY <1>1 DEF Records
  <2>2. Len(fate'[s]) = Len(fate[s]) + 1 /\ Range(fate'[s]) = Range(fate[s]) \cup {f[s]}
    <3>1. fate'[s] = Append(fate[s], f[s])
      BY <1>1
    <3>2. /\ Len(Append(fate[s], f[s])) = Len(fate[s]) + 1
          /\ Range(Append(fate[s], f[s])) = Range(fate[s]) \cup {f[s]}
      BY <2>1, OneMore
    <3> QED
      BY <3>1, <3>2
  <2>3. Range(fate[s]) = {} /\ Len(fate[s]) = 0
    BY <2>1, NoFate
  <2> QED
    BY <2>2, <2>3
<1>3. Begun' = Begun /\ (\A s \in Begun : Real(s)' <=> Real(s)) /\ Begun \subseteq Spans
  BY SetsOfSpans DEF Begun, Real
<1>4. Counted' = Counted \ U /\ U \subseteq Counted
  <2>1. ASSUME NEW s \in S
        PROVE  Range(fate'[s]) \cap Uncounted = {} <=> s \notin U
    BY <1>2, <2>1
  <2>2. \A s \in Begun \ S : fate'[s] = fate[s] /\ s \notin U
    BY <1>1, <1>3
  <2>3. U \subseteq Counted
    BY <1>2 DEF Counted
  <2> HIDE DEF U
  <2>4. ASSUME NEW s \in Begun
        PROVE  s \in Counted' <=> s \in Counted \ U
    <3>1. CASE s \in S
      <4>1. s \in Counted
        BY <1>2, <3>1 DEF Counted
      <4> QED
        BY <1>3, <2>1, <2>4, <3>1, <4>1 DEF Counted, Uncounted
    <3>2. CASE s \notin S
      BY <1>3, <2>2, <2>4, <3>2 DEF Counted, Uncounted
    <3> QED
      BY <3>1, <3>2
  <2>5. Counted' \subseteq Begun /\ Counted \subseteq Begun
    BY <1>3 DEF Counted
  <2> QED
    BY <2>3, <2>4, <2>5
<1>5. Missed' = Missed \cup D /\ Missed \cap D = {}
  <2>1. DroppedByLimit' = DroppedByLimit /\ DroppedByLimit \cap D = {}
    BY <1>3 DEF DroppedByLimit
  <2>2. Settled("discarded") \cap D = {}
    BY <1>2 DEF Settled
  <2>3. ASSUME NEW s \in Begun
        PROVE  s \in Settled("discarded")' <=> s \in Settled("discarded") \cup D
    <3>1. CASE s \in S
      BY <1>2, <1>3, <3>1 DEF Settled
    <3>2. CASE s \notin S
      BY <1>1, <1>3, <3>2 DEF Settled
    <3> QED
      BY <3>1, <3>2
  <2>4. Settled("discarded")' = Settled("discarded") \cup D
    BY <1>3, <2>3 DEF Settled
  <2> QED
    BY <2>1, <2>2, <2>4 DEF Missed
<1>6. /\ IsFiniteSet(U) /\ Cardinality(U) \in Nat
      /\ IsFiniteSet(D) /\ Cardinality(D) \in Nat
  BY <1>1, SpansFinite
<1> HIDE DEF U, D
<1>7. Cardinality(Counted \ U) = Cardinality(Counted) - Cardinality(U)
  <2>1. Counted \cap U = U
    BY <1>4
  <2> QED
    BY <2>1, SetsOfSpans, FS_Difference
<1>8. Cardinality(Missed \cup D) = Cardinality(Missed) + Cardinality(D)
  <2>1. Cardinality(Missed \cup D) = Cardinality(Missed) + Cardinality(D) - Cardinality({})
    BY <1>5, <1>6, SetsOfSpans, FS_Union
  <2> QED
    BY <1>6, <2>1, SetsOfSpans, FS_EmptySet
<1>9. \A s \in Spans : Len(fate'[s]) <= 1
  BY <1>1, <1>2 DEF Serial
<1>10. counter' = Cardinality(Counted') /\ dropped' = Cardinality(Missed')
  BY <1>1, <1>4, <1>5, <1>7, <1>8 DEF Serial
<1>11. counter' <= counter
  BY <1>1, <1>6 DEF Records
<1> QED
  BY <1>9, <1>10, <1>11

\* A task begins a span: one that is counted, one that the limit drops, or one
\* below a leaf, which is neither.
LEMMA BeginCounts ==
  ASSUME SInv, Serial, NEW c \in Contexts, Alone(c), NEW n, n = begun + 1,
         NEW kind \in {"real", "dropped"}, NEW leaf \in BOOLEAN,
         Activate(c, Span(kind, Parent(c), leaf, c)),
         op' = [op EXCEPT ![c] = Idle], op[c].at # "clear",
         UNCHANGED <<buffer, fate, limit>>,
         kind = "real" =>
           counter' = counter + 1 /\ dropped' = dropped /\ op[c].at = "create",
         kind = "dropped" =>
           counter' = counter /\ dropped' = IF leaf THEN dropped ELSE dropped + 1
  PROVE  Serial'
<1>1. /\ n \in Spans /\ n \notin Begun /\ Begun' = Begun \cup {n}
      /\ Begun \subseteq Spans /\ n # Tx
  <2>1. begun < MaxBegun /\ MaxBegun \in Nat /\ begun' = n /\ begun \in Nat
    BY TracingAssumption, SpanNumbers DEF Activate, SInv, Inv
  <2>2. n \in Spans /\ n \notin Begun /\ Begun' = Begun \cup {n} /\ Begun \subseteq Spans
    BY <2>1 DEF Spans, Begun
  <2> QED
    BY <2>2, SpansFinite
<1>2. /\ span'[n].kind = kind /\ span'[n].leaf = leaf
      /\ \A s \in Begun : span'[s] = span[s]
  <2>1. /\ span \in [Spans -> SpanRecord]
        /\ span' = [span EXCEPT ![n] = Span(kind, Parent(c), leaf, c)]
    BY DEF Activate, SInv, Inv, Types
  <2>2. /\ Span(kind, Parent(c), leaf, c).kind = kind
        /\ Span(kind, Parent(c), leaf, c).leaf = leaf
    BY DEF Span
  <2> QED
    BY <1>1, <2>1, <2>2
<1>3. fate'[n] = <<>> /\ Range(fate'[n]) = {} /\ fate' = fate
  BY <1>1, NoFate DEF SInv, Settling, Fresh
<1>4. \A s \in Begun : Real(s)' <=> Real(s)
  BY <1>2 DEF Real
<1>5. Real(n)' <=> kind = "real"
  BY <1>1, <1>2 DEF Real
<1>6. Counted' = IF kind = "real" THEN Counted \cup {n} ELSE Counted
  BY <1>1, <1>3, <1>4, <1>5 DEF Counted, Uncounted
<1>7. DroppedByLimit' = IF kind = "dropped" /\ ~leaf THEN DroppedByLimit \cup {n}
                                                     ELSE DroppedByLimit
  BY <1>1, <1>2, <1>4, <1>5 DEF DroppedByLimit
<1>8. Settled("discarded")' = Settled("discarded")
  BY <1>1, <1>3 DEF Settled
<1>9. Missed' = IF kind = "dropped" /\ ~leaf THEN Missed \cup {n} ELSE Missed
  BY <1>7, <1>8 DEF Missed
<1>10. Cardinality(Counted \cup {n}) = Cardinality(Counted) + 1
  BY <1>1, SetsOfSpans, FS_AddElement
<1>11. Cardinality(Missed \cup {n}) = Cardinality(Missed) + 1
  BY <1>1, SetsOfSpans, FS_AddElement
<1>12. counter' = Cardinality(Counted') /\ dropped' = Cardinality(Missed')
  BY <1>6, <1>9, <1>10, <1>11 DEF Serial
<1>13. /\ \A d \in Contexts \ {c} : op'[d] = op[d]
       /\ op'[c] = Idle /\ Idle.at = "idle"
  BY DEF SInv, Inv, Types, Idle, At
<1>14. \A q : Clearing(q)' <=> Clearing(q)
  BY <1>13, ClearingStays
<1>15. limit > 0 => counter' <= limit
  BY SetsOfSpans DEF Serial, SInv, Records
<1>16. \A d \in Contexts : op'[d] = Idle
  BY <1>13, OneAtATime
<1> QED
  BY <1>3, <1>12, <1>13, <1>14, <1>15, <1>16 DEF Serial

\* The end of a span or of the transaction reports what its buffer holds.
LEMMA FlushCounts ==
  ASSUME SInv, Serial, NEW c \in Contexts, Flush(c), NEW p, p = op[c].of,
         NEW b, b = buffer[p]
  PROVE  Serial'
<1>1. /\ op[c].at = "flush" /\ p \in Spans \cup {Tx} /\ b # None /\ Alone(c)
  BY Ending, SpanNumbers
  DEF Flush, InCall, Serial, SInv, Inv, Begun, Idle, At
<1>2. /\ b \in Begun /\ Real(b) /\ span[b].parent = p /\ b \in Spans
  BY <1>1, SpanNumbers DEF SInv, Settling, Waits, Inv, Begun
<1>3. \A q : ~Clearing(q)
  BY <1>1 DEF Clearing, Alone, Idle, At
<1>4. fate[b] = <<>>
  BY <1>1, <1>3 DEF Serial
<1>5. /\ op'[c].at = "clear" /\ op'[c].of = p
      /\ \A d \in Contexts \ {c} : op'[d] = op[d]
      /\ UNCHANGED <<begun, span, buffer, limit>>
  BY DEF Flush, Op, SInv, Inv, Types, config
<1>6. PICK f \in Reports({b}) : Settle(c, f)
  BY DEF Flush
<1>7. {b} \in SUBSET Begun /\ {b} \in SUBSET Spans
  BY <1>2
<1>8. f \in [{b} -> Fates]
  BY <1>6, <1>7, ReportsDo
<1>9. /\ \A s \in Spans : Len(fate'[s]) <= 1
      /\ counter' = Cardinality(Counted') /\ dropped' = Cardinality(Missed')
      /\ counter' <= counter
  <2>1. /\ \A s \in {b} : Real(s) /\ fate[s] = <<>>
        /\ begun' = begun
        /\ \A s \in Begun : span'[s].kind = span[s].kind /\ span'[s].leaf = span[s].leaf
    BY <1>2, <1>4, <1>5
  <2> QED
    BY <1>1, <1>6, <1>7, <1>8, <2>1, SettleCounts
<1>10. \A s \in Spans : s # b => fate'[s] = fate[s]
  BY <1>6, <1>7, <1>8, SettleDoes DEF SInv
<1>11. ASSUME NEW q \in Spans \cup {Tx}, buffer'[q] # None, fate'[buffer'[q]] # <<>>
       PROVE  Clearing(q)'
  <2>1. CASE q = p
    BY <1>5, <2>1 DEF Clearing
  <2>2. CASE q # p
    <3>1. buffer[q] \in Spans /\ buffer[q] # b /\ buffer' = buffer
      BY <1>2, <1>5, <1>11, <2>2 DEF SInv, Settling, Waits, Records
    <3> QED
      BY <1>3, <1>10, <1>11, <3>1 DEF Serial
  <2> QED
    BY <2>1, <2>2
<1>12. /\ \A d \in Contexts : op'[d] # Idle => d = c /\ Alone(d)'
  BY <1>1, <1>5, OneAtATime
<1>13. limit > 0 => counter' <= limit
  <2>1. counter' \in Int /\ counter \in Int /\ limit \in Nat
    BY StepRecords, SetsOfSpans DEF SInv, Records
  <2> QED
    BY <1>9, <2>1 DEF Serial
<1>14. limit' = limit
  BY <1>5
<1>15. \A d \in Contexts : op'[d].at # "create"
  BY <1>5, <1>12 DEF Idle, At
<1> QED
  BY <1>9, <1>11, <1>12, <1>13, <1>14, <1>15 DEF Serial

\* A span that ended tells its parent.
LEMMA ToParentCounts ==
  ASSUME SInv, Serial, NEW c \in Contexts, ToParent(c), NEW s, s = op[c].of,
         NEW p, p = span[s].parent, NEW b, b = buffer[p]
  PROVE  Serial'
<1>1. /\ op[c].at = "parent" /\ Alone(c) /\ Begun \subseteq Spans
      /\ Types /\ Records /\ Settling
  BY SpanNumbers DEF ToParent, Serial, SInv, Inv, Begun, Idle, At
<1>2. /\ s \in Begun /\ s \in Spans /\ Real(s) /\ s # None /\ fate[s] = <<>>
      /\ span[s].state = "ending"
  <2>1. s \in Begun /\ s \in Spans /\ Real(s) /\ span[s].state = "ending"
    BY <1>1, Ending, SpansFinite DEF InCall, StateOf
  <2> QED
    BY <1>1, <2>1, SpansFinite DEF Settling, Destiny
<1>3. p \in Spans \cup {Tx}
  <2>1. span[s] \in SpanRecord
    BY <1>1, <1>2 DEF Types
  <2> QED
    BY <2>1 DEF SpanRecord
<1>4. \A q : ~Clearing(q)
  BY <1>1 DEF Clearing, Alone, Idle, At
<1>5. ASSUME b # None
      PROVE  /\ b \in Begun /\ b \in Spans /\ Real(b) /\ span[b].parent = p
             /\ fate[b] = <<>> /\ b # s
  <2>1. Waits(p)
    BY <1>1, <1>3 DEF Settling
  <2> QED
    BY <1>1, <1>2, <1>3, <1>4, <1>5, <2>1 DEF Waits, Serial
<1>6. /\ op'[c] = Idle /\ \A d \in Contexts \ {c} : op'[d] = op[d]
      /\ begun' = begun /\ limit' = limit
      /\ \A r \in Begun : span'[r].kind = span[r].kind /\ span'[r].leaf = span[r].leaf
  <2>1. op \in [Contexts -> Op] /\ span \in [Spans -> SpanRecord]
    BY <1>1 DEF Types
  <2> QED
    BY <1>1, <1>2, <2>1 DEF ToParent, config, SpanRecord
<1>7. PICK S \in SUBSET Spans : \E f \in [S -> Fates] :
        Settle(c, f) /\ Told(s, p, b, S, f) /\ Rebuffered(s, p, b, S)
  <2>1. ChildEnded(c, s, p)
    BY DEF ToParent
  <2> QED
    BY <1>2, <1>3, <2>1, ChildEndedDoes
<1>8. PICK f \in [S -> Fates] :
        Settle(c, f) /\ Told(s, p, b, S, f) /\ Rebuffered(s, p, b, S)
  BY <1>7
<1>9. S \in SUBSET Begun /\ \A x \in S : Real(x) /\ fate[x] = <<>>
  <2>1. \A x \in S : x \in {s, b} /\ x # None
    BY <1>8, SpansFinite DEF Told
  <2> QED
    BY <1>2, <1>5, <2>1
<1>10. /\ \A x \in Spans : Len(fate'[x]) <= 1
       /\ counter' = Cardinality(Counted') /\ dropped' = Cardinality(Missed')
       /\ counter' <= counter
  BY <1>1, <1>6, <1>8, <1>9, SettleCounts
<1>11. \A x \in Spans \ S : fate'[x] = fate[x]
  BY <1>1, <1>8, SettleDoes
<1>12. ASSUME NEW q \in Spans \cup {Tx}, buffer'[q] # None
       PROVE  fate'[buffer'[q]] = <<>>
  <2>1. CASE q # p
    <3>1. buffer'[q] = buffer[q]
      BY <1>8, <2>1 DEF Rebuffered
    <3>2. buffer[q] \in Spans /\ buffer[q] \notin {s, b}
      <4>1. /\ buffer[q] \in Spans /\ span[buffer[q]].parent = q
            /\ span[buffer[q]].state = "ended"
        BY <1>1, <1>12, <3>1 DEF Settling, Waits
      <4> QED
        BY <1>2, <1>5, <2>1, <4>1, SpansFinite
    <3>3. fate'[buffer[q]] = fate[buffer[q]]
      BY <1>8, <1>11, <3>2 DEF Told
    <3> QED
      BY <1>4, <1>12, <3>1, <3>3 DEF Serial
  <2>2. CASE q = p
    <3>1. \/ buffer'[p] = s /\ s \notin S
          \/ buffer'[p] = b /\ b \notin S /\ b # None
      BY <1>2, <1>5, <1>8, <1>12, <2>2 DEF Rebuffered
    <3> QED
      BY <1>2, <1>5, <1>11, <2>2, <3>1
  <2> QED
    BY <2>1, <2>2
<1>13. \A d \in Contexts : op'[d] = Idle
  BY <1>1, <1>6, OneAtATime
<1>14. limit > 0 => counter' <= limit
  <2>1. counter' \in Int /\ counter \in Int /\ limit \in Nat
    BY <1>1, StepRecords, SetsOfSpans DEF Records
  <2> QED
    BY <1>10, <2>1 DEF Serial
<1>15. Serial'
  BY <1>6, <1>10, <1>12, <1>13, <1>14 DEF Serial, Idle, At
<1> QED
  BY <1>15

LEMMA NextCounts == TaskInv /\ [Next]_vars => TaskInv'
<1> SUFFICES ASSUME SInv, ~preemptive, Serial, [Next]_vars
             PROVE  Serial'
  <2>1. SInv /\ [Next]_vars => SInv' /\ preemptive' = preemptive
    BY NextSettling
    DEF Next, vars, config, Spawn, BeginUnderLeaf, BeginOverLimit, BeginCheck,
        Create, EndDropped, End, EndTransaction, Flush, FlushRaises, ClearBuffer,
        ToParent, QueueTransaction, IgnoreTransaction
  <2> QED
    BY <2>1 DEF TaskInv
<1>1. Types /\ Records /\ Settling /\ Begun \subseteq Spans
  BY SpanNumbers DEF SInv, Inv, Begun
<1>2. CASE UNCHANGED vars
  <2>1. UNCHANGED <<op, begun, span, buffer, fate, counter, dropped, limit>>
    BY <1>2 DEF vars, config
  <2>2. Begun' = Begun /\ Uncounted' = Uncounted
    BY <2>1 DEF Begun, Uncounted
  <2>3. Counted' = Counted /\ DroppedByLimit' = DroppedByLimit
        /\ Settled("discarded")' = Settled("discarded")
    BY <2>1, <2>2 DEF Counted, DroppedByLimit, Settled, Real
  <2>4. Missed' = Missed
    BY <2>3 DEF Missed
  <2> QED
    BY <2>1, <2>3, <2>4 DEF Serial, Alone, Clearing
<1> SUFFICES ASSUME Next
             PROVE  Serial'
  BY <1>2
<1>3. PICK c \in Contexts :
        \/ \E d \in Contexts : Spawn(c, d)
        \/ BeginUnderLeaf(c)
        \/ BeginOverLimit(c)
        \/ \E leaf \in BOOLEAN : BeginCheck(c, leaf)
        \/ Create(c)
        \/ \E s \in Spans : EndDropped(c, s)
        \/ \E s \in Spans, k \in Classes(TRUE) : End(c, s, k)
        \/ EndTransaction(c)
        \/ Flush(c)
        \/ FlushRaises(c)
        \/ ClearBuffer(c)
        \/ ToParent(c)
        \/ QueueTransaction(c)
        \/ IgnoreTransaction(c)
  BY DEF Next
<1>4. op \in [Contexts -> Op] /\ Idle.at = "idle" /\ (op[c] = Idle => op = [op EXCEPT ![c] = Idle])
  BY <1>1 DEF Types, Idle, At
<1>5. counter \in Int /\ dropped \in Int /\ limit \in Nat
  BY <1>1, SetsOfSpans DEF Records
<1>6. /\ Alone(c) /\ counter' \in Plus(c, counter, 1) => counter' = counter + 1
      /\ Alone(c) /\ dropped' \in Plus(c, dropped, 1) => dropped' = dropped + 1
  BY <1>5, PlusType
<1>7. ASSUME BeginUnderLeaf(c)
      PROVE  Serial'
  <2>1. /\ Alone(c) /\ op' = [op EXCEPT ![c] = Idle] /\ op[c].at # "clear"
        /\ UNCHANGED <<buffer, fate, limit, counter, dropped>>
        /\ Activate(c, Span("dropped", Parent(c), TRUE, c))
    BY <1>4, <1>7 DEF BeginUnderLeaf, Ready, config
  <2> QED
    BY <2>1, BeginCounts
<1>8. ASSUME BeginOverLimit(c)
      PROVE  Serial'
  <2>1. /\ Alone(c) /\ op' = [op EXCEPT ![c] = Idle] /\ op[c].at # "clear"
        /\ UNCHANGED <<buffer, fate, limit, counter>>
        /\ dropped' \in Plus(c, dropped, 1)
        /\ Activate(c, Span("dropped", Parent(c), FALSE, c))
    BY <1>4, <1>8 DEF BeginOverLimit, Ready, config
  <2>2. dropped' = dropped + 1
    BY <1>6, <2>1
  <2> QED
    BY <2>1, <2>2, BeginCounts
<1>9. ASSUME Create(c)
      PROVE  Serial'
  <2>1. /\ op[c].at = "create" /\ op' = [op EXCEPT ![c] = Idle]
        /\ UNCHANGED <<buffer, fate, limit, dropped>>
        /\ counter' \in Plus(c, counter, 1)
        /\ op[c].leaf \in BOOLEAN
        /\ Activate(c, Span("real", Parent(c), op[c].leaf, c))
    BY <1>4, <1>9 DEF Create, config, Op
  <2>2. Alone(c)
    BY <2>1 DEF Serial, Idle, At
  <2>3. counter' = counter + 1
    BY <1>6, <2>1, <2>2
  <2> QED
    BY <2>1, <2>2, <2>3, BeginCounts
<1>10. ASSUME Flush(c)
       PROVE  Serial'
  BY <1>10, FlushCounts
<1>11. ASSUME ToParent(c)
       PROVE  Serial'
  BY <1>11, ToParentCounts
<1>12. ASSUME NEW d \in Contexts, Spawn(c, d)
       PROVE  Serial'
  <2>1. /\ Alone(c) /\ UNCHANGED <<op, begun, span, buffer, fate, counter, dropped, limit>>
        /\ op[c] = Idle
    BY <1>12 DEF Spawn, Ready, config
  <2>2. \A q : Clearing(q) => Clearing(q)'
    BY <2>1 DEF Clearing
  <2> QED
    BY <1>4, <2>1, <2>2, SerialStays
<1>13. ASSUME NEW s \in Spans, EndDropped(c, s) \/ \E k \in Classes(TRUE) : End(c, s, k)
       PROVE  Serial'
  <2>1. /\ Alone(c) /\ op[c] = Idle
        /\ \A d \in Contexts \ {c} : op'[d] = op[d]
        /\ op'[c].at \notin {"clear", "create"}
        /\ UNCHANGED <<begun, buffer, fate, counter, dropped, limit>>
    <3>1. CASE EndDropped(c, s)
      BY <1>4, <3>1 DEF EndDropped, Ready, config
    <3>2. CASE \E k \in Classes(TRUE) : End(c, s, k)
      <4>1. AfterEnd(s, "parent").at \in {"flush", "parent"}
        BY DEF AfterEnd, At
      <4> QED
        BY <1>4, <3>2, <4>1 DEF End, Ready, config
    <3> QED
      BY <1>13, <3>1, <3>2
  <2>2. \A r \in Begun : span'[r].kind = span[r].kind /\ span'[r].leaf = span[r].leaf
    <3>1. span \in [Spans -> SpanRecord]
      BY <1>1 DEF Types
    <3>2. CASE EndDropped(c, s)
      BY <1>1, <3>1, <3>2 DEF EndDropped, SpanRecord
    <3>3. ASSUME NEW k \in Classes(TRUE), End(c, s, k)
          PROVE  \A r \in Begun : span'[r].kind = span[r].kind /\ span'[r].leaf = span[r].leaf
      BY <1>1, <3>1, <3>3 DEF End, SpanRecord
    <3> QED
      BY <1>13, <3>2, <3>3
  <2>3. \A q : Clearing(q)' <=> Clearing(q)
    BY <1>4, <2>1, ClearingStays
  <2> QED
    BY <2>1, <2>2, <2>3, SerialStays
<1>14. ASSUME \/ \E leaf \in BOOLEAN : BeginCheck(c, leaf)
              \/ FlushRaises(c)
              \/ EndTransaction(c)
              \/ QueueTransaction(c)
              \/ IgnoreTransaction(c)
       PROVE  Serial'
  <2>1. /\ op[c].at # "clear" /\ op'[c].at # "clear"
        /\ \A d \in Contexts \ {c} : op'[d] = op[d]
        /\ UNCHANGED <<begun, span, buffer, fate, counter, dropped, limit>>
        /\ op'[c].at = "create" => ~OverLimit
    BY <1>4, <1>14
    DEF BeginCheck, FlushRaises, EndTransaction, QueueTransaction,
        IgnoreTransaction, Ready, config, AfterEnd, At, Op
  <2>2. Alone(c)
    BY <1>14
    DEF BeginCheck, FlushRaises, EndTransaction, QueueTransaction,
        IgnoreTransaction, Ready, Serial, Idle, At
  <2>3. \A q : Clearing(q)' <=> Clearing(q)
    BY <2>1, ClearingStays
  <2> QED
    BY <2>1, <2>2, <2>3, SerialStays
<1>15. ASSUME ClearBuffer(c)
       PROVE  Serial'
  <2>1. /\ op[c].at = "clear" /\ Alone(c)
        /\ \A d \in Contexts \ {c} : op'[d] = op[d]
        /\ op'[c].at # "create"
        /\ UNCHANGED <<begun, span, fate, counter, dropped, limit>>
        /\ buffer' = [buffer EXCEPT ![op[c].of] = None]
    BY <1>4, <1>15 DEF ClearBuffer, config, Op, Serial
  <2>2. \A q \in Spans \cup {Tx} : buffer'[q] = IF q = op[c].of THEN None ELSE buffer[q]
    BY <1>1, <2>1 DEF Records
  <2>3. \A q \in Spans \cup {Tx} : Clearing(q) => q = op[c].of
    BY <2>1 DEF Clearing, Alone, Idle, At
  <2> QED
    BY <2>1, <2>2, <2>3, SerialStays
<1> QED
  BY <1>3, <1>7, <1>8, <1>9, <1>10, <1>11, <1>12, <1>13, <1>14, <1>15

LEMMA TasksAlways == Spec => []TaskInv
<1>1. Init => TaskInv
  <2> SUFFICES ASSUME Init
               PROVE  SInv /\ Serial
    BY DEF TaskInv
  <2>1. SInv
    BY InitInv, InitSettling DEF SInv
  <2>2. Counted = {} /\ Missed = {}
    BY DEF Init, Counted, Missed, DroppedByLimit, Settled, Begun
  <2>3. Cardinality({}) = 0
    BY FS_EmptySet
  <2>4. /\ \A c \in Contexts : op[c] = Idle /\ op[c].at = "idle"
        /\ \A s \in Spans : Len(fate[s]) <= 1
        /\ \A p \in Spans \cup {Tx} : buffer[p] = None
    BY NoFate DEF Init, Idle, At
  <2>5. counter = 0 /\ dropped = 0 /\ limit \in Nat
    BY <2>1, SetsOfSpans DEF Init
  <2> QED
    BY <2>1, <2>2, <2>3, <2>4, <2>5 DEF Serial
<1> QED
  BY <1>1, NextCounts, PTL DEF Spec

-----------------------------------------------------------------------------
(***************************************************************************)
(* The theorems about tasks.                                               *)
(***************************************************************************)
\* No more spans than transaction_max_spans are sent with a transaction of
\* tasks, although merging and cancelling take spans out of the counter again:
\* the check and the increment are not divided among tasks.
THEOREM LimitIsKept == Spec => []SpanLimit
<1>1. TaskInv => SpanLimit
  <2> SUFFICES ASSUME SInv, Serial, limit > 0
               PROVE  Cardinality(Settled("sent")) <= limit
    BY DEF TaskInv, SpanLimit
  <2>1. Settled("sent") \subseteq Counted
    <3> SUFFICES ASSUME NEW s \in Begun, "sent" \in Range(fate[s])
                 PROVE  s \in Counted
      BY DEF Settled
    <3>1. fate[s] \in Seq(Fates) /\ Len(fate[s]) <= 1 /\ fate[s] # <<>>
      BY SetsOfSpans, NoFate DEF SInv, Records, Serial
    <3>2. DOMAIN fate[s] \subseteq {1}
      BY <3>1
    <3>3. Range(fate[s]) = {"sent"}
      BY <3>2 DEF Range
    <3>4. Real(s)
      BY <3>1 DEF SInv, Settling, Destiny
    <3> QED
      BY <3>3, <3>4 DEF Counted, Uncounted
  <2>2. Cardinality(Settled("sent")) <= Cardinality(Counted)
    BY <2>1, SetsOfSpans, FS_Subset
  <2>3. Cardinality(Settled("sent")) \in Nat
    BY <2>1, SetsOfSpans, SpansFinite
  <2> QED
    BY <2>2, <2>3, SetsOfSpans DEF Serial
<1> QED
  BY <1>1, TasksAlways, PTL

\* The counts that are sent with a transaction of tasks whose spans all ended
\* in time are exact: started is what was sent, discarded or lost, and dropped
\* is what the limit dropped or was discarded.
THEOREM CountsAreHonest == Spec => CountsHonest
<1> DEFINE A == counts' # counts /\ AllEnded /\ ~preemptive =>
                  /\ counts'.started = Cardinality(
                       Settled("sent") \cup Settled("discarded") \cup Settled("lost"))
                  /\ counts'.dropped =
                       Cardinality(DroppedByLimit \cup Settled("discarded"))
<1>1. TaskInv /\ [Next]_vars => [A]_vars
  <2> SUFFICES ASSUME TaskInv, Next, counts' # counts, AllEnded, ~preemptive
               PROVE  /\ counts'.started = Cardinality(
                            Settled("sent") \cup Settled("discarded") \cup Settled("lost"))
                      /\ counts'.dropped =
                            Cardinality(DroppedByLimit \cup Settled("discarded"))
    OBVIOUS
  <2>1. SInv /\ Serial /\ Records /\ Settling /\ Begun \subseteq Spans
    BY SpanNumbers DEF TaskInv, SInv, Inv, Begun
  <2>2. PICK c \in Contexts : QueueTransaction(c)
    BY DEF Next, Spawn, BeginUnderLeaf, BeginOverLimit, BeginCheck,
           Create, EndDropped, End, EndTransaction, Flush, FlushRaises,
           ClearBuffer, ToParent, IgnoreTransaction
  <2>3. counts' = [started |-> counter, dropped |-> dropped] /\ op[c].at = "queue"
    BY <2>2 DEF QueueTransaction
  <2>4. buffer[Tx] = None
    <3>1. op[c].of = Tx
      BY <2>1, <2>3 DEF Settling, Calls
    <3> QED
      BY <2>1, <2>3, <3>1 DEF Settling, Neat, NeatCall, Real, AllEnded
  <2>5. ASSUME NEW s \in Begun, Real(s)
        PROVE  fate[s] # <<>>
    <3> DEFINE p == span[s].parent
    <3>1. span[s].state = "ended" /\ late = {} /\ Destiny(s) /\ s # None
      BY <2>1, SpansFinite DEF AllEnded, Settling
    <3>2. CASE ~Real(p)
      BY <2>5, <3>1, <3>2 DEF Destiny
    <3>3. CASE Real(p)
      <4>1. p \in Begun \cup {Tx} /\ p \in Spans \cup {Tx}
        <5>1. /\ s \in 1 .. begun /\ begun \in Nat
              /\ p \in (1 .. s - 1) \cup {Tx}
          BY <2>1, SpanNumbers DEF Settling, Shape, Begun, SInv, Inv
        <5> QED
          BY <2>1, <5>1 DEF Begun
      <4>2. NeatChild(p, s) /\ (StateOf(p) = "ended" => buffer[p] = None)
        BY <2>1, <2>5, <3>1, <3>3, <4>1 DEF Settling, Neat
      <4>3. buffer[p] = None
        BY <2>4, <4>1, <4>2 DEF AllEnded, StateOf
      <4> QED
        BY <3>1, <4>2, <4>3 DEF NeatChild
    <3> QED
      BY <3>2, <3>3
  <2>6. Counted = Settled("sent") \cup Settled("discarded") \cup Settled("lost")
    <3> SUFFICES ASSUME NEW s \in Begun
                 PROVE  s \in Counted <=>
                          \/ "sent" \in Range(fate[s])
                          \/ "discarded" \in Range(fate[s])
                          \/ "lost" \in Range(fate[s])
      BY DEF Counted, Settled
    <3>1. fate[s] \in Seq(Fates) /\ Len(fate[s]) <= 1 /\ Destiny(s)
      BY <2>1 DEF Records, Serial, Settling
    <3>2. CASE fate[s] = <<>>
      BY <2>5, <3>2, NoFate DEF Counted
    <3>3. CASE fate[s] # <<>>
      <4>1. Real(s)
        BY <3>1, <3>3 DEF Destiny
      <4>2. 1 \in DOMAIN fate[s] /\ fate[s][1] \in Fates /\ DOMAIN fate[s] \subseteq {1}
        BY <3>1, <3>3
      <4>3. PICK h \in Fates : Range(fate[s]) = {h}
        BY <4>2 DEF Range
      <4> QED
        BY <4>1, <4>3 DEF Counted, Uncounted, Fates
    <3> QED
      BY <3>2, <3>3
  <2> QED
    BY <2>1, <2>3, <2>6 DEF Serial, Missed
<1>2. CountsHonest <=> [][A]_vars
  BY DEF CountsHonest
<1> HIDE DEF A
<1> QED
  BY <1>1, <1>2, TasksAlways, PTL DEF Spec
=============================================================================

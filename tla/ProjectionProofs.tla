-------------------------- MODULE ProjectionProofs --------------------------
(* Machine-checked proofs about Projection, for any processes, graphs and    *)
(* nodes and a log of any length: that the tables are a replay of the folded *)
(* events although several processes fold them in their own order, and what  *)
(* follows for versions and outputs.                                         *)
EXTENDS Projection, SequenceTheorems, FiniteSetTheorems, WellFoundedInduction, TLAPS

\* A set of numbers that is not empty has a least element.  Replay folds the
\* log recursively; what it computes is proved by looking at the first place
\* where it would not.
LEMMA Least ==
  ASSUME NEW T \in SUBSET Nat, T # {}
  PROVE  \E x \in T : \A y \in T : x <= y
<1> DEFINE W == {1..x : x \in T}
           R == StrictSubsetOrdering(Nat)
           S == FiniteSubsetsOf(Nat)
<1>1. IsWellFoundedOn(R, S)
  BY FS_StrictSubsetOrderingWellFounded
<1>2. W \subseteq S
  <2>1. \A x \in T : IsFiniteSet(1..x)
    BY FS_Interval
  <2> QED
    BY <2>1 DEF FiniteSubsetsOf
<1>3. W # {}
  OBVIOUS
<1> HIDE DEF R, S, W
<1>4. PICK w \in W : \A v \in W : ~(<<v, w>> \in R)
  BY <1>1, <1>2, <1>3, WFMin
<1>5. PICK x \in T : w = 1..x
  BY DEF W
<1>6. ASSUME NEW y \in T, y < x
      PROVE  FALSE
  <2>1. 1..y \in W /\ 1..y \in SUBSET Nat /\ w \in SUBSET Nat
    BY <1>5 DEF W
  <2>2. 1..y \subseteq w /\ 1..y # w
    BY <1>5, <1>6
  <2>3. <<1..y, w>> \in R
    BY <2>1, <2>2 DEF R, StrictSubsetOrdering
  <2> QED
    BY <1>4, <2>1, <2>3
<1> QED
  BY <1>6
-----------------------------------------------------------------------------
(* The reducers, row by row.                                                 *)

\* What the store writes: the key of an event names a row of its kind.
WellFormed(e) ==
  /\ e.do \in {"create", "graph", "step", "output", "attempt"}
  /\ e.do \in {"create", "graph"} => e.key \in Graphs
  /\ e.do \in {"step", "output", "attempt"} => e.key \in Nodes
  /\ e.do = "graph" => e.val = "running"
  /\ e.do = "step" => e.val \in NodeStatuses
  /\ e.do = "attempt" => e.val \in {"running", "completed", "failed"}

Creates(e, n) == e.do = "create" /\ n \in PlanOf[e.key]

GraphAfter(s, e, g) ==
  IF e.do = "create" /\ e.key = g THEN "draft"
  ELSE IF e.do = "graph" /\ e.key = g /\ s # "none" THEN e.val ELSE s

NodeAfter(row, e, n) ==
  IF Creates(e, n) THEN Planned(e.key)
  ELSE IF IsUpdate(e, n) /\ row # NoNode THEN Stepped(row, e) ELSE row

AttemptAfter(s, e, n) == IF e.do = "attempt" /\ e.key = n THEN e.val ELSE s

\* An update of a row.
LEMMA SteppedFacts ==
  ASSUME NEW row \in NodeRow, NEW e, WellFormed(e), e.do \in {"step", "output"}
  PROVE  /\ Stepped(row, e) \in NodeRow
         /\ Stepped(row, e).graph = row.graph
         /\ Stepped(row, e).version = row.version + 1
         /\ Stepped(row, e).status = IF e.do = "step" THEN e.val ELSE row.status
         /\ Stepped(row, e).output = IF e.do = "output" THEN TRUE ELSE row.output
<1> DEFINE v == row.version + 1
           s == IF e.do = "step" THEN e.val ELSE row.status
           o == IF e.do = "output" THEN TRUE ELSE row.output
<1>1. Stepped(row, e) = [row EXCEPT !.version = v, !.status = s, !.output = o]
  BY DEF Stepped, NodeRow
<1>2. v \in Nat
  BY DEF NodeRow
<1>5. o \in BOOLEAN
  <2>1. row.output \in BOOLEAN
    BY DEF NodeRow
  <2> QED
    BY <2>1, Zenon
<1>3. s \in {"none"} \cup NodeStatuses
  BY DEF NodeRow, WellFormed
<1> HIDE DEF v, s, o
<1>4. /\ [row EXCEPT !.version = v, !.status = s, !.output = o] \in NodeRow
      /\ [row EXCEPT !.version = v, !.status = s, !.output = o].graph = row.graph
      /\ [row EXCEPT !.version = v, !.status = s, !.output = o].version = v
      /\ [row EXCEPT !.version = v, !.status = s, !.output = o].status = s
      /\ [row EXCEPT !.version = v, !.status = s, !.output = o].output = o
  BY <1>2, <1>3, <1>5 DEF NodeRow
<1> QED
  BY <1>1, <1>4 DEF v, s, o

\* The rows that plans make and updates change.
LEMMA RowFacts ==
  /\ NoNode \in NodeRow
  /\ \A g \in Graphs : Planned(g) \in NodeRow /\ Planned(g) # NoNode
  /\ \A row \in NodeRow : \A e : WellFormed(e) /\ e.do \in {"step", "output"} /\ row # NoNode =>
       Stepped(row, e) # NoNode
<1>1. NoNode \in NodeRow
  BY DEF NoNode, NodeRow
<1>2. ASSUME NEW g \in Graphs
      PROVE  Planned(g) \in NodeRow /\ Planned(g) # NoNode
  BY ConstantsAssumption DEF NoNode, NodeRow, Planned, NodeStatuses
<1>3. ASSUME NEW row \in NodeRow, NEW e, WellFormed(e), e.do \in {"step", "output"}
      PROVE  Stepped(row, e) # NoNode
  <2>1. Stepped(row, e).version = row.version + 1 /\ row.version \in Nat
    BY <1>3, SteppedFacts DEF NodeRow
  <2>2. NoNode.version = 0
    BY DEF NoNode
  <2> QED
    BY <2>1, <2>2
<1> QED
  BY <1>1, <1>2, <1>3

\* The fields of tables.
LEMMA TableFields ==
  ASSUME NEW t \in Tables
  PROVE  /\ t.graphs \in [Graphs -> {"none", "draft", "running"}]
         /\ t.nodes \in [Nodes -> NodeRow]
         /\ t.attempts \in [Nodes -> {"none", "running", "completed", "failed"}]
         /\ t = [graphs |-> t.graphs, nodes |-> t.nodes, attempts |-> t.attempts]
BY DEF Tables

\* Tables with the same rows are the same.
LEMMA TablesEqual ==
  ASSUME NEW t \in Tables, NEW u \in Tables,
         \A g \in Graphs : t.graphs[g] = u.graphs[g],
         \A n \in Nodes : t.nodes[n] = u.nodes[n],
         \A n \in Nodes : t.attempts[n] = u.attempts[n]
  PROVE  t = u
<1>1. t.graphs = u.graphs
  BY TableFields
<1>2. t.nodes = u.nodes
  BY TableFields
<1>3. t.attempts = u.attempts
  BY TableFields
<1> QED
  BY <1>1, <1>2, <1>3, TableFields

\* The tables a replay starts from.
LEMMA EmptyFacts ==
  /\ Empty \in Tables
  /\ \A n \in Nodes : Empty.nodes[n] = NoNode
BY RowFacts DEF Empty, Tables

\* What one event does to the tables.
LEMMA Applied ==
  ASSUME NEW t \in Tables, NEW e, WellFormed(e)
  PROVE  /\ _apply_work(t, e) \in Tables
         /\ \A g \in Graphs : _apply_work(t, e).graphs[g] = GraphAfter(t.graphs[g], e, g)
         /\ \A n \in Nodes : _apply_work(t, e).nodes[n] = NodeAfter(t.nodes[n], e, n)
         /\ \A n \in Nodes :
              _apply_work(t, e).attempts[n] = AttemptAfter(t.attempts[n], e, n)
<1>1. CASE e.do = "create"
  <2> DEFINE k == e.key
             new == [n \in Nodes |-> IF n \in PlanOf[k] THEN Planned(k) ELSE t.nodes[n]]
  <2>1. k \in Graphs
    BY <1>1 DEF WellFormed
  <2>2. _apply_work(t, e) = [t EXCEPT !.graphs[k] = "draft", !.nodes = new]
    BY <1>1 DEF _apply_work, _apply_run_created
  <2>3. new \in [Nodes -> NodeRow]
    BY <2>1, RowFacts, TableFields
  <2>4. \A n \in Nodes : new[n] = NodeAfter(t.nodes[n], e, n)
    BY <1>1 DEF NodeAfter, Creates, IsUpdate
  <2> HIDE DEF new
  <2> DEFINE gs == [t.graphs EXCEPT ![k] = "draft"]
  <2>6. gs \in [Graphs -> {"none", "draft", "running"}]
    BY <2>1, TableFields
  <2>7. _apply_work(t, e) = [graphs |-> gs, nodes |-> new, attempts |-> t.attempts]
    BY <2>2, TableFields
  <2> HIDE DEF gs
  <2>8. /\ _apply_work(t, e) \in Tables
        /\ _apply_work(t, e).graphs = gs
        /\ _apply_work(t, e).nodes = new /\ _apply_work(t, e).attempts = t.attempts
    BY <2>3, <2>6, <2>7, TableFields DEF Tables
  <2>5. /\ _apply_work(t, e) \in Tables
        /\ _apply_work(t, e).graphs = [t.graphs EXCEPT ![k] = "draft"]
        /\ _apply_work(t, e).nodes = new /\ _apply_work(t, e).attempts = t.attempts
    BY <2>8 DEF gs
  <2> QED
    BY <1>1, <2>1, <2>4, <2>5, TableFields DEF GraphAfter, AttemptAfter
<1>2. CASE e.do = "graph"
  <2> DEFINE k == e.key
  <2>1. k \in Graphs /\ e.val = "running"
    BY <1>2 DEF WellFormed
  <2>2. _apply_work(t, e) = IF t.graphs[k] = "none" THEN t
                            ELSE [t EXCEPT !.graphs[k] = e.val]
    BY <1>2 DEF _apply_work, _apply_run_status
  <2>3. /\ _apply_work(t, e) \in Tables
        /\ _apply_work(t, e).graphs = IF t.graphs[k] = "none" THEN t.graphs
                                      ELSE [t.graphs EXCEPT ![k] = e.val]
        /\ _apply_work(t, e).nodes = t.nodes /\ _apply_work(t, e).attempts = t.attempts
    BY <2>1, <2>2 DEF Tables
  <2> QED
    BY <1>2, <2>1, <2>3, TableFields
    DEF GraphAfter, AttemptAfter, NodeAfter, Creates, IsUpdate
<1>3. CASE e.do \in {"step", "output"}
  <2> DEFINE k == e.key
             new == Stepped(t.nodes[k], e)
  <2>1. k \in Nodes /\ t.nodes[k] \in NodeRow
    BY <1>3, TableFields DEF WellFormed
  <2>2. _apply_work(t, e) = IF t.nodes[k] = NoNode THEN t
                            ELSE [t EXCEPT !.nodes[k] = new]
    BY <1>3 DEF _apply_work, _apply_step
  <2>3. new \in NodeRow
    BY <1>3, <2>1, SteppedFacts
  <2>4. \A n \in Nodes : NodeAfter(t.nodes[n], e, n) =
                           IF n = k /\ t.nodes[k] # NoNode THEN new ELSE t.nodes[n]
    BY <1>3 DEF NodeAfter, Creates, IsUpdate
  <2> HIDE DEF new
  <2>5. /\ _apply_work(t, e) \in Tables
        /\ _apply_work(t, e).nodes = IF t.nodes[k] = NoNode THEN t.nodes
                                     ELSE [t.nodes EXCEPT ![k] = new]
        /\ _apply_work(t, e).graphs = t.graphs /\ _apply_work(t, e).attempts = t.attempts
    BY <2>1, <2>2, <2>3 DEF Tables
  <2> QED
    BY <1>3, <2>1, <2>4, <2>5, TableFields DEF GraphAfter, AttemptAfter
<1>4. CASE e.do = "attempt"
  <2> DEFINE k == e.key
  <2>1. k \in Nodes /\ e.val \in {"running", "completed", "failed"}
    BY <1>4 DEF WellFormed
  <2>2. _apply_work(t, e) = [t EXCEPT !.attempts[k] = e.val]
    BY <1>4 DEF _apply_work, _apply_attempt
  <2>3. /\ _apply_work(t, e) \in Tables
        /\ _apply_work(t, e).attempts = [t.attempts EXCEPT ![k] = e.val]
        /\ _apply_work(t, e).nodes = t.nodes /\ _apply_work(t, e).graphs = t.graphs
    BY <2>1, <2>2 DEF Tables
  <2> QED
    BY <1>4, <2>1, <2>3, TableFields
    DEF GraphAfter, AttemptAfter, NodeAfter, Creates, IsUpdate
<1> QED
  BY <1>1, <1>2, <1>3, <1>4 DEF WellFormed

\* An event leaves the rows alone that are not its own.
LEMMA Untouched ==
  ASSUME NEW e, WellFormed(e)
  PROVE  /\ \A g \in Graphs : \A s : <<"row", g>> \notin Rows(e) => GraphAfter(s, e, g) = s
         /\ \A n \in Nodes : \A r : <<"row", n>> \notin Rows(e) => NodeAfter(r, e, n) = r
         /\ \A n \in Nodes : \A s :
              <<"attempt", n>> \notin Rows(e) => AttemptAfter(s, e, n) = s
<1>1. CASE e.do = "create"
  <2>1. Rows(e) = {<<"row", k>> : k \in {e.key} \cup PlanOf[e.key]}
    BY <1>1 DEF Rows
  <2> QED
    BY <1>1, <2>1 DEF GraphAfter, NodeAfter, AttemptAfter, Creates, IsUpdate
<1>2. CASE e.do = "attempt"
  <2>1. Rows(e) = {<<"attempt", e.key>>}
    BY <1>2 DEF Rows
  <2> QED
    BY <1>2, <2>1 DEF GraphAfter, NodeAfter, AttemptAfter, Creates, IsUpdate
<1>3. CASE e.do \notin {"create", "attempt"}
  <2>1. Rows(e) = {<<"row", e.key>>}
    BY <1>3 DEF Rows
  <2> QED
    BY <1>3, <2>1 DEF GraphAfter, NodeAfter, AttemptAfter, Creates, IsUpdate
<1> QED
  BY <1>1, <1>2, <1>3

\* Events about different rows commute.
LEMMA Commute ==
  ASSUME NEW t \in Tables, NEW e, NEW f, WellFormed(e), WellFormed(f), ~Conflict(e, f)
  PROVE  _apply_work(_apply_work(t, e), f) = _apply_work(_apply_work(t, f), e)
<1> DEFINE te == _apply_work(t, e)
           tf == _apply_work(t, f)
           tef == _apply_work(te, f)
           tfe == _apply_work(tf, e)
<1>1. te \in Tables /\ tf \in Tables /\ tef \in Tables /\ tfe \in Tables
  BY Applied
<1>2. \A k : k \notin Rows(e) \/ k \notin Rows(f)
  BY DEF Conflict
<1>3. ASSUME NEW g \in Graphs
      PROVE  tef.graphs[g] = tfe.graphs[g]
  <2>1. /\ te.graphs[g] = GraphAfter(t.graphs[g], e, g)
        /\ tf.graphs[g] = GraphAfter(t.graphs[g], f, g)
        /\ tef.graphs[g] = GraphAfter(te.graphs[g], f, g)
        /\ tfe.graphs[g] = GraphAfter(tf.graphs[g], e, g)
    BY <1>1, Applied
  <2> HIDE DEF te, tf, tef, tfe
  <2>2. CASE <<"row", g>> \notin Rows(e)
    BY <2>1, <2>2, Untouched
  <2>3. CASE <<"row", g>> \notin Rows(f)
    BY <2>1, <2>3, Untouched
  <2> QED
    BY <1>2, <2>2, <2>3
<1>4. ASSUME NEW n \in Nodes
      PROVE  tef.nodes[n] = tfe.nodes[n]
  <2>1. /\ te.nodes[n] = NodeAfter(t.nodes[n], e, n)
        /\ tf.nodes[n] = NodeAfter(t.nodes[n], f, n)
        /\ tef.nodes[n] = NodeAfter(te.nodes[n], f, n)
        /\ tfe.nodes[n] = NodeAfter(tf.nodes[n], e, n)
    BY <1>1, Applied
  <2> HIDE DEF te, tf, tef, tfe
  <2>2. CASE <<"row", n>> \notin Rows(e)
    BY <2>1, <2>2, Untouched
  <2>3. CASE <<"row", n>> \notin Rows(f)
    BY <2>1, <2>3, Untouched
  <2> QED
    BY <1>2, <2>2, <2>3
<1>5. ASSUME NEW n \in Nodes
      PROVE  tef.attempts[n] = tfe.attempts[n]
  <2>1. /\ te.attempts[n] = AttemptAfter(t.attempts[n], e, n)
        /\ tf.attempts[n] = AttemptAfter(t.attempts[n], f, n)
        /\ tef.attempts[n] = AttemptAfter(te.attempts[n], f, n)
        /\ tfe.attempts[n] = AttemptAfter(tf.attempts[n], e, n)
    BY <1>1, Applied
  <2> HIDE DEF te, tf, tef, tfe
  <2>2. CASE <<"attempt", n>> \notin Rows(e)
    BY <2>1, <2>2, Untouched
  <2>3. CASE <<"attempt", n>> \notin Rows(f)
    BY <2>1, <2>3, Untouched
  <2> QED
    BY <1>2, <2>2, <2>3
<1> HIDE DEF te, tf, tef, tfe
<1>6. tef = tfe
  BY <1>1, <1>3, <1>4, <1>5, TablesEqual
<1> QED
  BY <1>6 DEF te, tf, tef, tfe

\* A status or an attempt that is folded twice is folded.
LEMMA Idempotent ==
  ASSUME NEW t \in Tables, NEW e, WellFormed(e), e.do \in {"graph", "attempt"}
  PROVE  _apply_work(_apply_work(t, e), e) = _apply_work(t, e)
<1> DEFINE te == _apply_work(t, e)
           tee == _apply_work(te, e)
<1>1. te \in Tables /\ tee \in Tables
  BY Applied
<1>2. \A g \in Graphs : /\ te.graphs[g] = GraphAfter(t.graphs[g], e, g)
                        /\ tee.graphs[g] = GraphAfter(te.graphs[g], e, g)
  BY <1>1, Applied
<1>3. \A n \in Nodes : /\ te.nodes[n] = NodeAfter(t.nodes[n], e, n)
                       /\ tee.nodes[n] = NodeAfter(te.nodes[n], e, n)
                       /\ te.attempts[n] = AttemptAfter(t.attempts[n], e, n)
                       /\ tee.attempts[n] = AttemptAfter(te.attempts[n], e, n)
  BY <1>1, Applied
<1> HIDE DEF te, tee
<1>4. \A g \in Graphs : tee.graphs[g] = te.graphs[g]
  BY <1>2 DEF GraphAfter, WellFormed
<1>5. \A n \in Nodes : tee.nodes[n] = te.nodes[n] /\ tee.attempts[n] = te.attempts[n]
  BY <1>3 DEF NodeAfter, AttemptAfter, Creates, IsUpdate
<1>6. tee = te
  BY <1>1, <1>4, <1>5, TablesEqual
<1> QED
  BY <1>6 DEF te, tee
-----------------------------------------------------------------------------
(* Replay, event by event.                                                   *)

\* What holds of 0 and with every number of the next one holds up to L.
LEMMA Induct ==
  ASSUME NEW L \in Nat, NEW G, 0 \in G, \A k \in 1..L : k - 1 \in G => k \in G
  PROVE  \A k \in 0..L : k \in G
<1> DEFINE T == {k \in 0..L : k \notin G}
<1> SUFFICES ASSUME T # {}
             PROVE  FALSE
  OBVIOUS
<1>1. T \in SUBSET Nat
  OBVIOUS
<1>2. PICK x \in T : \A y \in T : x <= y
  BY <1>1, Least
<1>3. x \in 1..L /\ x - 1 \in 0..L /\ x - 1 \notin T
  BY <1>2
<1> QED
  BY <1>3

\* f[k] are the tables after the first k events of l, of which those in S count.
FoldsOf(f, l, S, n) ==
  f = [k \in 0..n |-> IF k = 0 THEN Empty
                      ELSE IF k \in S THEN _apply_work(f[k - 1], l[k])
                      ELSE f[k - 1]]

\* The recursive function of Replay exists.
LEMMA FoldExists ==
  ASSUME NEW l, NEW S, NEW L \in Nat
  PROVE  \E f : FoldsOf(f, l, S, L)
<1> DEFINE G == {n \in Nat : \E f : FoldsOf(f, l, S, n)}
<1>1. 0 \in G
  <2> DEFINE f == [k \in 0..0 |-> Empty]
  <2>1. FoldsOf(f, l, S, 0)
    BY DEF FoldsOf
  <2> QED
    BY <2>1
<1>2. ASSUME NEW x \in 1..L, x - 1 \in G
      PROVE  x \in G
  <2>1. PICK f : FoldsOf(f, l, S, x - 1)
    BY <1>2
  <2> DEFINE new == IF x \in S THEN _apply_work(f[x - 1], l[x]) ELSE f[x - 1]
             g == [k \in 0..x |-> IF k = x THEN new ELSE f[k]]
  <2>2. \A k \in 0..(x - 1) : f[k] = IF k = 0 THEN Empty
                                     ELSE IF k \in S THEN _apply_work(f[k - 1], l[k])
                                     ELSE f[k - 1]
    BY <2>1 DEF FoldsOf
  <2>3. g[x] = IF x \in S THEN _apply_work(g[x - 1], l[x]) ELSE g[x - 1]
    OBVIOUS
  <2> HIDE DEF new
  <2>4. \A k \in 0..(x - 1) : g[k] = IF k = 0 THEN Empty
                                     ELSE IF k \in S THEN _apply_work(g[k - 1], l[k])
                                     ELSE g[k - 1]
    BY <2>2
  <2>5. \A k \in 0..x : k = x \/ k \in 0..(x - 1)
    OBVIOUS
  <2>6. g = [k \in 0..x |-> g[k]]
    OBVIOUS
  <2> HIDE DEF g
  <2>8. \A k \in 0..x : g[k] = IF k = 0 THEN Empty
                              ELSE IF k \in S THEN _apply_work(g[k - 1], l[k])
                              ELSE g[k - 1]
    BY <2>3, <2>4, <2>5
  <2>7. FoldsOf(g, l, S, x)
    BY <2>6, <2>8, Zenon DEF FoldsOf
  <2> QED
    BY <2>7
<1> HIDE DEF G
<1>3. L \in G
  BY <1>1, <1>2, Induct
<1> QED
  BY <1>3 DEF G

\* The tables after k events, and at the end of l.
After(l, S, k) == (CHOOSE f : FoldsOf(f, l, S, Len(l)))[k]
ReplayOf(l, S) == After(l, S, Len(l))

\* Replay is ReplayOf the log.
LEMMA ReplayIs ==
  ASSUME NEW S
  PROVE  Replay(S) = ReplayOf(log, S)
BY DEF Replay, ReplayOf, After, FoldsOf

\* One event after the other.
LEMMA AfterSteps ==
  ASSUME NEW l, NEW S, Len(l) \in Nat
  PROVE  /\ After(l, S, 0) = Empty
         /\ \A k \in 1..Len(l) :
              /\ k \in S => After(l, S, k) = _apply_work(After(l, S, k - 1), l[k])
              /\ k \notin S => After(l, S, k) = After(l, S, k - 1)
<1> DEFINE F == CHOOSE f : FoldsOf(f, l, S, Len(l))
<1>1. FoldsOf(F, l, S, Len(l))
  BY FoldExists
<1> HIDE DEF F
<1>2. \A k \in 0..Len(l) : F[k] = IF k = 0 THEN Empty
                                 ELSE IF k \in S THEN _apply_work(F[k - 1], l[k])
                                 ELSE F[k - 1]
  BY <1>1, Zenon DEF FoldsOf
<1>3. F[0] = Empty
  BY <1>2
<1>4. ASSUME NEW k \in 1..Len(l)
      PROVE  /\ k \in S => F[k] = _apply_work(F[k - 1], l[k])
             /\ k \notin S => F[k] = F[k - 1]
  <2>1. k \in 0..Len(l) /\ k # 0
    OBVIOUS
  <2> QED
    BY <1>2, <2>1
<1>5. \A k : After(l, S, k) = F[k]
  BY DEF After, F
<1> QED
  BY <1>3, <1>4, <1>5

\* The events of l are the store's.
AllWellFormed(l) == \A k \in 1..Len(l) : WellFormed(l[k])

\* Replaying gives tables.
LEMMA AfterTables ==
  ASSUME NEW l, NEW S, Len(l) \in Nat, AllWellFormed(l)
  PROVE  \A k \in 0..Len(l) : After(l, S, k) \in Tables
<1> DEFINE A(k) == After(l, S, k)
           G == {k \in 0..Len(l) : A(k) \in Tables}
<1>1. /\ A(0) = Empty
      /\ \A k \in 1..Len(l) : /\ k \in S => A(k) = _apply_work(A(k - 1), l[k])
                              /\ k \notin S => A(k) = A(k - 1)
  BY AfterSteps
<1> HIDE DEF A
<1>2. 0 \in G
  BY <1>1, EmptyFacts
<1>3. ASSUME NEW k \in 1..Len(l), k - 1 \in G
      PROVE  k \in G
  <2>1. A(k - 1) \in Tables /\ WellFormed(l[k])
    BY <1>3 DEF AllWellFormed
  <2>2. _apply_work(A(k - 1), l[k]) \in Tables
    BY <2>1, Applied
  <2> QED
    BY <1>1, <2>1, <2>2
<1> HIDE DEF G
<1>4. \A k \in 0..Len(l) : k \in G
  BY <1>2, <1>3, Induct
<1> QED
  BY <1>4 DEF G, A

\* The log only grows.
Extends(l2, l) ==
  /\ Len(l2) \in Nat /\ Len(l) \in 0..Len(l2)
  /\ \A k \in 1..Len(l) : l2[k] = l[k]

\* Events that come later do not change what the first ones give.
LEMMA PrefixAfter ==
  ASSUME NEW l, NEW l2, NEW S, Extends(l2, l)
  PROVE  \A k \in 0..Len(l) : After(l2, S, k) = After(l, S, k)
<1> DEFINE A(k) == After(l, S, k)
           B(k) == After(l2, S, k)
           G == {k \in 0..Len(l) : B(k) = A(k)}
<1>1. Len(l) \in Nat /\ Len(l2) \in Nat /\ Len(l) <= Len(l2)
  BY DEF Extends
<1>2. /\ A(0) = Empty
      /\ \A k \in 1..Len(l) : /\ k \in S => A(k) = _apply_work(A(k - 1), l[k])
                              /\ k \notin S => A(k) = A(k - 1)
  BY <1>1, AfterSteps
<1>3. /\ B(0) = Empty
      /\ \A k \in 1..Len(l2) : /\ k \in S => B(k) = _apply_work(B(k - 1), l2[k])
                               /\ k \notin S => B(k) = B(k - 1)
  BY <1>1, AfterSteps
<1> HIDE DEF A, B
<1>4. 0 \in G
  BY <1>1, <1>2, <1>3
<1>5. ASSUME NEW k \in 1..Len(l), k - 1 \in G
      PROVE  k \in G
  <2>1. k \in 1..Len(l2) /\ l2[k] = l[k]
    BY <1>1 DEF Extends
  <2>2. B(k - 1) = A(k - 1)
    BY <1>5
  <2> QED
    BY <1>1, <1>2, <1>3, <2>1, <2>2
<1> HIDE DEF G
<1>6. \A k \in 0..Len(l) : k \in G
  BY <1>1, <1>4, <1>5, Induct
<1> QED
  BY <1>6 DEF G, A, B

\* Events that do not count do not change the tables.
LEMMA TailQuiet ==
  ASSUME NEW l, NEW S, Len(l) \in Nat, NEW m \in 0..Len(l), S \subseteq 1..m
  PROVE  After(l, S, Len(l)) = After(l, S, m)
<1> DEFINE A(k) == After(l, S, k)
           G == {k \in 0..Len(l) : k >= m => A(k) = A(m)}
<1>1. \A k \in 1..Len(l) : k \notin S => A(k) = A(k - 1)
  BY AfterSteps
<1> HIDE DEF A
<1>2. 0 \in G
  BY m = 0 \/ ~(0 >= m)
<1>3. ASSUME NEW k \in 1..Len(l), k - 1 \in G
      PROVE  k \in G
  <2>1. CASE k <= m
    <3>1. k = m \/ ~(k >= m)
      BY <2>1
    <3> QED
      BY <3>1
  <2>2. CASE k > m
    <3>1. k \notin S /\ k - 1 >= m
      BY <2>2
    <3> QED
      BY <1>1, <1>3, <3>1
  <2> QED
    BY <2>1, <2>2
<1> HIDE DEF G
<1>4. \A k \in 0..Len(l) : k \in G
  BY <1>2, <1>3, Induct
<1>5. Len(l) \in G /\ Len(l) >= m
  BY <1>4
<1> QED
  BY <1>5 DEF G, A

\* Appending to the log does not change a replay of earlier events.
LEMMA PrefixReplay ==
  ASSUME NEW l, NEW l2, NEW S, Extends(l2, l), S \subseteq 1..Len(l)
  PROVE  ReplayOf(l2, S) = ReplayOf(l, S)
<1>1. Len(l2) \in Nat /\ Len(l) \in 0..Len(l2)
  BY DEF Extends
<1>2. After(l2, S, Len(l2)) = After(l2, S, Len(l))
  BY <1>1, TailQuiet
<1>3. After(l2, S, Len(l)) = After(l, S, Len(l))
  BY <1>1, PrefixAfter
<1> QED
  BY <1>2, <1>3 DEF ReplayOf

\* An event that is folded late, after events about other rows, or a status or
\* an attempt that is folded again, ends where the log puts it.
LEMMA FoldIn ==
  ASSUME NEW l, NEW S, Len(l) \in Nat, AllWellFormed(l), NEW i \in 1..Len(l),
         \A j \in S : j > i => ~Conflict(l[i], l[j]),
         i \in S => l[i].do \in {"graph", "attempt"},
         S \subseteq 1..Len(l)
  PROVE  _apply_work(ReplayOf(l, S), l[i]) = ReplayOf(l, S \cup {i})
<1> DEFINE T == S \cup {i}
           A(k) == After(l, S, k)
           B(k) == After(l, T, k)
           G == {k \in 0..Len(l) : IF k < i THEN B(k) = A(k)
                                   ELSE B(k) = _apply_work(A(k), l[i])}
<1>1. /\ A(0) = Empty /\ B(0) = Empty
      /\ \A k \in 1..Len(l) :
           /\ k \in S => A(k) = _apply_work(A(k - 1), l[k])
           /\ k \notin S => A(k) = A(k - 1)
           /\ k \in T => B(k) = _apply_work(B(k - 1), l[k])
           /\ k \notin T => B(k) = B(k - 1)
  BY AfterSteps
<1>2. \A k \in 0..Len(l) : A(k) \in Tables
  BY AfterTables
<1>3. WellFormed(l[i]) /\ \A k \in 1..Len(l) : WellFormed(l[k])
  BY DEF AllWellFormed
<1> HIDE DEF A, B
<1>4. 0 \in G
  BY <1>1
<1>5. ASSUME NEW k \in 1..Len(l), k - 1 \in G
      PROVE  k \in G
  <2>1. A(k - 1) \in Tables /\ k - 1 \in 0..Len(l)
    BY <1>2
  <2>2. CASE k < i
    BY <1>1, <1>5, <2>2
  <2>3. CASE k = i /\ i \notin S
    BY <1>1, <1>5, <2>3
  <2>4. CASE k = i /\ i \in S
    <3>1. B(k - 1) = A(k - 1)
      BY <1>5, <2>4
    <3>2. A(k) = _apply_work(A(k - 1), l[i]) /\ B(k) = A(k)
      BY <1>1, <2>4, <3>1
    <3>3. _apply_work(_apply_work(A(k - 1), l[i]), l[i]) = _apply_work(A(k - 1), l[i])
      BY <1>3, <2>1, <2>4, Idempotent
    <3> QED
      BY <2>4, <3>2, <3>3
  <2>5. CASE k > i /\ k \in S
    <3>1. B(k - 1) = _apply_work(A(k - 1), l[i])
      BY <1>5, <2>5
    <3>2. A(k) = _apply_work(A(k - 1), l[k]) /\ B(k) = _apply_work(B(k - 1), l[k])
      BY <1>1, <2>5
    <3>3. ~Conflict(l[i], l[k]) /\ WellFormed(l[k])
      BY <1>3, <2>5
    <3>4. _apply_work(_apply_work(A(k - 1), l[i]), l[k])
            = _apply_work(_apply_work(A(k - 1), l[k]), l[i])
      BY <1>3, <2>1, <3>3, Commute
    <3> QED
      BY <2>5, <3>1, <3>2, <3>4
  <2>6. CASE k > i /\ k \notin S
    BY <1>1, <1>5, <2>6
  <2> QED
    BY <2>2, <2>3, <2>4, <2>5, <2>6
<1> HIDE DEF G
<1>6. \A k \in 0..Len(l) : k \in G
  BY <1>4, <1>5, Induct
<1>7. B(Len(l)) = _apply_work(A(Len(l)), l[i])
  BY <1>6 DEF G
<1> QED
  BY <1>7 DEF ReplayOf, A, B, T
-----------------------------------------------------------------------------
(* One row in a replay.                                                      *)

\* The row of a node, event by event.
RowHistory(l, S, n) ==
  /\ After(l, S, 0).nodes[n] = NoNode
  /\ \A k \in 1..Len(l) :
       /\ k \in S => After(l, S, k).nodes[n]
                       = NodeAfter(After(l, S, k - 1).nodes[n], l[k], n)
       /\ k \notin S => After(l, S, k).nodes[n] = After(l, S, k - 1).nodes[n]
  /\ \A k \in 0..Len(l) : After(l, S, k).nodes[n] \in NodeRow

\* It follows the reducers.
LEMMA RowSteps ==
  ASSUME NEW l, NEW S, Len(l) \in Nat, AllWellFormed(l), NEW n \in Nodes
  PROVE  RowHistory(l, S, n)
<1> DEFINE A(k) == After(l, S, k)
<1>1. /\ A(0) = Empty
      /\ \A k \in 1..Len(l) : /\ k \in S => A(k) = _apply_work(A(k - 1), l[k])
                              /\ k \notin S => A(k) = A(k - 1)
  BY AfterSteps
<1>2. \A k \in 0..Len(l) : A(k) \in Tables
  BY AfterTables
<1> HIDE DEF A
<1>3. A(0).nodes[n] = NoNode
  BY <1>1, EmptyFacts
<1>4. ASSUME NEW k \in 1..Len(l), k \in S
      PROVE  A(k).nodes[n] = NodeAfter(A(k - 1).nodes[n], l[k], n)
  <2>1. A(k - 1) \in Tables /\ WellFormed(l[k])
    BY <1>2 DEF AllWellFormed
  <2>2. _apply_work(A(k - 1), l[k]).nodes[n] = NodeAfter(A(k - 1).nodes[n], l[k], n)
    BY <2>1, Applied
  <2> QED
    BY <1>1, <1>4, <2>2
<1>5. ASSUME NEW k \in 1..Len(l), k \notin S
      PROVE  A(k).nodes[n] = A(k - 1).nodes[n]
  BY <1>1, <1>5
<1>6. ASSUME NEW k \in 0..Len(l)
      PROVE  A(k).nodes[n] \in NodeRow
  BY <1>2, TableFields
<1> QED
  BY <1>3, <1>4, <1>5, <1>6 DEF A, RowHistory

\* An event that completes a node with something to invoke.
Completes(e) == e.do = "step" /\ e.val = "completed" /\ e.key \in Tasks

\* A plan makes the row of its node anew.
LEMMA RowCreated ==
  ASSUME NEW row, NEW e, WellFormed(e), NEW n \in Nodes, Creates(e, n)
  PROVE  /\ NodeAfter(row, e, n) # NoNode
         /\ NodeAfter(row, e, n).version = 0
         /\ NodeAfter(row, e, n).status = "pending"
<1>1. e.key \in Graphs /\ NodeAfter(row, e, n) = Planned(e.key)
  BY DEF Creates, NodeAfter, WellFormed
<1>2. Planned(e.key) # NoNode
  BY <1>1, RowFacts
<1>3. Planned(e.key).version = 0 /\ Planned(e.key).status = "pending"
  BY DEF Planned
<1> QED
  BY <1>1, <1>2, <1>3

\* An update of a row that is there steps it.
LEMMA RowSteppedBy ==
  ASSUME NEW row \in NodeRow, NEW e, WellFormed(e), NEW n \in Nodes,
         IsUpdate(e, n), row # NoNode
  PROVE  e.do \in {"step", "output"} /\ NodeAfter(row, e, n) = Stepped(row, e)
BY DEF NodeAfter, IsUpdate, Creates

\* It counts the version.
LEMMA RowUpdated ==
  ASSUME NEW row \in NodeRow, NEW e, WellFormed(e), NEW n \in Nodes,
         IsUpdate(e, n), row # NoNode
  PROVE  /\ NodeAfter(row, e, n) # NoNode
         /\ NodeAfter(row, e, n).version = row.version + 1
         /\ n \in Tasks /\ NodeAfter(row, e, n).status = "completed" =>
              row.status = "completed" \/ Completes(e)
<1>1. e.do \in {"step", "output"} /\ NodeAfter(row, e, n) = Stepped(row, e)
  BY RowSteppedBy
<1>2. /\ Stepped(row, e).version = row.version + 1
      /\ Stepped(row, e).status = IF e.do = "step" THEN e.val ELSE row.status
  BY <1>1, SteppedFacts
<1>3. Stepped(row, e) # NoNode
  BY <1>1, RowFacts
<1>4. n \in Tasks /\ Stepped(row, e).status = "completed" =>
        row.status = "completed" \/ Completes(e)
  BY <1>1, <1>2 DEF Completes, IsUpdate
<1> QED
  BY <1>1, <1>2, <1>3, <1>4

\* It keeps an output.
LEMMA RowOutput ==
  ASSUME NEW row \in NodeRow, NEW e, WellFormed(e), NEW n \in Nodes,
         IsUpdate(e, n), row # NoNode, e.do = "output" \/ row.output = TRUE
  PROVE  NodeAfter(row, e, n).output = TRUE
<1>1. e.do \in {"step", "output"} /\ NodeAfter(row, e, n) = Stepped(row, e)
  BY RowSteppedBy
<1>2. Stepped(row, e).output = IF e.do = "output" THEN TRUE ELSE row.output
  BY <1>1, SteppedFacts
<1> QED
  BY <1>1, <1>2, Zenon

\* All else leaves the row alone.
LEMMA RowLeft ==
  ASSUME NEW row, NEW e, NEW n, ~Creates(e, n), ~IsUpdate(e, n) \/ row = NoNode
  PROVE  NodeAfter(row, e, n) = row
BY DEF NodeAfter

\* A row that is there was made by a plan.
LEMMA RowMade ==
  ASSUME NEW l, NEW S, Len(l) \in Nat, AllWellFormed(l), NEW n \in Nodes,
         ReplayOf(l, S).nodes[n] # NoNode
  PROVE  \E c \in S : c \in 1..Len(l) /\ Creates(l[c], n)
<1> DEFINE R(k) == After(l, S, k).nodes[n]
           made == \E c \in S : c \in 1..Len(l) /\ Creates(l[c], n)
           G == {k \in 0..Len(l) : R(k) # NoNode => made}
<1>1. /\ R(0) = NoNode
      /\ \A k \in 1..Len(l) : /\ k \in S => R(k) = NodeAfter(R(k - 1), l[k], n)
                              /\ k \notin S => R(k) = R(k - 1)
      /\ \A k \in 0..Len(l) : R(k) \in NodeRow
  BY RowSteps DEF RowHistory
<1>2. R(Len(l)) # NoNode
  BY DEF ReplayOf
<1> HIDE DEF R
<1>3. 0 \in G
  BY <1>1
<1>4. ASSUME NEW k \in 1..Len(l), k - 1 \in G
      PROVE  k \in G
  <2>1. CASE k \in S
    <3>1. R(k - 1) \in NodeRow /\ WellFormed(l[k])
      BY <1>1 DEF AllWellFormed
    <3>2. Creates(l[k], n) => made
      BY <2>1
    <3>3. ~Creates(l[k], n) /\ R(k - 1) = NoNode => R(k) = NoNode
      BY <1>1, <2>1, <3>1, RowLeft
    <3> HIDE DEF made
    <3> QED
      BY <1>4, <3>2, <3>3
  <2>2. CASE k \notin S
    BY <1>1, <1>4, <2>2
  <2> QED
    BY <2>1, <2>2
<1> HIDE DEF G
<1>5. \A k \in 0..Len(l) : k \in G
  BY <1>3, <1>4, Induct
<1> QED
  BY <1>2, <1>5 DEF G

\* The completed row of a node that is run was completed by an event.
LEMMA RowCompleted ==
  ASSUME NEW l, NEW S, Len(l) \in Nat, AllWellFormed(l), NEW n \in Nodes,
         n \in Tasks, ReplayOf(l, S).nodes[n].status = "completed"
  PROVE  \E c \in S : c \in 1..Len(l) /\ Completes(l[c]) /\ l[c].key = n
<1> DEFINE R(k) == After(l, S, k).nodes[n]
           made == \E c \in S : c \in 1..Len(l) /\ Completes(l[c]) /\ l[c].key = n
           G == {k \in 0..Len(l) : R(k).status = "completed" => made}
<1>1. /\ R(0) = NoNode
      /\ \A k \in 1..Len(l) : /\ k \in S => R(k) = NodeAfter(R(k - 1), l[k], n)
                              /\ k \notin S => R(k) = R(k - 1)
      /\ \A k \in 0..Len(l) : R(k) \in NodeRow
  BY RowSteps DEF RowHistory
<1>2. R(Len(l)).status = "completed"
  BY DEF ReplayOf
<1> HIDE DEF R
<1>3. 0 \in G
  BY <1>1 DEF NoNode
<1>4. ASSUME NEW k \in 1..Len(l), k - 1 \in G
      PROVE  k \in G
  <2>1. CASE k \in S
    <3>1. R(k - 1) \in NodeRow /\ WellFormed(l[k]) /\ R(k) = NodeAfter(R(k - 1), l[k], n)
      BY <1>1, <2>1 DEF AllWellFormed
    <3>2. IsUpdate(l[k], n) /\ Completes(l[k]) => made
      BY <2>1 DEF IsUpdate
    <3>3. CASE Creates(l[k], n)
      <4>1. R(k).status = "pending"
        BY <3>1, <3>3, RowCreated
      <4> QED
        BY <4>1
    <3>4. CASE IsUpdate(l[k], n) /\ R(k - 1) # NoNode
      <4>1. R(k).status = "completed" => R(k - 1).status = "completed" \/ Completes(l[k])
        BY <3>1, <3>4, RowUpdated
      <4> HIDE DEF made
      <4> QED
        BY <1>4, <3>2, <3>4, <4>1
    <3>5. CASE ~Creates(l[k], n) /\ (~IsUpdate(l[k], n) \/ R(k - 1) = NoNode)
      <4>1. R(k) = R(k - 1)
        BY <3>1, <3>5, RowLeft
      <4> HIDE DEF made
      <4> QED
        BY <1>4, <4>1
    <3> QED
      BY <3>3, <3>4, <3>5
  <2>2. CASE k \notin S
    <3>1. R(k) = R(k - 1)
      BY <1>1, <2>2
    <3> HIDE DEF made
    <3> QED
      BY <1>4, <3>1
  <2> QED
    BY <2>1, <2>2
<1> HIDE DEF G
<1>5. \A k \in 0..Len(l) : k \in G
  BY <1>3, <1>4, Induct
<1> QED
  BY <1>2, <1>5 DEF G

\* An output that was recorded after the only plan of the node stays.
LEMMA OutputKept ==
  ASSUME NEW l, NEW S, Len(l) \in Nat, AllWellFormed(l), NEW n \in Nodes,
         S \subseteq 1..Len(l), NEW m \in S, NEW o \in S, m < o, Creates(l[m], n),
         l[o].do = "output", l[o].key = n,
         \A c \in S : Creates(l[c], n) => c = m
  PROVE  ReplayOf(l, S).nodes[n].output = TRUE
<1> DEFINE R(k) == After(l, S, k).nodes[n]
           G == {k \in 0..Len(l) : /\ k >= m => R(k) # NoNode
                                   /\ k >= o => R(k).output = TRUE}
<1>a. RowHistory(l, S, n)
  BY RowSteps DEF RowHistory
<1>0. m \in 1..Len(l) /\ o \in 1..Len(l)
  OBVIOUS
<1>1. /\ R(0) = NoNode
      /\ \A k \in 1..Len(l) : /\ k \in S => R(k) = NodeAfter(R(k - 1), l[k], n)
                              /\ k \notin S => R(k) = R(k - 1)
      /\ \A k \in 0..Len(l) : R(k) \in NodeRow
  BY <1>a DEF RowHistory
<1>2. \A k \in 0..Len(l) : R(k) \in NodeRow
  BY <1>1
<1> HIDE DEF R
<1>3. 0 \in G
  BY <1>0
<1>4. ASSUME NEW k \in 1..Len(l), k - 1 \in G
      PROVE  k \in G
  <2>0. /\ k - 1 >= m => R(k - 1) # NoNode
        /\ k - 1 >= o => R(k - 1).output = TRUE
    BY <1>4
  <2>1. CASE k < m
    BY <2>1
  <2>2. CASE k = m
    <3>1. R(k) = NodeAfter(R(k - 1), l[k], n) /\ WellFormed(l[k]) /\ Creates(l[k], n)
      BY <1>1, <2>2 DEF AllWellFormed
    <3>2. R(k) # NoNode
      BY <3>1, RowCreated
    <3> QED
      BY <2>2, <3>2
  <2>3. CASE k > m /\ k \notin S
    <3>1. R(k) = R(k - 1) /\ k - 1 >= m /\ (k >= o => k - 1 >= o)
      BY <1>1, <2>3
    <3> QED
      BY <2>0, <3>1
  <2>4. CASE k > m /\ k \in S
    <3>1. R(k) = NodeAfter(R(k - 1), l[k], n) /\ R(k - 1) \in NodeRow /\ WellFormed(l[k])
      BY <1>1, <1>2, <2>4 DEF AllWellFormed
    <3>2. R(k - 1) # NoNode /\ ~Creates(l[k], n)
      BY <2>0, <2>4
    <3>3. CASE IsUpdate(l[k], n)
      <4>0. R(k) # NoNode
        BY <3>1, <3>2, <3>3, RowUpdated
      <4>1. l[k].do = "output" \/ R(k - 1).output = TRUE => R(k).output = TRUE
        BY <3>1, <3>2, <3>3, RowOutput
      <4>2. k >= o => k = o \/ k - 1 >= o
        BY <2>4
      <4>3. k >= o => R(k).output = TRUE
        BY <2>0, <4>1, <4>2
      <4> QED
        BY <4>0, <4>3
    <3>4. CASE ~IsUpdate(l[k], n)
      <4>1. R(k) = R(k - 1)
        BY <3>1, <3>2, <3>4, RowLeft
      <4>2. k # o
        BY <3>4 DEF IsUpdate
      <4>3. k >= o => k - 1 >= o
        BY <2>4, <4>2
      <4> QED
        BY <2>0, <3>2, <4>1, <4>3
    <3> QED
      BY <3>3, <3>4
  <2>5. k < m \/ k = m \/ k > m
    BY <1>0
  <2> QED
    BY <2>1, <2>2, <2>3, <2>4, <2>5, Zenon
<1> HIDE DEF G
<1>5. \A k \in 0..Len(l) : k \in G
  BY <1>3, <1>4, Induct
<1>6. Len(l) >= o /\ Len(l) \in G
  BY <1>0, <1>5
<1>7. R(Len(l)).output = TRUE
  BY <1>6 DEF G
<1> QED
  BY <1>7 DEF ReplayOf, R

\* Of two replays of the same plans of a node, the one that also has an update
\* after all the others gives the higher version.
LEMMA VersionHigher ==
  ASSUME NEW l, Len(l) \in Nat, AllWellFormed(l), NEW n \in Nodes,
         NEW i \in 1..Len(l), IsUpdate(l[i], n),
         NEW A, A \subseteq 1..(i - 1), NEW B, A \subseteq B, i \in B,
         \A c \in B : Creates(l[c], n) => c \in A,
         ReplayOf(l, A).nodes[n] # NoNode
  PROVE  ReplayOf(l, A).nodes[n].version < ReplayOf(l, B).nodes[n].version
<1> DEFINE R(k) == After(l, A, k).nodes[n]
           Q(k) == After(l, B, k).nodes[n]
           G == {k \in 0..Len(l) :
                   R(k) # NoNode => /\ Q(k) # NoNode
                                    /\ R(k).version <= Q(k).version
                                    /\ k >= i => R(k).version < Q(k).version}
<1>1. /\ R(0) = NoNode
      /\ \A k \in 1..Len(l) : /\ k \in A => R(k) = NodeAfter(R(k - 1), l[k], n)
                              /\ k \notin A => R(k) = R(k - 1)
  BY RowSteps DEF RowHistory
<1>2. \A k \in 1..Len(l) : /\ k \in B => Q(k) = NodeAfter(Q(k - 1), l[k], n)
                           /\ k \notin B => Q(k) = Q(k - 1)
  BY ZenonT(60), RowSteps DEF RowHistory
<1>3. \A k \in 0..Len(l) : R(k) \in NodeRow /\ Q(k) \in NodeRow
  BY RowSteps DEF RowHistory
<1>4. R(Len(l)) # NoNode
  BY DEF ReplayOf
<1> HIDE DEF R, Q
<1>5. \A k \in 0..Len(l) : R(k).version \in Nat /\ Q(k).version \in Nat
  BY <1>3 DEF NodeRow
<1>6. 0 \in G
  BY <1>1
<1>7. ASSUME NEW k \in 1..Len(l), k - 1 \in G
      PROVE  k \in G
  <2>0. /\ k - 1 \in 0..Len(l) /\ k \in 0..Len(l)
        /\ R(k - 1) # NoNode => /\ Q(k - 1) # NoNode
                                /\ R(k - 1).version <= Q(k - 1).version
                                /\ k - 1 >= i => R(k - 1).version < Q(k - 1).version
    BY <1>7
  <2>1. /\ WellFormed(l[k]) /\ R(k - 1) \in NodeRow /\ Q(k - 1) \in NodeRow
        /\ R(k - 1).version \in Nat /\ Q(k - 1).version \in Nat
    BY <1>3, <1>5, <2>0 DEF AllWellFormed
  <2>2. CASE k \notin B
    <3>1. k \notin A /\ k # i /\ R(k) = R(k - 1) /\ Q(k) = Q(k - 1)
      BY <1>1, <1>2, <2>2
    <3> QED
      BY <2>0, <3>1
  <2>3. CASE k \in B /\ Creates(l[k], n)
    <3>1. k \in A /\ k < i
      BY <2>3
    <3>2. R(k) = NodeAfter(R(k - 1), l[k], n) /\ Q(k) = NodeAfter(Q(k - 1), l[k], n)
      BY <1>1, <1>2, <2>3, <3>1
    <3>3. R(k).version = 0
      BY <2>1, <2>3, <3>2, RowCreated
    <3>4. Q(k) # NoNode /\ Q(k).version = 0
      BY <2>1, <2>3, <3>2, RowCreated
    <3> QED
      BY <3>1, <3>3, <3>4
  <2>4. CASE k \in B /\ ~Creates(l[k], n) /\ ~IsUpdate(l[k], n)
    <3>1. k # i
      BY <2>4
    <3>2. Q(k) = Q(k - 1)
      BY <1>2, <2>1, <2>4, RowLeft
    <3>3. R(k) = R(k - 1)
      BY <1>1, <2>1, <2>4, RowLeft
    <3> QED
      BY <2>0, <3>1, <3>2, <3>3
  <2>5. CASE k \in A /\ ~Creates(l[k], n) /\ IsUpdate(l[k], n)
    <3>1. k < i /\ R(k) = NodeAfter(R(k - 1), l[k], n) /\ Q(k) = NodeAfter(Q(k - 1), l[k], n)
      BY <1>1, <1>2, <2>5
    <3>2. CASE R(k - 1) = NoNode
      <4>1. R(k) = NoNode
        BY <2>1, <2>5, <3>1, <3>2, RowLeft
      <4> QED
        BY <4>1
    <3>3. CASE R(k - 1) # NoNode
      <4>1. R(k).version = R(k - 1).version + 1
        BY <2>1, <2>5, <3>1, <3>3, RowUpdated
      <4>2. Q(k) # NoNode /\ Q(k).version = Q(k - 1).version + 1
        BY <2>0, <2>1, <2>5, <3>1, <3>3, RowUpdated
      <4> QED
        BY <2>0, <2>1, <3>1, <3>3, <4>1, <4>2
    <3> QED
      BY <3>2, <3>3
  <2>6. CASE k \in B /\ k \notin A /\ ~Creates(l[k], n) /\ IsUpdate(l[k], n)
    <3>1. R(k) = R(k - 1) /\ Q(k) = NodeAfter(Q(k - 1), l[k], n)
      BY <1>1, <1>2, <2>6
    <3>2. CASE R(k - 1) = NoNode
      BY <3>1, <3>2
    <3>3. CASE R(k - 1) # NoNode
      <4>1. Q(k) # NoNode /\ Q(k).version = Q(k - 1).version + 1
        BY <2>0, <2>1, <2>6, <3>1, <3>3, RowUpdated
      <4> QED
        BY <2>0, <2>1, <3>1, <3>3, <4>1
    <3> QED
      BY <3>2, <3>3
  <2> QED
    BY <2>2, <2>3, <2>4, <2>5, <2>6
<1> HIDE DEF G
<1>8. \A k \in 0..Len(l) : k \in G
  BY <1>6, <1>7, Induct
<1>9. Len(l) \in G /\ Len(l) >= i
  BY <1>8
<1>10. R(Len(l)).version < Q(Len(l)).version
  BY <1>4, <1>9 DEF G
<1> QED
  BY <1>10 DEF ReplayOf, R, Q
-----------------------------------------------------------------------------
(* The inductive invariant.                                                  *)

\* The calls of a command.
CallRec == [do : {"create", "graph", "step", "output", "attempt"},
            key : Graphs \cup Nodes,
            val : {"draft", "running", "json"} \cup NodeStatuses,
            checked : BOOLEAN, ahead : {0, 1}]

\* Outputs and completions are checked, and only updates are.
CallOK(c) ==
  /\ WellFormed(c)
  /\ c.checked => c.do \in {"step", "output"}
  /\ Completes(c) \/ c.do = "output" => c.checked

\* A node is completed right after its output was recorded.
CallsOK(cs) ==
  /\ cs \in Seq(CallRec)
  /\ \A k \in 1..Len(cs) : CallOK(cs[k])
  /\ \A k \in 2..Len(cs) : Completes(cs[k]) =>
       cs[k - 1].do = "output" /\ cs[k - 1].key = cs[k].key

\* Where a process can be.
ProcRec == [calls : Seq(CallRec), at : {"call", "read", "passed", "emitted", "rebuild"},
            ver : Nat, known : SUBSET Nat, fair : BOOLEAN, idx : Nat]

\* A checked update found a row that a plan in S had made and, with tables
\* that were a replay, one of version v.
Seen(l, S, fair, n, v) ==
  /\ \E c \in S : Creates(l[c], n)
  /\ fair => ReplayOf(l, S).nodes[n] # NoNode /\ ReplayOf(l, S).nodes[n].version = v

\* An output of n is among the events of S.
Recorded(l, S, n) == \E o \in S : l[o].do = "output" /\ l[o].key = n /\ l[o].saw >= 0

\* What the j-th event says about the tables its writer saw.
EventOK(l, j) ==
  /\ WellFormed(l[j])
  /\ l[j].known \subseteq 1..(j - 1)
  /\ \A i \in l[j].known : l[i].known \subseteq l[j].known
  /\ l[j].saw >= 0 => /\ l[j].do \in {"step", "output"}
                      /\ Seen(l, l[j].known, l[j].fair, l[j].key, l[j].saw)
  /\ Completes(l[j]) => l[j].saw >= 0 /\ Recorded(l, l[j].known, l[j].key)

\* What a process that was let through its check knows.
PassedOK(l, s) ==
  /\ \A i \in s.known : l[i].known \subseteq s.known
  /\ Seen(l, s.known, s.fair, s.calls[1].key, s.ver + s.calls[1].ahead)
  /\ Completes(s.calls[1]) => Recorded(l, s.known, s.calls[1].key)

\* What a process that has appended still has to fold.
EmittedOK(l, s) ==
  /\ s.idx \in 1..Len(l)
  /\ l[s.idx].do = s.calls[1].do /\ l[s.idx].key = s.calls[1].key
  /\ s.calls[1].checked => l[s.idx].saw >= 0

\* What a process knows of the log and of the folded events.
ProcOK(l, fo, s) ==
  /\ s \in ProcRec /\ CallsOK(s.calls) /\ s.idx \in 0..Len(l) /\ s.known \subseteq fo
  /\ s.at \in {"read", "passed", "emitted"} => s.calls # <<>>
  /\ s.at \in {"read", "passed"} => s.calls[1].checked
  /\ s.at # "passed" => s.known = {}
  /\ s.at = "passed" => PassedOK(l, s)
  /\ s.at = "emitted" => EmittedOK(l, s)
  /\ s.at = "rebuild" => fo \subseteq 1..s.idx
  /\ s.calls # <<>> /\ Completes(s.calls[1]) => Recorded(l, fo, s.calls[1].key)

\* The log.
LogInv(l, fo) ==
  /\ l \in Seq(Event) /\ Len(l) <= MaxLog
  /\ fo \in SUBSET (1..Len(l))
  /\ \A j \in 1..Len(l) : EventOK(l, j) /\ l[j].known \subseteq fo

\* The tables.
TablesInv(l, t, fo, tang) ==
  /\ t \in Tables /\ tang \in BOOLEAN
  /\ \A n \in Nodes : t.nodes[n] # NoNode => \E c \in fo : Creates(l[c], n)
  /\ tang \/ t = ReplayOf(l, fo)

\* The processes; one of them at most rebuilds.
ProcsInv ==
  /\ proc \in [Procs -> ProcRec]
  /\ \A p \in Procs : ProcOK(log, folded, proc[p])
  /\ \A p, q \in Procs : proc[p].at = "rebuild" /\ proc[q].at = "rebuild" => p = q

\* All of it.
Inv ==
  /\ LogInv(log, folded) /\ TablesInv(log, db, folded, tangled) /\ ProcsInv
  /\ crashes \in 0..MaxCrashes /\ NothingLost
-----------------------------------------------------------------------------
(* What is known stays known when the log grows and events are folded.       *)

\* What a check has seen.
LEMMA SeenKept ==
  ASSUME NEW l, NEW l2, Extends(l2, l), NEW S, S \subseteq 1..Len(l),
         NEW fair, NEW n, NEW v, Seen(l, S, fair, n, v)
  PROVE  Seen(l2, S, fair, n, v)
<1>1. ReplayOf(l2, S) = ReplayOf(l, S)
  BY PrefixReplay
<1>2. \A c \in S : l2[c] = l[c]
  BY DEF Extends
<1>3. \E c \in S : Creates(l2[c], n)
  BY <1>2 DEF Seen
<1> QED
  BY <1>1, <1>3, Zenon DEF Seen

\* An output.
LEMMA RecordedKept ==
  ASSUME NEW l, NEW l2, Extends(l2, l), NEW S, S \subseteq 1..Len(l),
         NEW T, S \subseteq T, NEW n, Recorded(l, S, n)
  PROVE  Recorded(l2, T, n)
<1>1. \A c \in S : l2[c] = l[c]
  BY DEF Extends
<1> QED
  BY <1>1 DEF Recorded

\* An event.
LEMMA EventKept ==
  ASSUME NEW l, NEW l2, Extends(l2, l), NEW j \in 1..Len(l), EventOK(l, j)
  PROVE  EventOK(l2, j)
<1> DEFINE e == l[j]
<1>1. l2[j] = e /\ Len(l) \in Nat
  BY DEF Extends
<1>2. e.known \subseteq 1..Len(l) /\ \A i \in e.known : l2[i] = l[i]
  BY SMTT(30), ZenonT(30), <1>1 DEF EventOK, Extends
<1>3. \A i \in e.known : l2[i].known \subseteq e.known
  BY <1>2 DEF EventOK
<1>4. e.saw >= 0 => /\ e.do \in {"step", "output"}
                    /\ Seen(l2, e.known, e.fair, e.key, e.saw)
  BY <1>2, SeenKept DEF EventOK
<1>5. Completes(e) => e.saw >= 0 /\ Recorded(l2, e.known, e.key)
  BY <1>2, RecordedKept DEF EventOK
<1>6. WellFormed(e) /\ e.known \subseteq 1..(j - 1)
  BY DEF EventOK
<1> HIDE DEF e
<1> QED
  BY <1>1, <1>3, <1>4, <1>5, <1>6 DEF EventOK

\* What another process knows.
LEMMA ProcKept ==
  ASSUME NEW l, NEW l2, Extends(l2, l), NEW fo, NEW fo2, NEW s,
         fo \subseteq 1..Len(l), fo \subseteq fo2, ProcOK(l, fo, s),
         s.at = "rebuild" => fo2 \subseteq 1..s.idx
  PROVE  ProcOK(l2, fo2, s)
<1>1. /\ s \in ProcRec /\ CallsOK(s.calls) /\ s.idx \in 0..Len(l) /\ s.known \subseteq fo
      /\ s.at \in {"read", "passed", "emitted"} => s.calls # <<>>
      /\ s.at \in {"read", "passed"} => s.calls[1].checked
      /\ s.at # "passed" => s.known = {}
  BY DEF ProcOK
<1>2. s.idx \in 0..Len(l2) /\ s.known \subseteq fo2 /\ s.known \subseteq 1..Len(l)
  <2>1. Len(l2) \in Nat /\ Len(l) \in Nat /\ Len(l) <= Len(l2) /\ s.idx \in 0..Len(l)
    BY <1>1 DEF Extends
  <2>2. s.idx \in 0..Len(l2)
    BY <2>1
  <2> QED
    BY <1>1, <2>2
<1>3. ASSUME s.at = "passed"
      PROVE  PassedOK(l2, s)
  <2>1. PassedOK(l, s)
    BY <1>3 DEF ProcOK
  <2>2. \A i \in s.known : l2[i] = l[i]
    BY <1>2 DEF Extends
  <2>3. Seen(l2, s.known, s.fair, s.calls[1].key, s.ver + s.calls[1].ahead)
    BY <1>2, <2>1, SeenKept DEF PassedOK
  <2>4. Completes(s.calls[1]) => Recorded(l2, s.known, s.calls[1].key)
    BY <1>2, <2>1, RecordedKept DEF PassedOK
  <2> QED
    BY <2>1, <2>2, <2>3, <2>4 DEF PassedOK
<1>4. ASSUME s.at = "emitted"
      PROVE  EmittedOK(l2, s)
  <2>1. EmittedOK(l, s)
    BY <1>4 DEF ProcOK
  <2>2. s.idx \in 1..Len(l2) /\ l2[s.idx] = l[s.idx]
    BY <2>1 DEF EmittedOK, Extends
  <2> QED
    BY <2>1, <2>2 DEF EmittedOK
<1>5. s.calls # <<>> /\ Completes(s.calls[1]) => Recorded(l2, fo2, s.calls[1].key)
  <2>1. s.calls # <<>> /\ Completes(s.calls[1]) => Recorded(l, fo, s.calls[1].key)
    BY DEF ProcOK
  <2>2. Recorded(l, fo, s.calls[1].key) => Recorded(l2, fo2, s.calls[1].key)
    BY RecordedKept
  <2> QED
    BY <2>1, <2>2
<1> QED
  BY <1>1, <1>2, <1>3, <1>4, <1>5 DEF ProcOK

\* The tables, when an event is appended.
LEMMA TablesKept ==
  ASSUME NEW l, NEW l2, Extends(l2, l), NEW t, NEW fo, fo \subseteq 1..Len(l),
         NEW tang, TablesInv(l, t, fo, tang)
  PROVE  TablesInv(l2, t, fo, tang)
<1>1. ReplayOf(l2, fo) = ReplayOf(l, fo)
  BY PrefixReplay
<1>2. \A c \in fo : l2[c] = l[c]
  BY DEF Extends
<1>3. \A n \in Nodes : t.nodes[n] # NoNode => \E c \in fo : Creates(l2[c], n)
  BY <1>2 DEF TablesInv
<1> QED
  BY <1>1, <1>3, Zenon DEF TablesInv

\* A log extends itself.
LEMMA SameLog ==
  ASSUME NEW l, Len(l) \in Nat
  PROVE  Extends(l, l)
BY DEF Extends

\* A step of one process, by what it leaves: its own record, a log that has
\* grown, more folded events unless another one rebuilds, and the tables.
LEMMA StepOK ==
  ASSUME Inv, NEW p \in Procs, NEW r,
         proc' = [proc EXCEPT ![p] = r],
         ProcOK(log', folded', r),
         Extends(log', log), folded \subseteq folded',
         LogInv(log', folded'), TablesInv(log', db', folded', tangled'),
         \A q \in Procs : q # p /\ proc[q].at = "rebuild" => folded' = folded,
         \A q \in Procs : q # p /\ proc[q].at = "rebuild" => r.at # "rebuild",
         crashes' \in 0..MaxCrashes, NothingLost'
  PROVE  Inv'
<1>1. proc \in [Procs -> ProcRec] /\ r \in ProcRec /\ folded \subseteq 1..Len(log)
  BY DEF Inv, ProcsInv, ProcOK, LogInv
<1>2. proc' \in [Procs -> ProcRec] /\ proc'[p] = r /\ \A q \in Procs : q # p => proc'[q] = proc[q]
  BY <1>1
<1>3. ASSUME NEW q \in Procs, q # p
      PROVE  ProcOK(log', folded', proc[q])
  <2>1. ProcOK(log, folded, proc[q])
    BY DEF Inv, ProcsInv
  <2>2. proc[q].at = "rebuild" => folded' \subseteq 1..proc[q].idx
    BY <1>3, <2>1 DEF ProcOK
  <2> QED
    BY <1>1, <2>1, <2>2, ProcKept
<1>4. \A q \in Procs : ProcOK(log', folded', proc'[q])
  BY <1>2, <1>3
<1>5. \A q, u \in Procs : proc'[q].at = "rebuild" /\ proc'[u].at = "rebuild" => q = u
  BY <1>2 DEF Inv, ProcsInv
<1>6. ProcsInv'
  BY <1>2, <1>4, <1>5 DEF ProcsInv
<1> QED
  BY <1>6 DEF Inv

\* A step that only changes what its process is doing.
LEMMA LocalOK ==
  ASSUME Inv, NEW p \in Procs, NEW r,
         proc' = [proc EXCEPT ![p] = r],
         UNCHANGED <<log, db, folded, tangled>>,
         ProcOK(log, folded, r),
         \A q \in Procs : q # p /\ proc[q].at = "rebuild" => r.at # "rebuild",
         crashes' = crashes \/ (crashes' \in 0..MaxCrashes /\ crashes' # 0),
         proc[p].at # "emitted" \/ crashes' # 0
  PROVE  Inv'
<1>1. log' = log /\ db' = db /\ folded' = folded /\ tangled' = tangled
  OBVIOUS
<1>2. LogInv(log', folded') /\ TablesInv(log', db', folded', tangled')
  BY <1>1 DEF Inv
<1>3. Extends(log', log)
  BY <1>1, SameLog DEF Inv, LogInv
<1>4. crashes' \in 0..MaxCrashes /\ ProcOK(log', folded', r)
  BY <1>1 DEF Inv
<1>5. NothingLost'
  <2> SUFFICES ASSUME crashes' = 0, NEW i \in 1..Len(log)
               PROVE  i \in folded \/ InFlight(i)'
    BY <1>1 DEF NothingLost
  <2>1. crashes = 0 /\ proc[p].at # "emitted"
    OBVIOUS
  <2>2. i \in folded \/ InFlight(i)
    BY <2>1 DEF Inv, NothingLost
  <2>3. \A q \in Procs : q # p => proc'[q] = proc[q]
    BY DEF Inv, ProcsInv
  <2> QED
    BY <2>1, <2>2, <2>3 DEF InFlight
<1>6. folded \subseteq folded' /\ \A q \in Procs : q # p /\ proc[q].at = "rebuild" => folded' = folded
  BY <1>1
<1> QED
  BY <1>2, <1>3, <1>4, <1>5, <1>6, StepOK
-----------------------------------------------------------------------------
(* Commands.                                                                 *)

\* A process at rest.
LEMMA IdleOK ==
  ASSUME NEW l, NEW fo, Len(l) \in Nat
  PROVE  ProcOK(l, fo, Idle)
<1>1. Idle \in ProcRec
  <2>1. <<>> \in Seq(CallRec) /\ {} \in SUBSET Nat
    OBVIOUS
  <2> QED
    BY <2>1 DEF Idle, ProcRec
<1>2. CallsOK(<<>>)
  BY DEF CallsOK
<1> QED
  BY <1>1, <1>2 DEF ProcOK, Idle

\* A command of well-formed calls that does not begin with a completion.
LEMMA StartOK ==
  ASSUME Inv, NEW p \in Procs, NEW cs, CallsOK(cs), ~Completes(cs[1]), Start(p, cs)
  PROVE  Inv'
<1> DEFINE r == [Idle EXCEPT !.calls = cs]
<1>1. proc[p] = Idle /\ proc \in [Procs -> ProcRec]
  BY DEF Start, Inv, ProcsInv
<1>2. /\ proc' = [proc EXCEPT ![p].calls = cs] /\ crashes' = crashes
      /\ UNCHANGED <<log, db, folded, tangled>>
  BY DEF Start
<1>3. proc' = [proc EXCEPT ![p] = r]
  BY <1>1, <1>2
<1>4. r.calls = cs /\ r.at = "call" /\ r.known = {} /\ r.idx = 0
  BY DEF Idle
<1>5. r \in ProcRec
  <2>1. cs \in Seq(CallRec)
    BY DEF CallsOK
  <2>2. Idle \in ProcRec
    BY IdleOK DEF ProcOK, Inv, LogInv
  <2> QED
    BY <2>1, <2>2 DEF ProcRec
<1>6. Len(log) \in Nat
  BY DEF Inv, LogInv
<1> HIDE DEF r
<1>7. ProcOK(log, folded, r)
  BY <1>4, <1>5, <1>6 DEF ProcOK
<1>8. r.at # "rebuild" /\ proc[p].at # "emitted"
  BY <1>1, <1>4 DEF Idle
<1> QED
  BY <1>2, <1>3, <1>7, <1>8, LocalOK

\* The calls of a command with one call.
LEMMA OneCall ==
  ASSUME NEW c \in CallRec, CallOK(c)
  PROVE  CallsOK(<<c>>)
<1>1. <<c>> \in Seq(CallRec) /\ Len(<<c>>) = 1 /\ <<c>>[1] = c
  OBVIOUS
<1> QED
  BY <1>1 DEF CallsOK

\* Calls without a check.
LEMMA PlainCall ==
  ASSUME NEW do \in {"create", "graph", "step", "attempt"},
         NEW key \in Graphs \cup Nodes,
         NEW val \in {"draft", "running"} \cup NodeStatuses,
         WellFormed(Call(do, key, val)), ~Completes(Call(do, key, val))
  PROVE  Call(do, key, val) \in CallRec /\ CallOK(Call(do, key, val))
<1> DEFINE c == Call(do, key, val)
<1>1. /\ c.do = do /\ c.key = key /\ c.val = val /\ c.checked = FALSE /\ c.ahead = 0
      /\ c \in CallRec
  BY DEF Call, CallRec
<1> HIDE DEF c
<1>2. ~Completes(c) /\ c.do # "output"
  BY <1>1 DEF c
<1>3. WellFormed(c)
  BY DEF c
<1>4. CallOK(c)
  BY <1>1, <1>2, <1>3 DEF CallOK
<1> QED
  BY <1>1, <1>2, <1>4 DEF c

\* Calls with a check.
LEMMA CheckedCall ==
  ASSUME NEW do \in {"step", "output"}, NEW key \in Nodes,
         NEW val \in {"json"} \cup NodeStatuses, NEW ahead \in {0, 1},
         do = "step" => val # "json"
  PROVE  /\ Checked(do, key, val, ahead) \in CallRec
         /\ CallOK(Checked(do, key, val, ahead))
         /\ Checked(do, key, val, ahead).do = do
         /\ Checked(do, key, val, ahead).key = key
         /\ Checked(do, key, val, ahead).val = val
<1> DEFINE c == Checked(do, key, val, ahead)
<1>1. c.do = do /\ c.key = key /\ c.val = val
  BY DEF Checked, Call
<1>2. c.checked = TRUE /\ c \in CallRec
  BY DEF Checked, Call, CallRec
<1> HIDE DEF c
<1>3. WellFormed(c)
  BY <1>1 DEF WellFormed
<1>4. CallOK(c)
  BY <1>1, <1>2, <1>3 DEF CallOK
<1> QED
  BY <1>1, <1>2, <1>4 DEF c

\* What Supervisor.run does for a node whose adapter succeeds.
LEMMA RunCalls ==
  ASSUME NEW n \in Nodes
  PROVE  /\ CallsOK(<<Call("attempt", n, "running")>> \o Finish(n))
         /\ ~Completes((<<Call("attempt", n, "running")>> \o Finish(n))[1])
<1> DEFINE a == Call("attempt", n, "running")
           b == Call("attempt", n, "completed")
           c == Checked("output", n, "json", 0)
           d == Checked("step", n, "completed", 1)
           cs == <<a>> \o <<b, c, d>>
<1>1. a \in CallRec /\ CallOK(a) /\ ~Completes(a)
  <2>1. WellFormed(a) /\ ~Completes(a)
    BY DEF WellFormed, Call, Completes
  <2> QED
    BY <2>1, PlainCall
<1>2. b \in CallRec /\ CallOK(b) /\ ~Completes(b)
  <2>1. WellFormed(b) /\ ~Completes(b)
    BY DEF WellFormed, Call, Completes
  <2> QED
    BY <2>1, PlainCall DEF NodeStatuses
<1>3. c \in CallRec /\ CallOK(c) /\ c.do = "output" /\ c.key = n
  BY CheckedCall
<1>4. d \in CallRec /\ CallOK(d) /\ d.key = n
  BY CheckedCall DEF NodeStatuses
<1>5. Finish(n) = <<b, c, d>>
  BY DEF Finish
<1> HIDE DEF a, b, c, d
<1>6. ~Completes(c)
  BY <1>3 DEF Completes
<1>7. /\ cs \in Seq(CallRec) /\ Len(cs) = 4
      /\ cs[1] = a /\ cs[2] = b /\ cs[3] = c /\ cs[4] = d
  BY <1>1, <1>2, <1>3, <1>4
<1> HIDE DEF cs
<1>8. \A k \in 1..Len(cs) : CallOK(cs[k])
  <2>1. \A k \in 1..4 : k = 1 \/ k = 2 \/ k = 3 \/ k = 4
    OBVIOUS
  <2> QED
    BY <1>1, <1>2, <1>3, <1>4, <1>7, <2>1
<1>9. \A k \in 2..Len(cs) : Completes(cs[k]) =>
        cs[k - 1].do = "output" /\ cs[k - 1].key = cs[k].key
  <2>1. \A k \in 2..4 : k = 2 \/ k = 3 \/ (k = 4 /\ k - 1 = 3)
    OBVIOUS
  <2> QED
    BY <1>2, <1>3, <1>4, <1>6, <1>7, <2>1
<1>10. CallsOK(cs) /\ ~Completes(cs[1])
  BY <1>1, <1>7, <1>8, <1>9 DEF CallsOK
<1> QED
  BY <1>5, <1>10 DEF cs, a

\* And for one whose tries are used up.
LEMMA GiveUpCalls ==
  ASSUME NEW n \in Nodes
  PROVE  /\ CallsOK(<<Call("attempt", n, "running")>> \o GiveUp(n))
         /\ ~Completes((<<Call("attempt", n, "running")>> \o GiveUp(n))[1])
<1> DEFINE a == Call("attempt", n, "running")
           b == Call("attempt", n, "failed")
           d == Checked("step", n, "failed", 0)
           cs == <<a>> \o <<b, d>>
<1>1. a \in CallRec /\ CallOK(a) /\ ~Completes(a)
  <2>1. WellFormed(a) /\ ~Completes(a)
    BY DEF WellFormed, Call, Completes
  <2> QED
    BY <2>1, PlainCall
<1>2. b \in CallRec /\ CallOK(b) /\ ~Completes(b)
  <2>1. WellFormed(b) /\ ~Completes(b)
    BY DEF WellFormed, Call, Completes
  <2> QED
    BY <2>1, PlainCall DEF NodeStatuses
<1>3. d \in CallRec /\ CallOK(d) /\ ~Completes(d)
  <2>1. d \in CallRec /\ CallOK(d) /\ d.val = "failed"
    BY CheckedCall DEF NodeStatuses
  <2> HIDE DEF d
  <2> QED
    BY <2>1 DEF Completes
<1>4. GiveUp(n) = <<b, d>>
  BY DEF GiveUp
<1> HIDE DEF a, b, d
<1>5. /\ cs \in Seq(CallRec) /\ Len(cs) = 3
      /\ cs[1] = a /\ cs[2] = b /\ cs[3] = d
  BY <1>1, <1>2, <1>3
<1> HIDE DEF cs
<1>6. \A k \in 1..Len(cs) : CallOK(cs[k]) /\ ~Completes(cs[k])
  <2>1. \A k \in 1..3 : k = 1 \/ k = 2 \/ k = 3
    OBVIOUS
  <2> QED
    BY <1>1, <1>2, <1>3, <1>5, <2>1
<1>7. CallsOK(cs) /\ ~Completes(cs[1])
  BY <1>1, <1>5, <1>6 DEF CallsOK
<1> QED
  BY <1>4, <1>7 DEF cs, a

\* The commands keep the invariant.
LEMMA CommandOK ==
  ASSUME Inv, NEW p \in Procs,
         \/ \E g \in Graphs : create(p, g) \/ set_graph_status(p, g)
         \/ \E n \in Nodes : \/ refresh_readiness(p, n) \/ run(p, n) \/ complete(p, n)
                               \/ block(p, n) \/ unblock(p, n)
  PROVE  Inv'
<1>1. ASSUME NEW c \in CallRec, CallOK(c), ~Completes(c), Start(p, <<c>>)
      PROVE  Inv'
  <2>1. CallsOK(<<c>>) /\ <<c>>[1] = c
    BY <1>1, OneCall
  <2> QED
    BY <1>1, <2>1, StartOK
<1>2. ASSUME NEW g \in Graphs, create(p, g)
      PROVE  Inv'
  <2>1. /\ WellFormed(Call("create", g, "draft"))
        /\ ~Completes(Call("create", g, "draft"))
    BY DEF WellFormed, Call, Completes
  <2>2. /\ Call("create", g, "draft") \in CallRec /\ CallOK(Call("create", g, "draft"))
        /\ ~Completes(Call("create", g, "draft"))
    BY <2>1, PlainCall
  <2> QED
    BY <1>1, <1>2, <2>2 DEF create
<1>3. ASSUME NEW g \in Graphs, set_graph_status(p, g)
      PROVE  Inv'
  <2>1. /\ WellFormed(Call("graph", g, "running"))
        /\ ~Completes(Call("graph", g, "running"))
    BY DEF WellFormed, Call, Completes
  <2>2. /\ Call("graph", g, "running") \in CallRec /\ CallOK(Call("graph", g, "running"))
        /\ ~Completes(Call("graph", g, "running"))
    BY <2>1, PlainCall
  <2> QED
    BY <1>1, <1>3, <2>2 DEF set_graph_status
<1>4. ASSUME NEW n \in Nodes, refresh_readiness(p, n)
      PROVE  Inv'
  <2>1. PICK st \in NodeStatuses : Start(p, <<Call("step", n, st)>>)
    BY <1>4 DEF refresh_readiness
  <2>2. n \notin Tasks
    BY <1>4 DEF refresh_readiness, Tasks
  <2>3. WellFormed(Call("step", n, st)) /\ ~Completes(Call("step", n, st))
    BY <2>2 DEF WellFormed, Call, Completes
  <2>4. Call("step", n, st) \in CallRec /\ CallOK(Call("step", n, st))
    BY <2>3, PlainCall
  <2> QED
    BY <1>1, <2>1, <2>3, <2>4
<1>5. ASSUME NEW n \in Nodes, run(p, n)
      PROVE  Inv'
  <2>1. PICK rest \in {Finish(n), GiveUp(n)} :
          Start(p, <<Call("attempt", n, "running")>> \o rest)
    BY <1>5 DEF run
  <2> DEFINE cs == <<Call("attempt", n, "running")>> \o rest
  <2>2. CallsOK(cs) /\ ~Completes(cs[1])
    BY <2>1, RunCalls, GiveUpCalls
  <2> HIDE DEF cs
  <2>3. Start(p, cs)
    BY <2>1 DEF cs
  <2> QED
    BY <2>2, <2>3, StartOK
<1>6. ASSUME NEW n \in Nodes, complete(p, n)
      PROVE  Inv'
  <2> DEFINE c == Checked("step", n, "completed", 0)
  <2>1. c \in CallRec /\ CallOK(c) /\ c.key = n
    BY CheckedCall DEF NodeStatuses
  <2>2. Start(p, <<c>>) /\ n \notin Tasks
    BY <1>6 DEF complete, Tasks
  <2> HIDE DEF c
  <2>3. ~Completes(c)
    BY <2>1, <2>2 DEF Completes
  <2> QED
    BY <1>1, <2>1, <2>2, <2>3
<1>7. ASSUME NEW n \in Nodes, block(p, n)
      PROVE  Inv'
  <2> DEFINE c == Checked("step", n, "blocked", 0)
  <2>1. c \in CallRec /\ CallOK(c) /\ c.val = "blocked"
    BY CheckedCall DEF NodeStatuses
  <2>2. Start(p, <<c>>)
    BY <1>7 DEF block
  <2> HIDE DEF c
  <2>3. ~Completes(c)
    BY <2>1 DEF Completes
  <2> QED
    BY <1>1, <2>1, <2>2, <2>3
<1>8. ASSUME NEW n \in Nodes, unblock(p, n)
      PROVE  Inv'
  <2> DEFINE c == Checked("step", n, "pending", 0)
             cs == <<c>>
             v == db.nodes[n].version
             r == [Idle EXCEPT !.calls = cs, !.at = "read", !.ver = v]
  <2>1. c \in CallRec /\ CallOK(c) /\ c.val = "pending" /\ c.checked = TRUE
    <3>1. c.checked = TRUE
      BY DEF Checked, Call
    <3> QED
      BY <3>1, CheckedCall DEF NodeStatuses
  <2>2. proc[p] = Idle /\ proc \in [Procs -> ProcRec] /\ Len(log) \in Nat
    <3>1. proc[p] = Idle
      BY <1>8 DEF unblock
    <3> QED
      BY <3>1 DEF Inv, ProcsInv, LogInv
  <2>3. v \in Nat
    BY TableFields DEF Inv, TablesInv, NodeRow
  <2> HIDE DEF c, v
  <2>4. CallsOK(cs) /\ cs[1] = c /\ cs # <<>>
    BY <2>1, OneCall
  <2> HIDE DEF cs
  <2>5. /\ proc' = [proc EXCEPT ![p].calls = cs, ![p].at = "read", ![p].ver = v]
        /\ crashes' = crashes /\ UNCHANGED <<log, db, folded, tangled>>
    BY <1>8 DEF unblock, c, cs, v
  <2>6. proc' = [proc EXCEPT ![p] = r]
    BY <2>2, <2>5
  <2>7. r.calls = cs /\ r.at = "read" /\ r.known = {} /\ r.idx = 0
    BY DEF Idle
  <2>8. r \in ProcRec
    <3>1. cs \in Seq(CallRec)
      BY <2>4 DEF CallsOK
    <3>2. Idle \in ProcRec
      BY <2>2, IdleOK DEF ProcOK
    <3> QED
      BY <2>3, <3>1, <3>2 DEF ProcRec
  <2> HIDE DEF r
  <2>9. ~Completes(c)
    BY <2>1 DEF Completes
  <2>10. ProcOK(log, folded, r)
    BY <2>1, <2>2, <2>4, <2>7, <2>8, <2>9 DEF ProcOK
  <2>11. r.at # "rebuild" /\ proc[p].at # "emitted"
    BY <2>2, <2>7 DEF Idle
  <2> QED
    BY <2>5, <2>6, <2>10, <2>11, LocalOK
<1> QED
  BY <1>2, <1>3, <1>4, <1>5, <1>6, <1>7, <1>8
-----------------------------------------------------------------------------
(* The steps of a write.                                                     *)

\* What is known of a process with a call.
LEMMA CallFacts ==
  ASSUME Inv, NEW p \in Procs, proc[p].calls # <<>>
  PROVE  /\ Head(proc[p].calls) = proc[p].calls[1]
         /\ proc[p].calls[1] \in CallRec /\ CallOK(proc[p].calls[1])
         /\ proc[p].calls \in Seq(CallRec)
         /\ Len(proc[p].calls) \in Nat /\ Len(proc[p].calls) >= 1
         /\ proc[p] \in ProcRec /\ ProcOK(log, folded, proc[p])
<1>1. ProcOK(log, folded, proc[p])
  BY DEF Inv, ProcsInv
<1>2. proc[p] \in ProcRec /\ CallsOK(proc[p].calls)
  BY <1>1 DEF ProcOK
<1> DEFINE cs == proc[p].calls
<1>3. cs \in Seq(CallRec) /\ cs # <<>> /\ \A k \in 1..Len(cs) : CallOK(cs[k])
  BY <1>2 DEF CallsOK
<1> HIDE DEF cs
<1>4. Len(cs) \in Nat /\ Len(cs) >= 1 /\ cs[1] \in CallRec /\ Head(cs) = cs[1]
  BY <1>3
<1> QED
  BY <1>1, <1>2, <1>3, <1>4 DEF cs

\* Reading the version keeps the invariant.
LEMMA VersionOK ==
  ASSUME Inv, NEW p \in Procs, node_state_version(p)
  PROVE  Inv'
<1> DEFINE s == proc[p]
           c == s.calls[1]
           v == db.nodes[c.key].version
           r == [s EXCEPT !.at = "read", !.ver = v]
<1>1. s.calls # <<>> /\ s.at = "call"
  BY DEF node_state_version, Calling
<1>2. /\ Head(s.calls) = c /\ c \in CallRec /\ CallOK(c)
      /\ s \in ProcRec /\ ProcOK(log, folded, s)
  BY <1>1, CallFacts
<1>3. c.checked
  BY <1>2 DEF node_state_version
<1>4. v \in Nat
  <2>1. c.key \in Nodes
    BY <1>2, <1>3 DEF CallOK, WellFormed
  <2>2. db.nodes[c.key] \in NodeRow
    BY <2>1, TableFields DEF Inv, TablesInv
  <2> QED
    BY <2>2 DEF NodeRow
<1>5. /\ proc' = [proc EXCEPT ![p] = r] /\ crashes' = crashes
      /\ UNCHANGED <<log, db, folded, tangled>>
  <2>1. /\ proc' = [proc EXCEPT ![p].at = "read", ![p].ver = v]
        /\ UNCHANGED <<log, db, crashes, folded, tangled>>
    BY <1>2 DEF node_state_version
  <2>2. proc \in [Procs -> ProcRec]
    BY DEF Inv, ProcsInv
  <2> HIDE DEF v
  <2> QED
    BY <2>1, <2>2
<1> HIDE DEF v
<1>6. /\ r.calls = s.calls /\ r.at = "read" /\ r.idx = s.idx /\ r.known = s.known
      /\ r \in ProcRec
  BY <1>2, <1>4 DEF ProcRec
<1> HIDE DEF r, s
<1>7. ProcOK(log, folded, r)
  BY <1>1, <1>2, <1>3, <1>6 DEF ProcOK
<1>8. proc[p].at # "emitted" /\ r.at # "rebuild"
  BY <1>1, <1>6 DEF s
<1> QED
  BY <1>5, <1>7, <1>8, LocalOK

\* So does the check of the version.
LEMMA CheckOK ==
  ASSUME Inv, NEW p \in Procs, set_node_status(p)
  PROVE  Inv'
<1> DEFINE s == proc[p]
           c == s.calls[1]
           r == [s EXCEPT !.at = "passed", !.known = folded, !.fair = ~tangled]
<1>0. ProcOK(log, folded, s)
  BY DEF Inv, ProcsInv
<1>1. s.calls # <<>>
  BY <1>0 DEF set_node_status, Calling, ProcOK
<1>2. Head(s.calls) = c /\ c \in CallRec /\ CallOK(c) /\ s \in ProcRec
  BY <1>1, CallFacts
<1>3. c.checked /\ s.at \in {"read", "call"}
  BY <1>0, <1>2 DEF set_node_status, Calling, ProcOK
<1>4. UNCHANGED <<log, db, folded, tangled>> /\ crashes' = crashes
  BY DEF set_node_status
<1>5. proc \in [Procs -> ProcRec]
  BY DEF Inv, ProcsInv
<1>6. CASE ~Passes(db.nodes[c.key], s.ver + c.ahead)
  <2>1. proc' = [proc EXCEPT ![p] = Idle]
    BY <1>2, <1>6 DEF set_node_status
  <2>2. ProcOK(log, folded, Idle)
    BY IdleOK DEF Inv, LogInv
  <2>3. Idle.at # "rebuild" /\ proc[p].at # "emitted"
    BY <1>3 DEF Idle
  <2> QED
    BY <1>4, <2>1, <2>2, <2>3, LocalOK
<1>7. CASE Passes(db.nodes[c.key], s.ver + c.ahead)
  <2>1. proc' = [proc EXCEPT ![p].at = "passed", ![p].known = folded, ![p].fair = ~tangled]
    BY <1>2, <1>7 DEF set_node_status
  <2>2. proc' = [proc EXCEPT ![p] = r]
    BY <1>5, <2>1
  <2>3. folded \in SUBSET Nat /\ (~tangled) \in BOOLEAN
    BY DEF Inv, LogInv
  <2>4. /\ r \in ProcRec /\ r.calls = s.calls /\ r.at = "passed" /\ r.idx = s.idx
        /\ r.known = folded /\ r.ver = s.ver
    BY <1>2, <2>3 DEF ProcRec
  <2>5. r.fair = ~tangled
    BY <1>2 DEF ProcRec
  <2> HIDE DEF r
  <2>6. c.key \in Nodes
    BY <1>2, <1>3 DEF CallOK, WellFormed
  <2>7. db.nodes[c.key] # NoNode /\ db.nodes[c.key].version = s.ver + c.ahead
    BY <1>7 DEF Passes
  <2>8. \E k \in folded : Creates(log[k], c.key)
    BY <2>6, <2>7 DEF Inv, TablesInv
  <2>9. tangled \/ db = ReplayOf(log, folded)
    BY DEF Inv, TablesInv
  <2>10. r.fair => /\ ReplayOf(log, folded).nodes[c.key] # NoNode
                   /\ ReplayOf(log, folded).nodes[c.key].version = s.ver + c.ahead
    BY <2>5, <2>7, <2>9, Zenon
  <2>11. Seen(log, folded, r.fair, c.key, s.ver + c.ahead)
    BY <2>8, <2>10, Zenon DEF Seen
  <2>12. \A i \in folded : log[i].known \subseteq folded
    BY DEF Inv, LogInv
  <2>13. Completes(c) => Recorded(log, folded, c.key)
    BY <1>0, <1>1 DEF ProcOK
  <2> HIDE DEF s
  <2>14. PassedOK(log, r)
    BY <2>4, <2>11, <2>12, <2>13 DEF PassedOK
  <2>15. ProcOK(log, folded, r)
    BY <1>0, <1>1, <1>3, <2>4, <2>13, <2>14 DEF ProcOK
  <2>16. r.at # "rebuild" /\ proc[p].at # "emitted"
    BY <1>3, <2>4 DEF s
  <2> QED
    BY <1>4, <2>2, <2>15, <2>16, LocalOK
<1> QED
  BY <1>6, <1>7

\* What is appended says what its writer saw.
LEMMA EventOfOK ==
  ASSUME NEW l, NEW fo, NEW s, ProcOK(l, fo, s), s.calls # <<>>,
         l \in Seq(Event), fo \subseteq 1..Len(l),
         NEW c \in CallRec, c = s.calls[1], CallOK(c),
         s.at = "passed" \/ (s.at = "call" /\ ~c.checked)
  PROVE  /\ EventOf(c, s) \in Event
         /\ Append(l, EventOf(c, s)) \in Seq(Event)
         /\ Extends(Append(l, EventOf(c, s)), l)
         /\ EventOK(Append(l, EventOf(c, s)), Len(l) + 1)
<1> DEFINE e == EventOf(c, s)
           l2 == Append(l, e)
<1>1. s \in ProcRec /\ s.known \subseteq fo /\ s.ver \in Nat
  BY DEF ProcOK, ProcRec
<1>2. /\ e.do = c.do /\ e.key = c.key /\ e.val = c.val /\ e.known = s.known
      /\ e.saw = IF c.checked THEN s.ver + c.ahead ELSE -1
  BY DEF EventOf
<1>3. e.fair = s.fair
  BY DEF EventOf
<1>4. e.saw \in Int /\ (c.checked => e.saw = s.ver + c.ahead /\ e.saw >= 0)
                    /\ (~c.checked => ~(e.saw >= 0))
  BY <1>1, <1>2 DEF CallRec
<1>5. e \in Event
  <2>1. e = [do |-> e.do, key |-> e.key, val |-> e.val, saw |-> e.saw,
             known |-> e.known, fair |-> e.fair]
    BY DEF EventOf
  <2>2. e.known \in SUBSET Nat /\ e.fair \in BOOLEAN
    BY <1>1, <1>2, <1>3 DEF ProcRec
  <2>3. /\ e.do \in {"create", "graph", "step", "output", "attempt"}
        /\ e.key \in Graphs \cup Nodes
        /\ e.val \in {"draft", "running", "json"} \cup NodeStatuses
    BY <1>2 DEF CallRec
  <2> HIDE DEF e
  <2> QED
    BY <1>4, <2>1, <2>2, <2>3 DEF Event
<1> HIDE DEF e
<1>6. /\ l2 \in Seq(Event) /\ Len(l2) = Len(l) + 1 /\ Len(l) \in Nat
      /\ \A k \in 1..Len(l) : l2[k] = l[k]
      /\ l2[Len(l) + 1] = e
  BY <1>5
<1> HIDE DEF l2
<1>7. Extends(l2, l)
  BY <1>6 DEF Extends
<1>8. EventOK(l2, Len(l) + 1)
  <2>1. WellFormed(e)
    BY <1>2 DEF CallOK, WellFormed
  <2>2. e.known \subseteq 1..((Len(l) + 1) - 1) /\ e.known \subseteq 1..Len(l)
    <3>1. (Len(l) + 1) - 1 = Len(l)
      BY <1>6
    <3>2. e.known \subseteq 1..Len(l)
      BY <1>1, <1>2
    <3> QED
      BY <3>1, <3>2
  <2>3. Completes(e) => Completes(c) /\ c.checked
    BY <1>2 DEF CallOK, Completes
  <2>4. CASE s.at = "passed"
    <3>1. PassedOK(l, s) /\ c.checked
      BY <2>4 DEF ProcOK
    <3>2. \A i \in e.known : l2[i].known \subseteq e.known
      BY <1>2, <1>6, <2>2, <3>1 DEF PassedOK
    <3>3. Seen(l, s.known, s.fair, c.key, s.ver + c.ahead)
      BY <3>1 DEF PassedOK
    <3>4. Seen(l2, e.known, e.fair, e.key, e.saw)
      <4>1. Seen(l, e.known, e.fair, e.key, e.saw)
        BY <1>2, <1>3, <1>4, <3>1, <3>3
      <4> QED
        BY <1>7, <2>2, <4>1, SeenKept
    <3>5. Completes(e) => Recorded(l2, e.known, e.key)
      <4>1. Completes(e) => Recorded(l, e.known, e.key)
        BY <1>2, <2>3, <3>1 DEF PassedOK
      <4> QED
        BY <1>7, <2>2, <4>1, RecordedKept
    <3>6. e.do \in {"step", "output"} /\ e.saw >= 0
      BY <1>2, <1>4, <3>1 DEF CallOK
    <3> QED
      BY <1>6, <2>1, <2>2, <3>2, <3>4, <3>5, <3>6 DEF EventOK
  <2>5. CASE s.at = "call" /\ ~c.checked
    <3>1. e.known = {} /\ ~(e.saw >= 0) /\ ~Completes(e)
      BY <1>2, <1>4, <2>3, <2>5 DEF ProcOK
    <3> QED
      BY <1>6, <2>1, <3>1 DEF EventOK
  <2> QED
    BY <2>4, <2>5
<1> QED
  BY <1>5, <1>6, <1>7, <1>8 DEF l2, e

\* Appending keeps the invariant.
LEMMA AppendOK ==
  ASSUME Inv, NEW p \in Procs, AppendEvent(p)
  PROVE  Inv'
<1> DEFINE s == proc[p]
           c == s.calls[1]
           e == EventOf(c, s)
           r == [s EXCEPT !.at = "emitted", !.idx = Len(log) + 1,
                          !.known = {}, !.fair = TRUE]
<1>0. ProcOK(log, folded, s)
  BY DEF Inv, ProcsInv
<1>1. s.calls # <<>>
  BY <1>0 DEF AppendEvent, Calling, ProcOK
<1>2. Head(s.calls) = c /\ c \in CallRec /\ CallOK(c) /\ s \in ProcRec
  BY <1>1, CallFacts
<1>3. s.at = "passed" \/ (s.at = "call" /\ ~c.checked)
  BY <1>2 DEF AppendEvent, Calling
<1>4. log \in Seq(Event) /\ folded \subseteq 1..Len(log) /\ Len(log) \in Nat
  BY DEF Inv, LogInv
<1>5. /\ log' = Append(log, e) /\ Len(log) < MaxLog
      /\ db' = db /\ folded' = folded /\ tangled' = tangled /\ crashes' = crashes
  BY <1>2 DEF AppendEvent
<1>6. proc \in [Procs -> ProcRec]
  BY DEF Inv, ProcsInv
<1>7. proc' = [proc EXCEPT ![p] = r]
  BY <1>6 DEF AppendEvent
<1>8. e \in Event /\ log' \in Seq(Event) /\ Extends(log', log) /\ EventOK(log', Len(log) + 1)
  BY <1>0, <1>1, <1>2, <1>3, <1>4, <1>5, EventOfOK
<1>9. /\ e.do = c.do /\ e.key = c.key /\ e.known = s.known
      /\ c.checked => e.saw >= 0
  <2>1. s.ver \in Nat /\ c.ahead \in {0, 1}
    BY <1>2 DEF ProcRec, CallRec
  <2> HIDE DEF s
  <2> QED
    BY <2>1 DEF EventOf
<1> HIDE DEF e
<1>10. Len(log') = Len(log) + 1 /\ log'[Len(log) + 1] = e
  BY <1>4, <1>5, <1>8
<1>11. LogInv(log', folded')
  <2>1. \A j \in 1..Len(log') : j \in 1..Len(log) \/ j = Len(log) + 1
    BY <1>4, <1>10
  <2>2. ASSUME NEW j \in 1..Len(log)
        PROVE  EventOK(log', j) /\ log'[j].known \subseteq folded
    <3>1. EventOK(log, j) /\ log[j].known \subseteq folded /\ log'[j] = log[j]
      BY <1>8 DEF Inv, LogInv, Extends
    <3> QED
      BY <1>8, <3>1, EventKept
  <2>3. log'[Len(log) + 1].known \subseteq folded
    BY <1>0, <1>9, <1>10 DEF ProcOK
  <2>4. Len(log') <= MaxLog /\ folded \in SUBSET (1..Len(log'))
    BY <1>4, <1>5, <1>10, ConstantsAssumption
  <2> QED
    BY <1>5, <1>8, <2>1, <2>2, <2>3, <2>4 DEF LogInv
<1>12. TablesInv(log', db', folded', tangled')
  BY <1>4, <1>5, <1>8, TablesKept DEF Inv
<1>13. /\ r \in ProcRec /\ r.calls = s.calls /\ r.at = "emitted" /\ r.idx = Len(log) + 1
       /\ r.known = {}
  <2> DEFINE k == Len(log) + 1
  <2>1. k \in Nat /\ {} \in SUBSET Nat /\ TRUE \in BOOLEAN
    BY <1>4
  <2> HIDE DEF k, s
  <2>2. r.calls = s.calls /\ r.at = "emitted" /\ r.idx = k /\ r.known = {}
    BY <1>2 DEF ProcRec, k
  <2>3. r \in ProcRec
    BY <1>2, <2>1 DEF ProcRec, k
  <2> QED
    BY <2>2, <2>3 DEF k
<1> HIDE DEF r
<1>14. EmittedOK(log', r)
  BY <1>4, <1>9, <1>10, <1>13 DEF EmittedOK
<1>15. Completes(c) => Recorded(log', folded', c.key)
  <2>1. Completes(c) => Recorded(log, folded, c.key)
    BY <1>0, <1>1 DEF ProcOK
  <2> QED
    BY <1>4, <1>5, <1>8, <2>1, RecordedKept
<1>16. ProcOK(log', folded', r)
  <2> HIDE DEF s
  <2>1. CallsOK(s.calls)
    BY <1>0 DEF ProcOK
  <2>2. r.idx \in 0..Len(log')
    BY <1>4, <1>10, <1>13
  <2> QED
    BY <1>1, <1>13, <1>14, <1>15, <2>1, <2>2 DEF ProcOK
<1>17. NothingLost'
  <2> SUFFICES ASSUME crashes' = 0, NEW i \in 1..Len(log')
               PROVE  i \in folded' \/ InFlight(i)'
    BY DEF NothingLost
  <2>1. proc'[p] = r /\ \A q \in Procs : q # p => proc'[q] = proc[q]
    BY <1>6, <1>7
  <2>2. CASE i = Len(log) + 1
    BY <1>13, <2>1, <2>2 DEF InFlight
  <2>3. CASE i \in 1..Len(log)
    <3>1. i \in folded \/ InFlight(i)
      BY <1>5, <2>3 DEF Inv, NothingLost
    <3>2. proc[p].at # "emitted"
      BY <1>3
    <3> QED
      BY <1>5, <2>1, <3>1, <3>2 DEF InFlight
  <2> QED
    BY <1>4, <1>10, <2>2, <2>3
<1>18. /\ folded \subseteq folded' /\ crashes' \in 0..MaxCrashes /\ r.at # "rebuild"
       /\ \A q \in Procs : q # p /\ proc[q].at = "rebuild" => folded' = folded
  BY <1>5, <1>13 DEF Inv
<1> QED
  BY <1>7, <1>8, <1>11, <1>12, <1>16, <1>17, <1>18, StepOK
\* What is left of a command once its first call was folded.
LEMMA DoneOK ==
  ASSUME NEW l, NEW fo, NEW s, ProcOK(l, fo, s), s.at = "emitted", Len(l) \in Nat,
         NEW fo2, fo2 = fo \cup {s.idx}
  PROVE  ProcOK(l, fo2, Done(s)) /\ Done(s).at = "call"
<1> DEFINE cs == s.calls
           v == IF s.calls[1].do = "output" THEN s.ver ELSE 0
           r == [s EXCEPT !.calls = Tail(cs), !.at = "call", !.idx = 0, !.ver = v]
<1>1. s \in ProcRec /\ CallsOK(cs) /\ EmittedOK(l, s) /\ cs # <<>> /\ s.known = {}
  BY DEF ProcOK
<1>2. CASE Len(cs) = 1
  <2>1. Done(s) = Idle
    BY <1>2 DEF Done
  <2>2. Idle.at = "call"
    BY DEF Idle
  <2> QED
    BY <2>1, <2>2, IdleOK
<1>3. CASE Len(cs) # 1
  <2>1. Done(s) = r
    BY <1>1, <1>3 DEF Done
  <2>2. /\ cs \in Seq(CallRec) /\ \A k \in 1..Len(cs) : CallOK(cs[k])
        /\ \A k \in 2..Len(cs) : Completes(cs[k]) =>
             cs[k - 1].do = "output" /\ cs[k - 1].key = cs[k].key
    BY <1>1 DEF CallsOK
  <2> DEFINE ts == Tail(cs)
  <2>3. /\ ts \in Seq(CallRec) /\ Len(ts) = Len(cs) - 1 /\ Len(cs) \in Nat /\ Len(cs) >= 2
        /\ \A k \in 1..Len(ts) : ts[k] = cs[k + 1]
    <3>1. cs \in Seq(CallRec) /\ cs # <<>> /\ Len(cs) # 1
      BY <1>1, <1>3, <2>2
    <3> HIDE DEF cs
    <3>2. Len(cs) \in Nat /\ Len(cs) # 0
      BY <3>1
    <3>3. /\ ts \in Seq(CallRec) /\ Len(ts) = Len(cs) - 1
          /\ \A k \in 1..Len(ts) : ts[k] = cs[k + 1]
      BY <3>1, HeadTailProperties
    <3> QED
      BY <3>1, <3>2, <3>3
  <2>4. v \in Nat
    BY <1>1 DEF ProcRec
  <2>5. CallsOK(ts)
    <3>1. ASSUME NEW k \in 1..Len(ts)
          PROVE  CallOK(ts[k])
      <4>1. k + 1 \in 1..Len(cs) /\ ts[k] = cs[k + 1]
        BY <2>3
      <4> QED
        BY <2>2, <4>1
    <3>2. ASSUME NEW k \in 2..Len(ts), Completes(ts[k])
          PROVE  ts[k - 1].do = "output" /\ ts[k - 1].key = ts[k].key
      <4>1. /\ k + 1 \in 2..Len(cs) /\ (k + 1) - 1 = k /\ (k - 1) + 1 = k
            /\ k \in 1..Len(ts) /\ k - 1 \in 1..Len(ts)
        BY <2>3
      <4>2. ts[k] = cs[k + 1] /\ ts[k - 1] = cs[k]
        BY <2>3, <4>1
      <4> HIDE DEF ts, cs
      <4> QED
        BY <2>2, <3>2, <4>1, <4>2
    <3> HIDE DEF ts, cs
    <3> QED
      BY <2>3, <3>1, <3>2 DEF CallsOK
  <2>6. Completes(ts[1]) => Recorded(l, fo2, ts[1].key)
    <3> SUFFICES ASSUME Completes(ts[1])
                 PROVE  Recorded(l, fo2, ts[1].key)
      OBVIOUS
    <3>1. ts[1] = cs[2]
      BY <2>3
    <3>2. cs[1].do = "output" /\ cs[1].key = ts[1].key
      BY <2>2, <2>3, <3>1
    <3>3. CallOK(cs[1])
      BY <2>2, <2>3
    <3>4. /\ l[s.idx].do = "output" /\ l[s.idx].key = ts[1].key /\ l[s.idx].saw >= 0
      BY <1>1, <3>2, <3>3 DEF CallOK, EmittedOK
    <3> HIDE DEF ts
    <3> QED
      BY <3>4 DEF Recorded
  <2> HIDE DEF ts, v
  <2>7. r.calls = ts /\ r.at = "call" /\ r.idx = 0 /\ r.known = s.known
    BY <1>1 DEF ProcRec, ts
  <2>8. r \in ProcRec
    BY <1>1, <2>3, <2>4 DEF ProcRec, ts
  <2> HIDE DEF r
  <2>9. ProcOK(l, fo2, r)
    BY <1>1, <2>5, <2>6, <2>7, <2>8 DEF ProcOK
  <2> QED
    BY <2>1, <2>7, <2>9
<1> QED
  BY <1>2, <1>3

\* Folding an event keeps the tables a replay unless it tangles them.
LEMMA FoldOK ==
  ASSUME Inv, NEW i \in 1..Len(log), NEW t, t = _apply_work(db, log[i]),
         NEW tang, tang = (tangled \/ Tangles(i))
  PROVE  TablesInv(log, t, folded \cup {i}, tang)
<1>1. /\ Len(log) \in Nat /\ AllWellFormed(log) /\ WellFormed(log[i])
      /\ folded \subseteq 1..Len(log)
  BY DEF Inv, LogInv, AllWellFormed, EventOK
<1>2. db \in Tables /\ tangled \in BOOLEAN
  BY DEF Inv, TablesInv
<1>3. t \in Tables
  BY <1>1, <1>2, Applied
<1>4. tang \in BOOLEAN
  BY <1>2, Zenon DEF Tangles
<1>5. ASSUME NEW n \in Nodes, t.nodes[n] # NoNode
      PROVE  \E c \in folded \cup {i} : Creates(log[c], n)
  <2>1. t.nodes[n] = NodeAfter(db.nodes[n], log[i], n)
    BY <1>1, <1>2, Applied
  <2>2. CASE Creates(log[i], n)
    BY <2>2
  <2>3. CASE ~Creates(log[i], n)
    <3>1. db.nodes[n] # NoNode
      BY <1>5, <2>1, <2>3, RowLeft
    <3> QED
      BY <3>1 DEF Inv, TablesInv
  <2> QED
    BY <2>2, <2>3
<1>6. ASSUME ~tang
      PROVE  t = ReplayOf(log, folded \cup {i})
  <2>1. ~tangled /\ ~Tangles(i)
    BY <1>6
  <2>2. db = ReplayOf(log, folded)
    BY <2>1 DEF Inv, TablesInv
  <2>3. \A j \in folded : j > i => ~Conflict(log[i], log[j])
    BY <2>1 DEF Tangles
  <2>4. i \in folded => log[i].do \in {"graph", "attempt"}
    BY <2>1 DEF Tangles
  <2>5. _apply_work(ReplayOf(log, folded), log[i]) = ReplayOf(log, folded \cup {i})
    BY <1>1, <2>3, <2>4, FoldIn
  <2> QED
    BY <2>2, <2>5
<1> QED
  BY <1>3, <1>4, <1>5, <1>6, Zenon DEF TablesInv

\* Folding an event keeps the invariant.
LEMMA ApplyOK ==
  ASSUME Inv, NEW p \in Procs, apply_event(p)
  PROVE  Inv'
<1> DEFINE s == proc[p]
           i == s.idx
           r == Done(s)
<1>1. ProcOK(log, folded, s) /\ s.at = "emitted"
  BY DEF Inv, ProcsInv, apply_event
<1>2. i \in 1..Len(log) /\ Len(log) \in Nat
  BY <1>1 DEF ProcOK, EmittedOK, Inv, LogInv
<1>3. /\ log' = log /\ crashes' = crashes /\ folded' = folded \cup {i}
      /\ db' = _apply_work(db, log[i]) /\ tangled' = (tangled \/ Tangles(i))
      /\ proc' = [proc EXCEPT ![p] = r]
  BY DEF apply_event
<1>4. \A q \in Procs : proc[q].at # "rebuild"
  BY DEF apply_event, Unlocked
<1>5. ProcOK(log', folded', r) /\ r.at = "call"
  BY <1>1, <1>2, <1>3, DoneOK
<1>6. TablesInv(log', db', folded', tangled')
  BY <1>2, <1>3, FoldOK
<1>7. LogInv(log', folded')
  <2>1. folded' \in SUBSET (1..Len(log))
    BY <1>2, <1>3 DEF Inv, LogInv
  <2> QED
    BY <1>3, <2>1 DEF Inv, LogInv
<1>8. Extends(log', log)
  BY <1>2, <1>3, SameLog
<1> HIDE DEF r
<1>9. NothingLost'
  <2> SUFFICES ASSUME crashes' = 0, NEW k \in 1..Len(log)
               PROVE  k \in folded' \/ InFlight(k)'
    BY <1>3 DEF NothingLost
  <2>1. k \in folded \/ InFlight(k)
    BY <1>3 DEF Inv, NothingLost
  <2>2. \A q \in Procs : q # p => proc'[q] = proc[q]
    BY <1>3 DEF Inv, ProcsInv
  <2> QED
    BY <1>3, <2>1, <2>2 DEF InFlight
<1>10. folded \subseteq folded' /\ crashes' \in 0..MaxCrashes
  BY <1>3 DEF Inv
<1> QED
  BY <1>3, <1>4, <1>5, <1>6, <1>7, <1>8, <1>9, <1>10, StepOK

\* So do the two steps of a rebuild.
LEMMA RebuildOK ==
  ASSUME Inv, NEW p \in Procs, replay_into(p) \/ CommitRebuild(p)
  PROVE  Inv'
<1>0. /\ Len(log) \in Nat /\ AllWellFormed(log) /\ folded \subseteq 1..Len(log)
      /\ proc \in [Procs -> ProcRec]
  BY DEF Inv, LogInv, AllWellFormed, EventOK, ProcsInv
<1>1. CASE replay_into(p)
  <2> DEFINE r == [Idle EXCEPT !.at = "rebuild", !.idx = Len(log)]
  <2>1. proc[p] = Idle /\ \A q \in Procs : proc[q].at # "rebuild"
    BY <1>1 DEF replay_into, Unlocked
  <2>2. /\ proc' = [proc EXCEPT ![p] = r] /\ crashes' = crashes
        /\ UNCHANGED <<log, db, folded, tangled>>
    BY <1>0, <1>1, <2>1 DEF replay_into
  <2>3. ProcOK(log, folded, Idle) /\ Idle \in ProcRec
    BY <1>0, IdleOK DEF ProcOK
  <2>4. r.calls = <<>> /\ r.at = "rebuild" /\ r.idx = Len(log) /\ r.known = {}
    BY DEF Idle
  <2>5. r \in ProcRec
    BY <1>0, <2>3 DEF ProcRec
  <2>8. CallsOK(<<>>)
    BY DEF CallsOK
  <2> HIDE DEF r
  <2>6. ProcOK(log, folded, r)
    BY <1>0, <2>4, <2>5, <2>8 DEF ProcOK
  <2>7. proc[p].at # "emitted"
    BY <2>1 DEF Idle
  <2> QED
    BY <2>1, <2>2, <2>6, <2>7, LocalOK
<1>2. CASE CommitRebuild(p)
  <2> DEFINE i == proc[p].idx
  <2>1. proc[p].at = "rebuild" /\ ProcOK(log, folded, proc[p])
    BY <1>2 DEF CommitRebuild, Inv, ProcsInv
  <2>2. i \in 0..Len(log) /\ folded \subseteq 1..i
    BY <2>1 DEF ProcOK
  <2>3. /\ log' = log /\ crashes' = crashes /\ folded' = 1..i /\ tangled' = FALSE
        /\ db' = Replay(1..i) /\ proc' = [proc EXCEPT ![p] = Idle]
    BY <1>2 DEF CommitRebuild
  <2>4. \A q \in Procs : q # p => proc[q].at # "rebuild"
    BY <2>1 DEF Inv, ProcsInv
  <2>5. ProcOK(log', folded', Idle) /\ Idle.at # "rebuild"
    BY <1>0, <2>3, IdleOK DEF Idle
  <2> HIDE DEF i
  <2>6. LogInv(log', folded')
    <3>1. folded' \in SUBSET (1..Len(log)) /\ folded \subseteq folded'
      BY <1>0, <2>2, <2>3
    <3> QED
      BY <2>3, <3>1 DEF Inv, LogInv
  <2>7. db' = ReplayOf(log, 1..i)
    BY <2>3, ReplayIs
  <2>8. ReplayOf(log, 1..i) \in Tables
    BY <1>0, AfterTables DEF ReplayOf
  <2>9. \A n \in Nodes : ReplayOf(log, 1..i).nodes[n] # NoNode =>
                           \E c \in 1..i : Creates(log[c], n)
    BY <1>0, RowMade
  <2>10. TablesInv(log', db', folded', tangled')
    BY <2>3, <2>7, <2>8, <2>9 DEF TablesInv
  <2>11. Extends(log', log)
    BY <1>0, <2>3, SameLog
  <2>12. NothingLost'
    <3> SUFFICES ASSUME crashes' = 0, NEW k \in 1..Len(log)
                 PROVE  k \in folded' \/ InFlight(k)'
      BY <2>3 DEF NothingLost
    <3>1. k \in folded \/ InFlight(k)
      BY <2>3 DEF Inv, NothingLost
    <3>2. \A q \in Procs : q # p => proc'[q] = proc[q]
      BY <1>0, <2>3
    <3> QED
      BY <2>1, <2>2, <2>3, <3>1, <3>2 DEF InFlight
  <2>13. folded \subseteq folded' /\ crashes' \in 0..MaxCrashes
    BY <2>2, <2>3 DEF Inv
  <2> QED
    BY <2>3, <2>4, <2>5, <2>6, <2>10, <2>11, <2>12, <2>13, StepOK
<1> QED
  BY <1>1, <1>2

\* A kill keeps the invariant.
LEMMA CrashOK ==
  ASSUME Inv, NEW p \in Procs, Crash(p)
  PROVE  Inv'
<1>1. /\ proc' = [proc EXCEPT ![p] = Idle] /\ UNCHANGED <<log, db, folded, tangled>>
      /\ crashes' = crashes + 1 /\ crashes < MaxCrashes
  BY DEF Crash
<1>2. crashes' \in 0..MaxCrashes /\ crashes' # 0
  BY <1>1, ConstantsAssumption DEF Inv
<1>3. ProcOK(log, folded, Idle) /\ Idle.at # "rebuild"
  BY IdleOK DEF Inv, LogInv, Idle
<1> QED
  BY <1>1, <1>2, <1>3, LocalOK

\* Every step keeps the invariant.
LEMMA Step ==
  ASSUME Inv, [Next]_vars
  PROVE  Inv'
<1>1. CASE UNCHANGED vars
  BY <1>1 DEF vars, Inv, LogInv, TablesInv, ProcsInv, NothingLost, InFlight
<1>2. ASSUME NEW p \in Procs,
             \/ \E g \in Graphs : create(p, g) \/ set_graph_status(p, g)
             \/ \E n \in Nodes : \/ refresh_readiness(p, n) \/ run(p, n) \/ complete(p, n)
                               \/ block(p, n) \/ unblock(p, n)
      PROVE  Inv'
  BY <1>2, CommandOK
<1>3. ASSUME NEW p \in Procs, node_state_version(p)
      PROVE  Inv'
  BY <1>3, VersionOK
<1>4. ASSUME NEW p \in Procs, set_node_status(p)
      PROVE  Inv'
  BY <1>4, CheckOK
<1>5. ASSUME NEW p \in Procs, AppendEvent(p)
      PROVE  Inv'
  BY <1>5, AppendOK
<1>6. ASSUME NEW p \in Procs, apply_event(p)
      PROVE  Inv'
  BY <1>6, ApplyOK
<1>7. ASSUME NEW p \in Procs, replay_into(p) \/ CommitRebuild(p)
      PROVE  Inv'
  BY <1>7, RebuildOK
<1>8. ASSUME NEW p \in Procs, Crash(p)
      PROVE  Inv'
  BY <1>8, CrashOK
<1> QED
  BY <1>1, <1>2, <1>3, <1>4, <1>5, <1>6, <1>7, <1>8 DEF Next

\* The invariant holds of an empty log.
LEMMA InitOK == Init => Inv
<1> SUFFICES ASSUME Init
             PROVE  Inv
  OBVIOUS
<1>1. /\ log = <<>> /\ db = Empty /\ proc = [p \in Procs |-> Idle]
      /\ crashes = 0 /\ folded = {} /\ tangled = FALSE
  BY DEF Init
<1>2. Len(log) = 0 /\ log \in Seq(Event)
  BY <1>1
<1>3. LogInv(log, folded)
  BY <1>1, <1>2, ConstantsAssumption DEF LogInv
<1>4. After(log, folded, 0) = Empty
  BY <1>2, AfterSteps
<1>5. db = ReplayOf(log, folded)
  BY <1>1, <1>2, <1>4 DEF ReplayOf
<1>6. TablesInv(log, db, folded, tangled)
  BY <1>1, <1>5, EmptyFacts DEF TablesInv
<1>7. ProcOK(log, folded, Idle) /\ Idle.at # "rebuild"
  BY <1>2, IdleOK DEF Idle
<1>8. Idle \in ProcRec
  BY <1>7 DEF ProcOK
<1>9. ProcsInv
  BY <1>1, <1>7, <1>8 DEF ProcsInv
<1>10. NothingLost /\ crashes \in 0..MaxCrashes
  BY <1>1, <1>2, ConstantsAssumption DEF NothingLost
<1> QED
  BY <1>3, <1>6, <1>9, <1>10 DEF Inv

\* The invariant holds in every state.
THEOREM InvariantAlways == Spec => []Inv
<1>1. Init => Inv
  BY InitOK
<1>2. Inv /\ [Next]_vars => Inv'
  BY Step
<1> QED
  BY <1>1, <1>2, PTL DEF Spec
-----------------------------------------------------------------------------
(* What the invariant says.                                                  *)

\* A checked update that sees another one expects a higher version.
LEMMA VersionsAre ==
  ASSUME Inv
  PROVE  VersionsGrow
<1> SUFFICES ASSUME NEW n \in Nodes, NEW j \in 1..Len(log), NEW i \in log[j].known,
                    IsUpdate(log[i], n), IsUpdate(log[j], n),
                    log[i].saw >= 0, log[j].saw >= 0, log[i].fair, log[j].fair,
                    Creations(log[i].known, n) = Creations(log[j].known, n)
             PROVE  log[i].saw < log[j].saw
  BY DEF VersionsGrow
<1> DEFINE A == log[i].known
           B == log[j].known
<1>1. Len(log) \in Nat /\ AllWellFormed(log)
  BY DEF Inv, LogInv, AllWellFormed, EventOK
<1>2. EventOK(log, j)
  BY DEF Inv, LogInv
<1>3. i \in 1..Len(log) /\ A \subseteq B /\ i \in B
  BY <1>1, <1>2 DEF EventOK
<1>4. EventOK(log, i)
  BY <1>3 DEF Inv, LogInv
<1>5. A \subseteq 1..(i - 1)
  BY <1>4 DEF EventOK
<1>6. log[i].key = n /\ log[j].key = n
  BY DEF IsUpdate
<1>7. /\ ReplayOf(log, A).nodes[n] # NoNode
      /\ ReplayOf(log, A).nodes[n].version = log[i].saw
  BY <1>4, <1>6 DEF EventOK, Seen
<1>8. ReplayOf(log, B).nodes[n].version = log[j].saw
  BY <1>2, <1>6 DEF EventOK, Seen
<1>9. \A c \in B : Creates(log[c], n) => c \in A
  BY DEF Creations, Creates
<1> HIDE DEF A, B
<1>10. ReplayOf(log, A).nodes[n].version < ReplayOf(log, B).nodes[n].version
  BY <1>1, <1>3, <1>5, <1>7, <1>9, VersionHigher
<1> QED
  BY <1>7, <1>8, <1>10

\* The members of a set with one member are the same.
LEMMA AtMostOne ==
  ASSUME NEW S, IsFiniteSet(S), Cardinality(S) <= 1, NEW a \in S, NEW b \in S
  PROVE  a = b
<1>1. Cardinality(S) \in Nat
  BY FS_CardinalityType
<1>2. Cardinality(S) # 0
  BY FS_EmptySet
<1>3. Cardinality(S) = 1
  BY <1>1, <1>2
<1>4. \E x : S = {x}
  BY <1>3, FS_Singleton
<1> QED
  BY <1>4

\* A completed node with something to invoke has an output.
LEMMA OutputsAre ==
  ASSUME Inv
  PROVE  CompletedHasOutput
<1> SUFFICES ASSUME NEW n \in Tasks, db.nodes[n].status = "completed", ~tangled,
                    Cardinality(Creations(1..Len(log), n)) <= 1
             PROVE  db.nodes[n].output
  BY DEF CompletedHasOutput
<1> DEFINE C == Creations(1..Len(log), n)
<1>0. n \in Nodes
  BY ConstantsAssumption DEF Tasks
<1>1. /\ Len(log) \in Nat /\ AllWellFormed(log) /\ folded \subseteq 1..Len(log)
      /\ \A k \in 1..Len(log) : EventOK(log, k) /\ log[k].known \subseteq folded
  BY DEF Inv, LogInv, AllWellFormed, EventOK
<1>2. db = ReplayOf(log, folded)
  BY DEF Inv, TablesInv
<1>3. PICK c \in folded : c \in 1..Len(log) /\ Completes(log[c]) /\ log[c].key = n
  BY <1>0, <1>1, <1>2, RowCompleted
<1>4. PICK o \in log[c].known : log[o].do = "output" /\ log[o].key = n /\ log[o].saw >= 0
  BY <1>1, <1>3 DEF EventOK, Recorded
<1>5. o \in folded /\ o \in 1..Len(log)
  BY <1>1, <1>3, <1>4
<1>6. PICK m \in log[o].known : Creates(log[m], n)
  BY <1>1, <1>4, <1>5 DEF EventOK, Seen
<1>7. m \in folded /\ m < o /\ m \in 1..Len(log)
  BY <1>1, <1>5, <1>6 DEF EventOK
<1>8. \A k \in 1..Len(log) : Creates(log[k], n) => k \in C
  BY DEF Creations, Creates
<1>9. IsFiniteSet(C)
  <2>1. IsFiniteSet(1..Len(log)) /\ C \subseteq 1..Len(log)
    BY <1>1, FS_Interval DEF Creations
  <2> QED
    BY <2>1, FS_Subset
<1>10. Cardinality(C) <= 1
  OBVIOUS
<1> HIDE DEF C
<1>11. \A k \in folded : Creates(log[k], n) => k = m
  BY <1>1, <1>6, <1>7, <1>8, <1>9, <1>10, AtMostOne
<1>12. ReplayOf(log, folded).nodes[n].output = TRUE
  BY <1>0, <1>1, <1>4, <1>5, <1>6, <1>7, <1>11, OutputKept
<1> QED
  BY <1>2, <1>12, Zenon

\* The tables are what replay_into would make of the folded events, no event
\* is without a writer that will fold it unless one was killed, checked updates
\* of a node expect growing versions, and a completed node that has something
\* to invoke has an output: with any number of processes folding in their own
\* order, rebuilds and kills.
THEOREM ProjectionAlways == Spec => []ProjectionInv
<1>1. Inv => ProjectionInv
  <2> SUFFICES ASSUME Inv
               PROVE  ProjectionInv
    OBVIOUS
  <2>1. TypeOK
    <3>1. \A p \in Procs : ProcOK(log, folded, proc[p])
      BY DEF Inv, ProcsInv
    <3>2. \A p \in Procs : /\ proc[p].at \in {"call", "read", "passed", "emitted", "rebuild"}
                           /\ proc[p].ver \in Nat /\ proc[p].idx \in 0..Len(log)
      BY <3>1 DEF ProcOK, ProcRec
    <3> QED
      BY <3>2 DEF TypeOK, Inv, LogInv, TablesInv
  <2>2. TablesMatchFolded
    BY ReplayIs DEF TablesMatchFolded, Inv, TablesInv
  <2>3. VersionsGrow /\ CompletedHasOutput
    BY VersionsAre, OutputsAre
  <2> QED
    BY <2>1, <2>2, <2>3 DEF ProjectionInv, Inv
<1> QED
  BY <1>1, InvariantAlways, PTL
=============================================================================

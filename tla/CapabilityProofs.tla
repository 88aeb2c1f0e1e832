-------------------------- MODULE CapabilityProofs --------------------------
(* What holds of Capability and of Discovery for every value of their        *)
(* constants.  Three parts: one process at a time works on the registry      *)
(* (approval_service.py: "single-process supervisor makes it safe today");   *)
(* several processes at once; and the walk that discovers capabilities.      *)
EXTENDS Capability, Discovery, SequenceTheorems, FiniteSetTheorems,
        WellFoundedInduction, TLAPS

OneProcess == \A p, q \in Procs : p = q

-----------------------------------------------------------------------------
(* One process at a time: the inductive invariant.                           *)

Do(p) == proc[p].calls[1].do
To(p) == proc[p].calls[1].to
Writes == {"upsert", "announce", "set", "refresh", "request", "decide"}
Reads == {"set", "refresh", "request"}

RowOK(r) == r = NoRow \/ (r.lifecycle \in LIFECYCLE_STATES /\ r.digest \in Digests)

Follows(l, i) == \/ i = l
                 \/ can_transition(l, i)
                 \/ l = Nothing /\ i = "quarantined"

\* Which calls may come first, and which only after which.
Shape(p) ==
  LET c == proc[p].calls
  IN /\ c = <<>> => proc[p].stage = "start"
     /\ \A i \in 1 .. Len(c) :
          \/ c[i].do \in {"set", "consider", "request"}
          \/ c[i].do = "announce" /\ i = 2 /\ c[1].do = "upsert"
          \/ c[i].do = "admit" /\ i = 2 /\ c[1].do = "refresh"
          \/ i = 1

\* What the first call knows of the row and of the source it has looked at.
Knows(p) ==
  LET s == proc[p] IN
  s.calls # <<>> =>
    /\ Do(p) \in {"lookup", "upsert", "refresh"} => s.seen \in Digests
    /\ Do(p) = "upsert" => db.row = NoRow
    /\ Do(p) = "decide" => s.verdict \in Verdicts
    /\ Do(p) = "announce" => db.row.lifecycle = "quarantined"
    /\ Do(p) = "inspect" => s.snap = db.row
    /\ Do(p) = "admit" =>
         /\ s.seen \in Digests /\ db.row.digest = s.seen
         /\ is_executable(db.row.lifecycle) => s.snap.digest = s.seen
    /\ Do(p) = "refresh" /\ Len(s.calls) >= 2 /\ s.calls[2].do = "admit" =>
         s.seen # db.row.digest

HasRead(p) ==
  LET s == proc[p] IN
  s.stage = "read" =>
    /\ Do(p) \in Reads
    /\ s.snap = db.row /\ db.row # NoRow
    /\ Do(p) = "set" => can_transition(db.row.lifecycle, To(p))

HasEmitted(p) ==
  LET s == proc[p] IN
  s.stage = "emitted" =>
    /\ Do(p) \in Writes
    /\ Do(p) = "upsert" => /\ s.env.type = "discovered"
                           /\ s.env.to = "quarantined"
                           /\ s.env.digest = s.seen
    /\ Do(p) = "announce" =>
         s.env.type = "lifecycle" /\ s.env.to = "quarantined"
    /\ Do(p) = "set" =>
         /\ s.env.type = "lifecycle" /\ s.env.to = To(p)
         /\ db.row # NoRow /\ can_transition(db.row.lifecycle, To(p))
         /\ To(p) \in Posted => swapped \/ db.row.digest \in cleared
    /\ Do(p) = "refresh" =>
         /\ s.env.type = "drift" /\ s.env.digest = s.seen
         /\ s.env.to = next_state_for_digest_change(db.row.lifecycle)
         /\ db.row # NoRow
    /\ Do(p) = "request" => s.env.type = "requested"
    /\ Do(p) = "decide" =>
         s.env.type = "decided" /\ s.env.verdict \in Verdicts
    /\ Do(p) \in {"upsert", "announce", "set", "refresh"} =>
         image.row.lifecycle = s.env.to
    /\ Do(p) \in {"upsert", "refresh"} => image.row.digest = s.seen

\* The tables and the replay of the log.
Replica ==
  /\ RowOK(db.row) /\ RowOK(image.row)
  /\ db.row # NoRow => image.row # NoRow
  /\ Follows(db.row.lifecycle, image.row.lifecycle)
  /\ \A p \in Procs : ~lost =>
       image = IF proc[p].stage = "emitted" THEN apply_event(db, proc[p].env)
               ELSE db

Clear ==
  swapped \/ /\ db.row.lifecycle \in Posted => db.row.digest \in cleared
             /\ image.row.lifecycle \in Posted
                  /\ image.row.digest = db.row.digest =>
                  image.row.digest \in cleared
             /\ granted \subseteq cleared

IInv ==
  /\ OneProcess
  /\ TypeOK
  /\ \A p \in Procs : Shape(p) /\ Knows(p) /\ HasRead(p) /\ HasEmitted(p)
  /\ Replica
  /\ Clear

\* What the lemmas about the calls of one process need.
Typed == TypeOK /\ \A p \in Procs : Shape(p)

\* The invariant holds it.
LEMMA IsTyped == IInv => Typed
BY DEF IInv, Typed

-----------------------------------------------------------------------------
(* Lists of calls.                                                           *)

\* What is left after the first call.
LEMMA TailFacts ==
  ASSUME NEW S, NEW c \in Seq(S), c # <<>>
  PROVE  /\ Len(c) \in Nat /\ Len(c) >= 1 /\ c[1] \in S /\ Head(c) = c[1]
         /\ Tail(c) \in Seq(S) /\ Len(Tail(c)) = Len(c) - 1
         /\ \A i \in 1 .. Len(Tail(c)) : Tail(c)[i] = c[i + 1]
  OBVIOUS

\* One call put in front of the others.
LEMMA ConsFacts ==
  ASSUME NEW S, NEW c \in Seq(S), NEW a \in S
  PROVE  /\ <<a>> \o c \in Seq(S) /\ Len(<<a>> \o c) = Len(c) + 1
         /\ <<a>> \o c # <<>>
         /\ (<<a>> \o c)[1] = a
         /\ \A i \in 2 .. Len(c) + 1 : (<<a>> \o c)[i] = c[i - 1]
  OBVIOUS

\* Two calls put in front of the others.
LEMMA ConsTwoFacts ==
  ASSUME NEW S, NEW c \in Seq(S), NEW a \in S, NEW b \in S
  PROVE  /\ <<a, b>> \o c \in Seq(S) /\ Len(<<a, b>> \o c) = Len(c) + 2
         /\ <<a, b>> \o c # <<>>
         /\ (<<a, b>> \o c)[1] = a /\ (<<a, b>> \o c)[2] = b
         /\ \A i \in 3 .. Len(c) + 2 : (<<a, b>> \o c)[i] = c[i - 2]
  OBVIOUS

-----------------------------------------------------------------------------
(* Operators.                                                                *)

\* States and transitions.
LEMMA LifecycleFacts ==
  /\ \A l, t : can_transition(l, t) =>
       l \in LIFECYCLE_STATES /\ t \in LIFECYCLE_STATES /\ l # "revoked"
  /\ \A l \in LIFECYCLE_STATES :
       /\ next_state_for_digest_change(l) \in {"quarantined", "revoked"}
       /\ Follows(l, next_state_for_digest_change(l))
  /\ \A l, t : can_transition(l, t) /\ t \in Posted /\ t # "approved" =>
       l \in Posted
  /\ Nothing \notin LIFECYCLE_STATES
  /\ Nothing \notin Posted /\ "quarantined" \notin Posted /\ "revoked" \notin Posted
  /\ \A l : is_executable(l) => l \in Posted
<1>1. \A l, t : can_transition(l, t) =>
       l \in LIFECYCLE_STATES /\ t \in LIFECYCLE_STATES /\ l # "revoked"
  BY DEF can_transition, _TRANSITIONS, LIFECYCLE_STATES, EXECUTABLE_STATES, Leaving
<1>2. \A l \in LIFECYCLE_STATES :
       /\ next_state_for_digest_change(l) \in {"quarantined", "revoked"}
       /\ Follows(l, next_state_for_digest_change(l))
  BY DEF can_transition, _TRANSITIONS, LIFECYCLE_STATES, EXECUTABLE_STATES,
         Leaving, Follows, next_state_for_digest_change
<1>3. \A l, t : can_transition(l, t) /\ t \in Posted /\ t # "approved" =>
       l \in Posted
  BY DEF can_transition, _TRANSITIONS, LIFECYCLE_STATES, EXECUTABLE_STATES,
         Leaving, Posted
<1>4. /\ Nothing \notin LIFECYCLE_STATES
      /\ Nothing \notin Posted /\ "quarantined" \notin Posted
      /\ "revoked" \notin Posted
      /\ \A l : is_executable(l) => l \in Posted
  BY DEF Nothing, LIFECYCLE_STATES, EXECUTABLE_STATES, Posted, is_executable
<1> QED BY <1>1, <1>2, <1>3, <1>4

\* Applying an event keeps the types of the tables.
LEMMA ApplyType ==
  ASSUME NEW t \in [row : Row, reqs : SUBSET Request], NEW e \in Event,
         e.type = "decided" => e.verdict \in Verdicts
  PROVE  /\ apply_event(t, e) \in [row : Row, reqs : SUBSET Request]
         /\ apply_event(t, e).row = _apply_capability(t.row, e)
         /\ apply_event(t, e).reqs = _apply_approval(t.reqs, e)
<1>1. _apply_capability(t.row, e) \in Row
  BY DEF _apply_capability, Row, Event
<1>2. _apply_approval(t.reqs, e) \in SUBSET Request
  <2>1. ASSUME e.type = "requested"
        PROVE  _apply_approval(t.reqs, e) \in SUBSET Request
    BY <2>1 DEF _apply_approval, Request, Event
  <2>2. ASSUME e.type = "decided"
        PROVE  _apply_approval(t.reqs, e) \in SUBSET Request
    BY <2>2 DEF _apply_approval, Request, Event
  <2> QED BY <2>1, <2>2 DEF _apply_approval, Event
<1> QED BY <1>1, <1>2 DEF apply_event

-----------------------------------------------------------------------------
(* The calls of one process.                                                 *)

\* The state of a process that has just been given its calls.
LEMMA BeginState ==
  ASSUME NEW C \in Seq(CallRecord)
  PROVE  /\ Begin(C) \in ProcState
         /\ Begin(C).stage = "start" /\ Begin(C).calls = C
         /\ Begin(C).snap = NoRow
<1>1. Idle \in ProcState /\ Idle.stage = "start" /\ Idle.snap = NoRow
  BY DEF Idle, ProcState, Row, NoRow, Event, Blank, Nothing
<1> QED BY <1>1 DEF Begin, ProcState


\* A process goes on to other calls.
LEMMA GotoState ==
  ASSUME Typed, NEW p \in Procs, NEW c \in Seq(CallRecord), Goto(p, c)
  PROVE  /\ proc' = [proc EXCEPT ![p] = [proc[p] EXCEPT !.calls = c, !.stage = "start"]]
         /\ [proc[p] EXCEPT !.calls = c, !.stage = "start"] \in ProcState
         /\ proc'[p].calls = c /\ proc'[p].stage = "start"
         /\ proc'[p].seen = proc[p].seen /\ proc'[p].snap = proc[p].snap
         /\ proc'[p].verdict = proc[p].verdict
<1>1. proc \in [Procs -> ProcState]
  BY DEF Typed, TypeOK
<1>2. proc' = [proc EXCEPT ![p] = [proc[p] EXCEPT !.calls = c, !.stage = "start"]]
  BY <1>1 DEF Goto
<1>3. [proc[p] EXCEPT !.calls = c, !.stage = "start"] \in ProcState
  BY <1>1 DEF ProcState
<1> QED BY <1>1, <1>2, <1>3 DEF ProcState


\* What is known of a process that is at a call.
LEMMA AtFacts ==
  ASSUME Typed, NEW p \in Procs, NEW do, NEW stage, At(p, do, stage)
  PROVE  LET c == proc[p].calls IN
         /\ c \in Seq(CallRecord) /\ c # <<>>
         /\ Head(c) = c[1] /\ Do(p) = do /\ To(p) = Head(c).to
         /\ c[1] \in CallRecord /\ proc[p].stage = stage
         /\ Tail(c) \in Seq(CallRecord) /\ Len(Tail(c)) = Len(c) - 1
         /\ Len(c) \in Nat /\ Len(c) >= 1
         /\ \A i \in 1 .. Len(Tail(c)) : Tail(c)[i] = c[i + 1]
<1>1. proc[p].calls \in Seq(CallRecord) /\ proc[p].calls # <<>>
  BY DEF Typed, TypeOK, ProcState, At, Busy
<1>2. Head(proc[p].calls) = proc[p].calls[1]
  BY <1>1, TailFacts
<1> QED BY <1>1, <1>2, TailFacts DEF At, Do, To


\* What comes after the first call.
LEMMA AfterFirst ==
  ASSUME Typed, NEW p \in Procs, proc[p].calls # <<>>
  PROVE  LET c == proc[p].calls
             rest == Tail(c)
         IN /\ c \in Seq(CallRecord) /\ c[1] \in CallRecord /\ Head(c) = c[1]
            /\ rest \in Seq(CallRecord) /\ Len(rest) \in Nat
            /\ Len(rest) = Len(c) - 1 /\ Len(c) \in Nat /\ Len(c) >= 1
            /\ rest # <<>> => Len(c) >= 2 /\ rest[1] = c[2] /\ rest[1] \in CallRecord
            /\ \A i \in 1 .. Len(rest) :
                 \/ rest[i].do \in {"set", "consider", "request"}
                 \/ i = 1 /\ rest[i].do = "announce" /\ Do(p) = "upsert"
                 \/ i = 1 /\ rest[i].do = "admit" /\ Do(p) = "refresh"
<1> DEFINE c == proc[p].calls
           rest == Tail(c)
<1>1. /\ c \in Seq(CallRecord) /\ c[1] \in CallRecord /\ Head(c) = c[1]
      /\ rest \in Seq(CallRecord) /\ Len(rest) = Len(c) - 1
      /\ Len(c) \in Nat /\ Len(c) >= 1
      /\ \A i \in 1 .. Len(rest) : rest[i] = c[i + 1]
  <2>1. c \in Seq(CallRecord)
    BY DEF Typed, TypeOK, ProcState
  <2> QED BY <2>1, TailFacts
<1>2. rest # <<>> => Len(rest) >= 1 /\ rest[1] \in CallRecord
  BY <1>1, TailFacts
<1> HIDE DEF rest
<1>3. ASSUME NEW i \in 1 .. Len(rest)
      PROVE  \/ rest[i].do \in {"set", "consider", "request"}
             \/ i = 1 /\ rest[i].do = "announce" /\ Do(p) = "upsert"
             \/ i = 1 /\ rest[i].do = "admit" /\ Do(p) = "refresh"
  BY <1>1 DEF Typed, Shape, Do
<1> QED BY <1>1, <1>2, <1>3 DEF rest


\* The list of calls that is left has the right shape.
LEMMA TailShape ==
  ASSUME Typed, NEW p \in Procs, proc[p].calls # <<>>,
         Goto(p, Tail(proc[p].calls))
  PROVE  /\ Shape(p)' /\ proc'[p].calls = Tail(proc[p].calls)
         /\ proc'[p].stage = "start"
         /\ proc'[p].seen = proc[p].seen /\ proc'[p].snap = proc[p].snap
         /\ proc'[p].calls # <<>> =>
              \/ Do(p)' \in {"set", "consider", "request"}
              \/ Do(p)' = "announce" /\ Do(p) = "upsert"
              \/ /\ Do(p)' = "admit" /\ Do(p) = "refresh"
                 /\ Len(proc[p].calls) >= 2 /\ proc[p].calls[2].do = "admit"
<1> DEFINE rest == Tail(proc[p].calls)
<1>1. /\ rest \in Seq(CallRecord) /\ Len(rest) \in Nat
      /\ rest # <<>> => Len(proc[p].calls) >= 2 /\ rest[1] = proc[p].calls[2]
      /\ \A i \in 1 .. Len(rest) :
           \/ rest[i].do \in {"set", "consider", "request"}
           \/ i = 1 /\ rest[i].do = "announce" /\ Do(p) = "upsert"
           \/ i = 1 /\ rest[i].do = "admit" /\ Do(p) = "refresh"
  BY AfterFirst
<1>2. /\ proc'[p].calls = rest /\ proc'[p].stage = "start"
      /\ proc'[p].seen = proc[p].seen /\ proc'[p].snap = proc[p].snap
  BY <1>1, GotoState
<1>3. rest # <<>> => 1 \in 1 .. Len(rest)
  BY <1>1, TailFacts
<1> HIDE DEF rest
<1>4. Shape(p)'
  BY <1>1, <1>2 DEF Shape
<1> QED BY <1>1, <1>2, <1>3, <1>4 DEF Do, rest


\* The state an operation starts with.
Begun(t) ==
  /\ t \in ProcState /\ t.stage = "start" /\ t.calls # <<>> /\ t.snap = NoRow
  /\ t.calls[1].do \in {"lookup", "consider", "set", "look", "decide"}
  /\ \A i \in 2 .. Len(t.calls) :
       t.calls[i].do \in {"set", "consider", "request"}
  /\ t.calls[1].do = "lookup" => t.seen \in Digests
  /\ t.calls[1].do = "decide" => t.verdict \in Verdicts

\* An operation starts.
LEMMA StartCalls ==
  ASSUME Typed, NEW p \in Procs, Invoke(p)
  PROVE  /\ UNCHANGED <<Tables, World, History>> /\ proc[p].stage = "start"
         /\ \E t : proc' = [proc EXCEPT ![p] = t] /\ Begun(t)
<1>0. Nothing \notin Digests
  BY ConstantsAssumption
<1>1. /\ ~Busy(p) /\ proc \in [Procs -> ProcState] /\ proc[p].stage = "start"
      /\ source \in Digests \cup {Nothing}
      /\ db \in [row : Row, reqs : SUBSET Request]
  BY DEF Typed, TypeOK, Shape, Invoke, onboard, register_discovery, approve, revoke,
         assert_executable, set_lifecycle, decide_human, Start, Busy
<1>2. UNCHANGED <<Tables, World, History>>
  BY DEF Invoke, onboard, register_discovery, approve, revoke,
         assert_executable, set_lifecycle, decide_human, Start
<1>3. \E t : proc' = [proc EXCEPT ![p] = t] /\ Begun(t)
  <2>1. CASE onboard(p)
    <3> DEFINE C == <<Plain("lookup"), SetLifecycle("inspected"), Plain("request")>>
               T == [Begin(C) EXCEPT !.seen = source]
    <3>1. proc' = [proc EXCEPT ![p] = T]
      BY <2>1 DEF onboard, Start, inspect_source
    <3>2. /\ C \in Seq(CallRecord) /\ C # <<>> /\ C[1].do = "lookup"
          /\ \A i \in 2 .. Len(C) : C[i].do \in {"set", "consider", "request"}
      BY DEF Plain, SetLifecycle, Consider, Call, CallRecord, Calls,
             LIFECYCLE_STATES, EXECUTABLE_STATES
    <3>3. source \in Digests
      BY <2>1, <1>1 DEF onboard
    <3> HIDE DEF C
    <3>4. /\ Begin(C) \in ProcState /\ Begin(C).stage = "start" /\ Begin(C).calls = C
          /\ Begin(C).snap = NoRow
      BY <3>2, BeginState
    <3>5. /\ T \in ProcState /\ T.stage = "start" /\ T.calls = C /\ T.snap = NoRow
          /\ T.seen = source
      BY <3>3, <3>4 DEF ProcState
    <3> HIDE DEF T
    <3>6. Begun(T)
      BY <3>2, <3>3, <3>5 DEF Begun
    <3> QED BY <3>1, <3>6
  <2>2. CASE register_discovery(p)
    <3> DEFINE C == <<Plain("lookup")>>
               T == [Begin(C) EXCEPT !.seen = source]
    <3>1. proc' = [proc EXCEPT ![p] = T]
      BY <2>2 DEF register_discovery, Start, inspect_source
    <3>2. /\ C \in Seq(CallRecord) /\ C # <<>> /\ C[1].do = "lookup"
          /\ \A i \in 2 .. Len(C) : C[i].do \in {"set", "consider", "request"}
      BY DEF Plain, SetLifecycle, Consider, Call, CallRecord, Calls,
             LIFECYCLE_STATES, EXECUTABLE_STATES
    <3>3. source \in Digests
      BY <2>2, <1>1 DEF register_discovery
    <3> HIDE DEF C
    <3>4. /\ Begin(C) \in ProcState /\ Begin(C).stage = "start" /\ Begin(C).calls = C
          /\ Begin(C).snap = NoRow
      BY <3>2, BeginState
    <3>5. /\ T \in ProcState /\ T.stage = "start" /\ T.calls = C /\ T.snap = NoRow
          /\ T.seen = source
      BY <3>3, <3>4 DEF ProcState
    <3> HIDE DEF T
    <3>6. Begun(T)
      BY <3>2, <3>3, <3>5 DEF Begun
    <3> QED BY <3>1, <3>6
  <2>3. CASE approve(p)
    <3> DEFINE C == <<Consider("inspected"), Consider("approved")>>
               T == Begin(C)
    <3>1. proc' = [proc EXCEPT ![p] = T]
      BY <2>3 DEF approve, Start
    <3>2. /\ C \in Seq(CallRecord) /\ C # <<>> /\ C[1].do = "consider"
          /\ \A i \in 2 .. Len(C) : C[i].do \in {"set", "consider", "request"}
      BY DEF Plain, SetLifecycle, Consider, Call, CallRecord, Calls,
             LIFECYCLE_STATES, EXECUTABLE_STATES
    <3> HIDE DEF C
    <3>4. /\ T \in ProcState /\ T.stage = "start" /\ T.calls = C /\ T.snap = NoRow
      BY <3>2, BeginState
    <3> HIDE DEF T
    <3>5. Begun(T)
      BY <3>2, <3>4 DEF Begun
    <3> QED BY <3>1, <3>5
  <2>4. CASE revoke(p)
    <3> DEFINE C == <<Consider("quarantined"), Consider("revoked")>>
               T == Begin(C)
    <3>1. proc' = [proc EXCEPT ![p] = T]
      BY <2>4 DEF revoke, Start
    <3>2. /\ C \in Seq(CallRecord) /\ C # <<>> /\ C[1].do = "consider"
          /\ \A i \in 2 .. Len(C) : C[i].do \in {"set", "consider", "request"}
      BY DEF Plain, SetLifecycle, Consider, Call, CallRecord, Calls,
             LIFECYCLE_STATES, EXECUTABLE_STATES
    <3> HIDE DEF C
    <3>4. /\ T \in ProcState /\ T.stage = "start" /\ T.calls = C /\ T.snap = NoRow
      BY <3>2, BeginState
    <3> HIDE DEF T
    <3>5. Begun(T)
      BY <3>2, <3>4 DEF Begun
    <3> QED BY <3>1, <3>5
  <2>5. CASE assert_executable(p)
    <3> DEFINE C == <<Plain("look")>>
               T == Begin(C)
    <3>1. proc' = [proc EXCEPT ![p] = T]
      BY <2>5 DEF assert_executable, Start
    <3>2. /\ C \in Seq(CallRecord) /\ C # <<>> /\ C[1].do = "look"
          /\ \A i \in 2 .. Len(C) : C[i].do \in {"set", "consider", "request"}
      BY DEF Plain, SetLifecycle, Consider, Call, CallRecord, Calls,
             LIFECYCLE_STATES, EXECUTABLE_STATES
    <3> HIDE DEF C
    <3>4. /\ T \in ProcState /\ T.stage = "start" /\ T.calls = C /\ T.snap = NoRow
      BY <3>2, BeginState
    <3> HIDE DEF T
    <3>5. Begun(T)
      BY <3>2, <3>4 DEF Begun
    <3> QED BY <3>1, <3>5
  <2>6. ASSUME NEW to \in LIFECYCLE_STATES, set_lifecycle(p, to)
        PROVE  \E t : proc' = [proc EXCEPT ![p] = t] /\ Begun(t)
    <3> DEFINE C == <<SetLifecycle(to)>>
               T == Begin(C)
    <3>1. proc' = [proc EXCEPT ![p] = T]
      BY <2>6 DEF set_lifecycle, Start
    <3>2. /\ C \in Seq(CallRecord) /\ C # <<>> /\ C[1].do = "set"
          /\ \A i \in 2 .. Len(C) : C[i].do \in {"set", "consider", "request"}
      BY DEF Plain, SetLifecycle, Consider, Call, CallRecord, Calls,
             LIFECYCLE_STATES, EXECUTABLE_STATES
    <3> HIDE DEF C
    <3>4. /\ T \in ProcState /\ T.stage = "start" /\ T.calls = C /\ T.snap = NoRow
      BY <3>2, BeginState
    <3> HIDE DEF T
    <3>5. Begun(T)
      BY <3>2, <3>4 DEF Begun
    <3> QED BY <3>1, <3>5
  <2>7. ASSUME NEW r \in db.reqs, NEW v \in Verdicts, decide_human(p, r, v)
        PROVE  \E t : proc' = [proc EXCEPT ![p] = t] /\ Begun(t)
    <3> DEFINE C == IF v = "approved"
                    THEN <<Plain("decide"), SetLifecycle("approved")>>
                    ELSE <<Plain("decide")>>
               T == [Begin(C) EXCEPT !.req = r.id, !.verdict = v]
    <3>1. proc' = [proc EXCEPT ![p] = T]
      BY <2>7 DEF decide_human, Start
    <3>2. /\ C \in Seq(CallRecord) /\ C # <<>> /\ C[1].do = "decide"
          /\ \A i \in 2 .. Len(C) : C[i].do \in {"set", "consider", "request"}
      <4> USE DEF Plain, SetLifecycle, Call, CallRecord, Calls,
                  LIFECYCLE_STATES, EXECUTABLE_STATES
      <4>1. CASE v = "approved"
        BY <4>1
      <4>2. CASE v # "approved"
        BY <4>2
      <4> QED BY <4>1, <4>2
    <3>3. r.id \in Nat
      BY <1>1 DEF Request
    <3> HIDE DEF C
    <3>4. /\ Begin(C) \in ProcState /\ Begin(C).stage = "start" /\ Begin(C).calls = C
          /\ Begin(C).snap = NoRow
      BY <3>2, BeginState
    <3>5. /\ T \in ProcState /\ T.stage = "start" /\ T.calls = C /\ T.snap = NoRow
          /\ T.verdict = v
      BY <3>3, <3>4 DEF ProcState
    <3> HIDE DEF T
    <3>6. Begun(T)
      BY <3>2, <3>3, <3>5 DEF Begun
    <3> QED BY <3>1, <3>6
  <2> QED BY <2>1, <2>2, <2>3, <2>4, <2>5, <2>6, <2>7 DEF Invoke
<1> QED BY <1>1, <1>2, <1>3

\* onboard and register_discovery find a row, or find that there is none.
LEMMA LookupCalls ==
  ASSUME Typed, NEW p \in Procs, Lookup(p)
  PROVE  /\ UNCHANGED <<Tables, World, History>>
         /\ proc[p].calls # <<>> /\ proc[p].stage = "start" /\ Do(p) = "lookup"
         /\ \E c \in Seq(CallRecord) :
              /\ Goto(p, c) /\ c # <<>> /\ Len(c) >= 1
              /\ c[1].do = IF db.row = NoRow THEN "upsert" ELSE "refresh"
              /\ \A i \in 2 .. Len(c) :
                   \/ c[i].do \in {"set", "consider", "request"}
                   \/ i = 2 /\ c[1].do = "upsert" /\ c[2].do = "announce"
<1> DEFINE rest == Tail(proc[p].calls)
           c == IF db.row = NoRow
                THEN <<Plain("upsert"), Plain("announce")>> \o rest
                ELSE <<Plain("refresh")>> \o rest
<1>1. At(p, "lookup", "start") /\ Goto(p, c) /\ UNCHANGED <<Tables, World, History>>
  BY DEF Lookup
<1>2. /\ rest \in Seq(CallRecord) /\ proc[p].stage = "start" /\ Do(p) = "lookup"
      /\ proc[p].calls # <<>> /\ Len(rest) \in Nat
      /\ \A i \in 1 .. Len(rest) : rest[i].do \in {"set", "consider", "request"}
  BY <1>1, AtFacts DEF Typed, Shape, Do
<1>3. /\ Plain("upsert") \in CallRecord /\ Plain("upsert").do = "upsert"
      /\ Plain("announce") \in CallRecord /\ Plain("announce").do = "announce"
      /\ Plain("refresh") \in CallRecord /\ Plain("refresh").do = "refresh"
  BY DEF Plain, Call, CallRecord, Calls
<1> HIDE DEF rest
<1>4. CASE db.row = NoRow
  <2>1. /\ c \in Seq(CallRecord) /\ Len(c) = Len(rest) + 2 /\ c # <<>>
        /\ c[1].do = "upsert" /\ c[2].do = "announce"
        /\ \A i \in 3 .. Len(c) : c[i].do \in {"set", "consider", "request"}
    BY <1>2, <1>3, <1>4, ConsTwoFacts
  <2> HIDE DEF c
  <2> QED BY <2>1, <1>1, <1>2, <1>4
<1>5. CASE db.row # NoRow
  <2>1. /\ c \in Seq(CallRecord) /\ Len(c) = Len(rest) + 1 /\ c # <<>>
        /\ c[1].do = "refresh"
        /\ \A i \in 2 .. Len(c) : c[i].do \in {"set", "consider", "request"}
    BY <1>2, <1>3, <1>5, ConsFacts
  <2> HIDE DEF c
  <2> QED BY <2>1, <1>1, <1>2, <1>5
<1> QED BY <1>4, <1>5

\* approve() and revoke() make their next call, or skip it.
LEMMA ConsiderCalls ==
  ASSUME Typed, NEW p \in Procs, ConsiderStep(p)
  PROVE  /\ UNCHANGED <<Tables, World, History>> /\ proc[p].stage = "start"
         /\ \E c \in Seq(CallRecord) :
              /\ Goto(p, c)
              /\ \A i \in 1 .. Len(c) : c[i].do \in {"set", "consider", "request"}
              /\ c # <<>> => c[1].do \in {"set", "consider", "request"}
<1> DEFINE to == Head(proc[p].calls).to
           rest == Tail(proc[p].calls)
           c == IF Wanted(db.row.lifecycle, to)
                THEN <<SetLifecycle(to)>> \o rest ELSE rest
<1>1. At(p, "consider", "start") /\ Goto(p, c) /\ UNCHANGED <<Tables, World, History>>
  BY DEF ConsiderStep
<1>2. /\ rest \in Seq(CallRecord) /\ proc[p].stage = "start"
      /\ to \in LIFECYCLE_STATES \cup {Nothing}
      /\ \A i \in 1 .. Len(rest) : rest[i].do \in {"set", "consider", "request"}
  <2>1. /\ rest \in Seq(CallRecord) /\ proc[p].stage = "start" /\ Do(p) = "consider"
        /\ to = To(p) /\ proc[p].calls[1] \in CallRecord
        /\ Len(rest) = Len(proc[p].calls) - 1 /\ Len(proc[p].calls) \in Nat
        /\ \A i \in 1 .. Len(rest) : rest[i] = proc[p].calls[i + 1]
    BY <1>1, AtFacts
  <2>2. to \in LIFECYCLE_STATES \cup {Nothing}
    BY <2>1 DEF To, CallRecord
  <2> HIDE DEF rest, to
  <2>3. ASSUME NEW i \in 1 .. Len(rest)
        PROVE  rest[i].do \in {"set", "consider", "request"}
    <3>1. /\ i + 1 \in 1 .. Len(proc[p].calls) /\ i + 1 # 1
          /\ rest[i] = proc[p].calls[i + 1] /\ proc[p].calls[1].do = "consider"
      BY <2>1 DEF Do
    <3> QED BY <3>1 DEF Typed, Shape
  <2> QED BY <2>1, <2>2, <2>3
<1>3. SetLifecycle(to) \in CallRecord /\ SetLifecycle(to).do = "set"
  BY <1>2 DEF SetLifecycle, Call, CallRecord, Calls
<1> HIDE DEF rest, to
<1>4. /\ c \in Seq(CallRecord)
      /\ \A i \in 1 .. Len(c) : c[i].do \in {"set", "consider", "request"}
  <2>1. CASE Wanted(db.row.lifecycle, to)
    <3>1. c = <<SetLifecycle(to)>> \o rest
      BY <2>1
    <3> HIDE DEF c
    <3> QED BY <3>1, <1>2, <1>3, ConsFacts
  <2>2. CASE ~Wanted(db.row.lifecycle, to)
    BY <2>2, <1>2
  <2> QED BY <2>1, <2>2
<1> HIDE DEF c
<1>5. c # <<>> => c[1].do \in {"set", "consider", "request"}
  BY <1>4, TailFacts
<1> QED BY <1>1, <1>2, <1>4, <1>5

\* The event e is the one of the first call of a process in state s.
Carries(s, e) ==
  LET do == s.calls[1].do
  IN /\ e \in Event
     /\ do = "upsert" => /\ e.type = "discovered" /\ e.to = "quarantined"
                         /\ e.digest = s.seen
     /\ do = "announce" => e.type = "lifecycle" /\ e.to = "quarantined"
     /\ do = "set" => e.type = "lifecycle" /\ e.to = s.calls[1].to
     /\ do = "refresh" =>
          /\ e.type = "drift" /\ e.digest = s.seen
          /\ e.to = next_state_for_digest_change(s.snap.lifecycle)
     /\ do = "request" => e.type = "requested"
     /\ do = "decide" => e.type = "decided" /\ e.verdict \in Verdicts

\* The event each call appends.
LEMMA EventFacts ==
  ASSUME Typed, NEW p \in Procs, proc[p].calls # <<>>, Do(p) \in Writes,
         Do(p) = "decide" => proc[p].verdict \in Verdicts
  PROVE  Carries(proc[p], EventOf(p))
<1> DEFINE e == EventOf(p)
<1>1. /\ proc[p] \in ProcState /\ logged \in Nat
      /\ Head(proc[p].calls) = proc[p].calls[1] /\ proc[p].calls[1] \in CallRecord
  BY AfterFirst DEF Typed, TypeOK
<1>2. /\ proc[p].seen \in Digests \cup {Nothing} /\ proc[p].snap \in Row
      /\ proc[p].req \in Nat /\ proc[p].verdict \in Verdicts \cup {Nothing}
      /\ To(p) \in LIFECYCLE_STATES \cup {Nothing}
  BY <1>1 DEF ProcState, CallRecord, To
<1> USE DEF EventOf, Blank, Event, Carries
<1>3. CASE Do(p) = "upsert"
  BY <1>1, <1>2, <1>3 DEF Do, LIFECYCLE_STATES
<1>4. CASE Do(p) = "announce"
  BY <1>1, <1>2, <1>4 DEF Do, LIFECYCLE_STATES
<1>5. CASE Do(p) = "set"
  BY <1>1, <1>2, <1>5 DEF Do, To
<1>6. CASE Do(p) = "refresh"
  <2>1. next_state_for_digest_change(proc[p].snap.lifecycle) \in LIFECYCLE_STATES
    BY DEF next_state_for_digest_change, LIFECYCLE_STATES
  <2> QED BY <1>1, <1>2, <1>6, <2>1 DEF Do
<1>7. CASE Do(p) = "request"
  <2>1. proc[p].snap.digest \in Digests \cup {Nothing} /\ logged + 1 \in Nat
    BY <1>1, <1>2 DEF Row
  <2>2. e = [Blank EXCEPT !.type = "requested", !.digest = proc[p].snap.digest,
                          !.req = logged + 1]
    BY <1>1, <1>7 DEF Do
  <2> QED BY SMTT(30), ZenonT(30), <1>7, <2>1, <2>2 DEF Do
<1>8. CASE Do(p) = "decide"
  BY <1>1, <1>2, <1>8 DEF Do
<1> QED BY <1>3, <1>4, <1>5, <1>6, <1>7, <1>8 DEF Writes, Carries, Do

-----------------------------------------------------------------------------
(* Steps that change only what one process knows.                            *)

\* Such a step keeps the invariant when the process's new state does.
LEMMA QuietStep ==
  ASSUME IInv, NEW p \in Procs, NEW s \in ProcState,
         proc' = [proc EXCEPT ![p] = s],
         UNCHANGED <<Tables, World, History>>,
         proc[p].stage # "emitted", s.stage # "emitted",
         Shape(p)', Knows(p)', HasRead(p)'
  PROVE  IInv'
<1>1. proc'[p] = s /\ \A q \in Procs : q = p
  BY DEF IInv, OneProcess, TypeOK
<1>2. OneProcess'
  BY DEF IInv, OneProcess
<1>3. TypeOK'
  BY DEF IInv, TypeOK, Tables, World, History
<1>4. HasEmitted(p)'
  BY <1>1 DEF HasEmitted
<1>5. Replica'
  BY <1>1 DEF IInv, Replica, Tables, History
<1>6. Clear'
  BY DEF IInv, Clear, Tables, History
<1> QED BY <1>1, <1>2, <1>3, <1>4, <1>5, <1>6 DEF IInv

\* An operation starts.
LEMMA StartStep ==
  ASSUME IInv, NEW p \in Procs, Invoke(p)
  PROVE  IInv'
<1>1. UNCHANGED <<Tables, World, History>> /\ proc[p].stage = "start"
  BY IsTyped, StartCalls
<1>2. PICK t : proc' = [proc EXCEPT ![p] = t] /\ Begun(t)
  BY IsTyped, StartCalls
<1>3. proc'[p] = t
  BY <1>2 DEF IInv, TypeOK
<1>4. Shape(p)' /\ Knows(p)' /\ HasRead(p)'
  BY <1>2, <1>3 DEF Begun, Shape, Knows, HasRead, Do, To
<1>5. t \in ProcState /\ t.stage = "start"
  BY <1>2 DEF Begun
<1> QED BY <1>1, <1>2, <1>4, <1>5, QuietStep

\* An operation ends, by returning or by raising.
LEMMA RaiseStep ==
  ASSUME IInv, NEW p \in Procs, Raise(p), proc[p].stage # "emitted",
         UNCHANGED <<Tables, World, History>>
  PROVE  IInv'
<1>1. /\ Idle \in ProcState /\ Idle.stage = "start" /\ Idle.calls = <<>>
      /\ proc' = [proc EXCEPT ![p] = Idle] /\ proc'[p] = Idle
  BY DEF Idle, ProcState, Row, NoRow, Event, Blank, Nothing, Raise, IInv, TypeOK
<1>2. Shape(p)' /\ Knows(p)' /\ HasRead(p)'
  BY <1>1 DEF Shape, Knows, HasRead
<1> QED BY <1>1, <1>2, QuietStep

\* A step to other calls keeps the invariant when the list of calls and what
\* is known at the first of them do.
LEMMA GotoStep ==
  ASSUME IInv, NEW p \in Procs, NEW c \in Seq(CallRecord), Goto(p, c),
         UNCHANGED <<Tables, World, History>>, proc[p].stage # "emitted",
         Shape(p)', Knows(p)'
  PROVE  IInv'
<1> DEFINE s == [proc[p] EXCEPT !.calls = c, !.stage = "start"]
<1>1. /\ proc' = [proc EXCEPT ![p] = s] /\ s \in ProcState
      /\ proc'[p].stage = "start"
  BY IsTyped, GotoState
<1>2. s.stage # "emitted"
  BY DEF IInv, TypeOK, ProcState
<1>3. HasRead(p)'
  BY <1>1 DEF HasRead
<1> HIDE DEF s
<1> QED BY <1>1, <1>2, <1>3, QuietStep

\* onboard and register_discovery look for the row.
LEMMA LookupStep ==
  ASSUME IInv, NEW p \in Procs, Lookup(p)
  PROVE  IInv'
<1>1. /\ UNCHANGED <<Tables, World, History>>
      /\ proc[p].calls # <<>> /\ proc[p].stage = "start" /\ Do(p) = "lookup"
  BY IsTyped, LookupCalls
<1>2. PICK c \in Seq(CallRecord) :
        /\ Goto(p, c) /\ c # <<>> /\ Len(c) >= 1
        /\ c[1].do = IF db.row = NoRow THEN "upsert" ELSE "refresh"
        /\ \A i \in 2 .. Len(c) :
             \/ c[i].do \in {"set", "consider", "request"}
             \/ i = 2 /\ c[1].do = "upsert" /\ c[2].do = "announce"
  BY IsTyped, LookupCalls
<1>3. proc[p].seen \in Digests
  BY <1>1 DEF IInv, Knows
<1>4. /\ proc'[p].calls = c /\ proc'[p].stage = "start"
      /\ proc'[p].seen = proc[p].seen /\ db' = db
  BY <1>1, <1>2, IsTyped, GotoState DEF Tables
<1>5. Shape(p)'
  BY <1>2, <1>4 DEF Shape
<1>6. Knows(p)'
  BY <1>2, <1>3, <1>4 DEF Knows, Do
<1> QED BY <1>1, <1>2, <1>5, <1>6, GotoStep

\* approve() and revoke() consider their next call.
LEMMA ConsiderLemma ==
  ASSUME IInv, NEW p \in Procs, ConsiderStep(p)
  PROVE  IInv'
<1>1. UNCHANGED <<Tables, World, History>> /\ proc[p].stage = "start"
  BY IsTyped, ConsiderCalls
<1>2. PICK c \in Seq(CallRecord) :
        /\ Goto(p, c)
        /\ \A i \in 1 .. Len(c) : c[i].do \in {"set", "consider", "request"}
        /\ c # <<>> => c[1].do \in {"set", "consider", "request"}
  BY IsTyped, ConsiderCalls
<1>3. proc'[p].calls = c /\ proc'[p].stage = "start"
  BY <1>2, IsTyped, GotoState
<1>4. Shape(p)'
  BY <1>2, <1>3 DEF Shape
<1>5. Knows(p)'
  BY <1>2, <1>3 DEF Knows, Do
<1> QED BY <1>1, <1>2, <1>4, <1>5, GotoStep

\* A write begins with a read of the row: it goes on, returns or raises.
LEMMA ReadRowStep ==
  ASSUME IInv, NEW p \in Procs, ReadRow(p)
  PROVE  IInv'
<1> DEFINE call == Head(proc[p].calls)
           s == [proc[p] EXCEPT !.stage = "read", !.snap = db.row]
<1>1. /\ Do(p) \in Reads /\ proc[p].calls # <<>> /\ proc[p].stage = "start"
      /\ call = proc[p].calls[1] /\ call.do = Do(p) /\ call.to = To(p)
  BY IsTyped, AtFacts DEF ReadRow, Reads, Do, To
<1>2. UNCHANGED <<Tables, World, History>> /\ db' = db
  BY DEF ReadRow, Tables
<1>3. CASE Raise(p)
  BY <1>1, <1>2, <1>3, RaiseStep
<1>4. CASE call.do = "refresh" /\ db.row.digest = proc[p].seen
           /\ Goto(p, Tail(proc[p].calls))
  <2>1. /\ Shape(p)' /\ proc'[p].stage = "start"
        /\ proc'[p].calls # <<>> => Do(p)' \in {"set", "consider", "request"}
    BY <1>1, <1>4, IsTyped, TailShape DEF IInv, Knows
  <2>2. Knows(p)'
    BY <2>1 DEF Knows
  <2>3. Tail(proc[p].calls) \in Seq(CallRecord)
    BY <1>1, IsTyped, AfterFirst
  <2> QED BY <1>1, <1>2, <1>4, <2>1, <2>2, <2>3, GotoStep
<1>5. CASE /\ db.row # NoRow
           /\ call.do = "set" => can_transition(db.row.lifecycle, call.to)
           /\ proc' = [proc EXCEPT ![p].stage = "read", ![p].snap = db.row]
  <2>1. proc \in [Procs -> ProcState] /\ db.row \in Row
    BY DEF IInv, TypeOK
  <2>2. /\ proc' = [proc EXCEPT ![p] = s] /\ s \in ProcState /\ proc'[p] = s
        /\ s.calls = proc[p].calls /\ s.stage = "read" /\ s.snap = db.row
        /\ s.seen = proc[p].seen /\ s.verdict = proc[p].verdict
    BY <1>5, <2>1 DEF ProcState
  <2> HIDE DEF s
  <2>3. Shape(p)'
    BY <2>2, <1>1 DEF IInv, Shape
  <2>4. Knows(p)'
    BY <2>2, <1>1, <1>2 DEF IInv, Knows, Do, Reads
  <2>5. HasRead(p)'
    BY <2>2, <1>1, <1>2, <1>5 DEF HasRead, Do, To
  <2> QED BY <1>1, <1>2, <2>2, <2>3, <2>4, <2>5, QuietStep
<1> QED BY <1>3, <1>4, <1>5 DEF ReadRow

\* The gate's first look at the row.
LEMMA LookStep ==
  ASSUME IInv, NEW p \in Procs, Look(p)
  PROVE  IInv'
<1> DEFINE c == <<Plain("inspect")>>
           s == [proc[p] EXCEPT !.calls = c, !.snap = db.row]
<1>1. /\ proc[p].calls # <<>> /\ proc[p].stage = "start" /\ Do(p) = "look"
      /\ UNCHANGED <<Tables, World, History>> /\ db' = db
  BY IsTyped, AtFacts DEF Look, Tables
<1>2. CASE Raise(p)
  BY <1>1, <1>2, RaiseStep
<1>3. CASE proc' = [proc EXCEPT ![p].calls = <<Plain("inspect")>>,
                                ![p].snap = db.row]
  <2>1. proc \in [Procs -> ProcState] /\ db.row \in Row
    BY DEF IInv, TypeOK
  <2>2. c \in Seq(CallRecord) /\ Len(c) = 1 /\ c # <<>> /\ c[1].do = "inspect"
    BY DEF Plain, Call, CallRecord, Calls
  <2> HIDE DEF c
  <2>3. /\ proc' = [proc EXCEPT ![p] = s] /\ s \in ProcState /\ proc'[p] = s
        /\ s.calls = c /\ s.stage = "start" /\ s.snap = db.row
    BY <1>1, <1>3, <2>1, <2>2 DEF ProcState, c
  <2> HIDE DEF s
  <2>4. Shape(p)' /\ HasRead(p)'
    BY <2>2, <2>3 DEF Shape, HasRead
  <2>5. Knows(p)'
    BY <1>1, <2>2, <2>3 DEF Knows, Do
  <2> QED BY <1>1, <2>3, <2>4, <2>5, QuietStep
<1> QED BY <1>2, <1>3 DEF Look

\* The gate inspects the source and compares digests.
LEMMA ResolveStep ==
  ASSUME IInv, NEW p \in Procs, _resolve_source(p)
  PROVE  IInv'
<1> DEFINE c == IF source # proc[p].snap.digest
                THEN <<Plain("refresh"), Plain("admit")>>
                ELSE <<Plain("admit")>>
           s == [proc[p] EXCEPT !.seen = source, !.calls = c]
<1>1. /\ proc[p].calls # <<>> /\ proc[p].stage = "start" /\ Do(p) = "inspect"
      /\ UNCHANGED <<Tables, World, History>> /\ db' = db
  BY IsTyped, AtFacts DEF _resolve_source, Tables
<1>2. CASE Raise(p)
  BY <1>1, <1>2, RaiseStep
<1>3. CASE source # Nothing
           /\ proc' = [proc EXCEPT ![p].seen = source, ![p].calls = c]
  <2>1. /\ proc \in [Procs -> ProcState] /\ source \in Digests
        /\ proc[p].snap = db.row
    BY <1>1, <1>3 DEF IInv, TypeOK, Knows
  <2>2. /\ c \in Seq(CallRecord) /\ c # <<>>
        /\ \/ /\ source # db.row.digest /\ Len(c) = 2
              /\ c[1].do = "refresh" /\ c[2].do = "admit"
           \/ source = db.row.digest /\ Len(c) = 1 /\ c[1].do = "admit"
    <3> USE DEF Plain, Call, CallRecord, Calls
    <3>1. CASE source # proc[p].snap.digest
      BY <3>1, <2>1
    <3>2. CASE source = proc[p].snap.digest
      BY <3>2, <2>1
    <3> QED BY <3>1, <3>2
  <2> HIDE DEF c
  <2>3. /\ proc' = [proc EXCEPT ![p] = s] /\ s \in ProcState /\ proc'[p] = s
        /\ s.calls = c /\ s.stage = "start" /\ s.snap = db.row /\ s.seen = source
    BY <1>1, <1>3, <2>1, <2>2 DEF ProcState
  <2> HIDE DEF s
  <2>4. Shape(p)' /\ HasRead(p)'
    BY <2>2, <2>3 DEF Shape, HasRead
  <2>5. Knows(p)'
    BY <1>1, <2>1, <2>2, <2>3 DEF Knows, Do
  <2> QED BY <1>1, <2>3, <2>4, <2>5, QuietStep
<1> QED BY <1>2, <1>3 DEF _resolve_source, inspect_source

\* The gate passes: only here does granted grow.
LEMMA AdmitStep ==
  ASSUME IInv, NEW p \in Procs, Admit(p)
  PROVE  IInv'
<1>1. /\ proc[p].calls # <<>> /\ proc[p].stage = "start" /\ Do(p) = "admit"
  BY IsTyped, AtFacts DEF Admit
<1>2. /\ is_executable(db.row.lifecycle) /\ granted' = granted \cup {proc[p].seen}
      /\ Raise(p) /\ UNCHANGED <<Tables, World, cleared, lost, swapped>>
      /\ UNCHANGED <<db, image>>
  BY DEF Admit, Tables
<1>3. proc[p].seen \in Digests /\ db.row.digest = proc[p].seen
  BY <1>1 DEF IInv, Knows
<1>4. /\ Idle \in ProcState /\ Idle.stage = "start" /\ Idle.calls = <<>>
      /\ proc' = [proc EXCEPT ![p] = Idle] /\ proc'[p] = Idle
  BY <1>2 DEF Idle, ProcState, Row, NoRow, Event, Blank, Nothing, Raise, IInv, TypeOK
<1>5. TypeOK'
  BY <1>2, <1>3, <1>4 DEF IInv, TypeOK, Tables, World
<1>6. \A q \in Procs : Shape(q)' /\ Knows(q)' /\ HasRead(q)' /\ HasEmitted(q)'
  BY <1>4 DEF IInv, OneProcess, Shape, Knows, HasRead, HasEmitted
<1>7. Replica'
  BY <1>1, <1>2, <1>4 DEF IInv, OneProcess, Replica
<1>8. Clear'
  BY <1>2, <1>3, LifecycleFacts DEF IInv, Clear
<1> QED BY <1>5, <1>6, <1>7, <1>8 DEF IInv, OneProcess

\* The gate raises at its last look.
LEMMA RefuseStep ==
  ASSUME IInv, NEW p \in Procs, Refuse(p)
  PROVE  IInv'
<1>1. proc[p].stage = "start"
  BY IsTyped, AtFacts DEF Refuse
<1> QED BY <1>1, RaiseStep DEF Refuse

\* A rebuild: the tables become what they are compared with.
LEMMA RebuildStep ==
  ASSUME IInv, NEW p \in Procs, replay_into(p)
  PROVE  IInv'
<1>1. /\ db' = image /\ image' = image /\ proc' = proc /\ lost' = FALSE
      /\ swapped' = (swapped \/ image.row.digest # db.row.digest)
      /\ UNCHANGED <<logged, source, origin, edits, crashes, granted, cleared>>
      /\ proc[p].calls = <<>>
  BY DEF replay_into, World, Busy
<1>2. proc[p].stage = "start" /\ \A q \in Procs : q = p
  BY <1>1 DEF IInv, OneProcess, Shape
<1>3. TypeOK'
  BY <1>1 DEF IInv, TypeOK
<1>4. \A q \in Procs : Shape(q)' /\ Knows(q)' /\ HasRead(q)' /\ HasEmitted(q)'
  BY <1>1, <1>2 DEF IInv, Shape, Knows, HasRead, HasEmitted
<1>5. Replica'
  BY <1>1, <1>2 DEF IInv, Replica, Follows
<1>6. Clear'
  BY <1>1 DEF IInv, Clear
<1> QED BY <1>3, <1>4, <1>5, <1>6 DEF IInv, OneProcess

\* A kill: what the process had appended and not applied is lost.
LEMMA CrashStep ==
  ASSUME IInv, NEW p \in Procs, Crash(p)
  PROVE  IInv'
<1>1. /\ Raise(p) /\ UNCHANGED <<db, image, logged>>
      /\ UNCHANGED <<source, origin, edits, granted, cleared, swapped>>
      /\ crashes' = crashes + 1 /\ lost' = (lost \/ proc[p].stage = "emitted")
  BY DEF Crash, Tables
<1>2. /\ Idle \in ProcState /\ Idle.stage = "start" /\ Idle.calls = <<>>
      /\ proc' = [proc EXCEPT ![p] = Idle] /\ proc'[p] = Idle
  BY <1>1 DEF Idle, ProcState, Row, NoRow, Event, Blank, Nothing, Raise, IInv, TypeOK
<1>3. TypeOK'
  BY <1>1, <1>2 DEF IInv, TypeOK
<1>4. \A q \in Procs : Shape(q)' /\ Knows(q)' /\ HasRead(q)' /\ HasEmitted(q)'
  BY <1>2 DEF IInv, OneProcess, Shape, Knows, HasRead, HasEmitted
<1>5. Replica'
  BY <1>1, <1>2 DEF IInv, OneProcess, Replica
<1>6. Clear'
  BY <1>1 DEF IInv, Clear
<1> QED BY <1>3, <1>4, <1>5, <1>6 DEF IInv, OneProcess

\* An edit of the source touches nothing the registry has recorded.
LEMMA EditStep ==
  ASSUME IInv, NEW d \in Digests \cup {Nothing}, Edit(d)
  PROVE  IInv'
<1>1. /\ source' = d /\ edits' = edits + 1 /\ proc' = proc
      /\ UNCHANGED <<db, image, logged, origin, crashes, granted, cleared, lost, swapped>>
  BY DEF Edit, Tables, History
<1>2. TypeOK'
  BY <1>1 DEF IInv, TypeOK
<1>3. \A q \in Procs : Shape(q)' /\ Knows(q)' /\ HasRead(q)' /\ HasEmitted(q)'
  BY SMTT(30), ZenonT(30), <1>1 DEF IInv, Shape, Knows, HasRead, HasEmitted, Do, To
<1>4. Replica' /\ Clear'
  BY <1>1 DEF IInv, Replica, Clear
<1> QED BY <1>2, <1>3, <1>4 DEF IInv, OneProcess

-----------------------------------------------------------------------------
(* The two halves of a write.                                                *)

\* The event is appended: the replay moves, the tables do not.
LEMMA EmitStep ==
  ASSUME IInv, NEW p \in Procs, Emit(p)
  PROVE  IInv'
<1> DEFINE e == EventOf(p)
           s == [proc[p] EXCEPT !.stage = "emitted", !.env = e]
<1>1. /\ proc[p].calls # <<>> /\ Do(p) \in Writes
      /\ proc[p].stage = IF Do(p) \in Reads THEN "read" ELSE "start"
      /\ Head(proc[p].calls).to = To(p)
      /\ Do(p) = "set" <=> At(p, "set", "read")
  <2>1. CASE \E do \in Reads : At(p, do, "read")
    BY <2>1, IsTyped, AtFacts DEF Reads, Writes, At, Busy, Do
  <2>2. CASE \E do \in {"upsert", "announce", "decide"} : At(p, do, "start")
    BY <2>2, IsTyped, AtFacts DEF Reads, Writes, At, Busy, Do
  <2> QED BY <2>1, <2>2 DEF Emit, Reads
<1>2. /\ logged' = logged + 1 /\ image' = apply_event(image, e)
      /\ proc' = [proc EXCEPT ![p].stage = "emitted", ![p].env = e]
      /\ UNCHANGED <<db, source, origin, edits, crashes, granted, lost, swapped>>
      /\ cleared' = IF Do(p) = "set" /\ To(p) = "approved"
                    THEN cleared \cup {proc[p].snap.digest} ELSE cleared
  BY <1>1 DEF Emit, World
<1>3. /\ e \in Event
      /\ Do(p) = "upsert" => /\ e.type = "discovered" /\ e.to = "quarantined"
                             /\ e.digest = proc[p].seen
      /\ Do(p) = "announce" => e.type = "lifecycle" /\ e.to = "quarantined"
      /\ Do(p) = "set" => e.type = "lifecycle" /\ e.to = To(p)
      /\ Do(p) = "refresh" =>
           /\ e.type = "drift" /\ e.digest = proc[p].seen
           /\ e.to = next_state_for_digest_change(db.row.lifecycle)
      /\ Do(p) = "request" => e.type = "requested"
      /\ Do(p) = "decide" => e.type = "decided" /\ e.verdict \in Verdicts
  <2>1. Do(p) = "decide" => proc[p].verdict \in Verdicts
    BY <1>1 DEF IInv, Knows
  <2>2. Do(p) = "refresh" => proc[p].snap = db.row
    BY <1>1 DEF IInv, HasRead, Reads
  <2>3. Carries(proc[p], e)
    BY <1>1, <2>1, IsTyped, EventFacts
  <2> QED BY <2>2, <2>3 DEF Carries, Do, To
<1> HIDE DEF e
<1>4. /\ proc \in [Procs -> ProcState]
      /\ image \in [row : Row, reqs : SUBSET Request]
      /\ \A q \in Procs : q = p
  BY DEF IInv, TypeOK, OneProcess
<1>5. /\ proc' = [proc EXCEPT ![p] = s] /\ s \in ProcState /\ proc'[p] = s
      /\ s.stage = "emitted" /\ s.env = e /\ s.calls = proc[p].calls
      /\ s.seen = proc[p].seen /\ s.snap = proc[p].snap
      /\ s.verdict = proc[p].verdict
  BY <1>2, <1>3, <1>4 DEF ProcState
<1> HIDE DEF s
<1>6. /\ image' \in [row : Row, reqs : SUBSET Request]
      /\ image'.row = _apply_capability(image.row, e)
  BY <1>1, <1>2, <1>3, <1>4, ApplyType DEF Writes
<1>7. Do(p) \in Reads => proc[p].snap = db.row /\ db.row # NoRow
  BY <1>1 DEF IInv, HasRead
<1>8. Do(p) = "set" => can_transition(db.row.lifecycle, To(p))
  BY <1>1 DEF IInv, HasRead, Reads
<1>9. /\ Do(p) \in {"lookup", "upsert", "refresh"} => proc[p].seen \in Digests
      /\ Do(p) = "upsert" => db.row = NoRow
      /\ Do(p) = "announce" => db.row.lifecycle = "quarantined"
  BY <1>1 DEF IInv, Knows
<1>10. /\ RowOK(db.row) /\ RowOK(image.row)
       /\ db.row # NoRow => image.row # NoRow
       /\ Follows(db.row.lifecycle, image.row.lifecycle)
  BY DEF IInv, Replica
\* The replayed row after the event.
<1>11. /\ Do(p) \in {"upsert", "refresh"} =>
            image'.row = [lifecycle |-> e.to, digest |-> proc[p].seen]
       /\ Do(p) \in {"announce", "set"} =>
            image'.row = [image.row EXCEPT !.lifecycle = e.to] /\ image.row # NoRow
       /\ Do(p) \in {"request", "decide"} => image'.row = image.row
  <2>1. Do(p) = "announce" => db.row # NoRow
    BY <1>9 DEF NoRow, Nothing
  <2>2. Do(p) \in {"announce", "set", "refresh"} => image.row # NoRow
    BY <2>1, <1>7, <1>10 DEF Reads
  <2> QED BY <1>3, <1>6, <2>2 DEF _apply_capability
<1>12. TypeOK'
  <2>1. cleared' \subseteq Digests
    <3>1. Do(p) = "set" => proc[p].snap.digest \in Digests
      BY <1>7, <1>10 DEF RowOK, Reads
    <3> QED BY <3>1, <1>2 DEF IInv, TypeOK
  <2> QED BY <2>1, <1>2, <1>5, <1>6 DEF IInv, TypeOK
<1>13. Shape(p)' /\ HasRead(p)'
  BY <1>1, <1>5 DEF IInv, Shape, HasRead
<1>14. Knows(p)'
  BY <1>1, <1>2, <1>5 DEF IInv, Knows, Do, Writes
<1>15. /\ RowOK(image.row)' /\ (image'.row # NoRow \/ db.row = NoRow)
       /\ Do(p) \in {"upsert", "announce", "set", "refresh"} =>
            image'.row.lifecycle = e.to
       /\ Do(p) \in {"upsert", "refresh"} => image'.row.digest = proc[p].seen
       /\ Do(p) \in {"announce", "set"} => image'.row.digest = image.row.digest
  <2>1. CASE Do(p) \in {"upsert", "refresh"}
    <3>1. e.to \in LIFECYCLE_STATES
      BY <2>1, <1>3 DEF next_state_for_digest_change, LIFECYCLE_STATES
    <3>2. proc[p].seen \in Digests /\ Nothing \notin LIFECYCLE_STATES
      BY <2>1, <1>9, LifecycleFacts
    <3> QED BY <2>1, <3>1, <3>2, <1>11 DEF RowOK, NoRow
  <2>2. CASE Do(p) \in {"announce", "set"}
    <3>1. e.to \in LIFECYCLE_STATES
      BY <2>2, <1>3, <1>8, LifecycleFacts DEF LIFECYCLE_STATES
    <3>2. Nothing \notin LIFECYCLE_STATES /\ image.row \in Row
      BY <1>4, LifecycleFacts
    <3> QED BY <2>2, <3>1, <3>2, <1>10, <1>11 DEF RowOK, NoRow, Row
  <2>3. CASE Do(p) \in {"request", "decide"}
    BY <2>3, <1>10, <1>11 DEF RowOK
  <2> QED BY <2>1, <2>2, <2>3, <1>1 DEF Writes
<1>16. Follows(db.row.lifecycle, image'.row.lifecycle)
  <2>1. CASE Do(p) = "upsert"
    BY <2>1, <1>3, <1>9, <1>15 DEF Follows, NoRow
  <2>2. CASE Do(p) = "announce"
    BY <2>2, <1>3, <1>9, <1>15 DEF Follows
  <2>3. CASE Do(p) = "set"
    BY <2>3, <1>3, <1>8, <1>15 DEF Follows
  <2>4. CASE Do(p) = "refresh"
    BY <2>4, <1>3, <1>7, <1>10, <1>15, LifecycleFacts DEF RowOK, Reads
  <2>5. CASE Do(p) \in {"request", "decide"}
    BY <2>5, <1>10, <1>11
  <2> QED BY <2>1, <2>2, <2>3, <2>4, <2>5, <1>1 DEF Writes
<1>17. swapped \/ (db.row.lifecycle \in Posted => db.row.digest \in cleared)
  BY DEF IInv, Clear
<1>18. Do(p) = "set" /\ To(p) \in Posted => swapped \/ db.row.digest \in cleared'
  <2>1. CASE To(p) = "approved"
    BY <2>1, <1>2, <1>7 DEF Reads
  <2>2. CASE To(p) # "approved"
    BY <2>2, <1>2, <1>8, <1>17, LifecycleFacts
  <2> QED BY <2>1, <2>2
<1>19. HasEmitted(p)'
  BY SMTT(30), ZenonT(30), <1>1, <1>2, <1>3, <1>5, <1>7, <1>8, <1>15, <1>18
     DEF HasEmitted, Do, To, Reads
<1>20. Replica'
  <2>1. ~lost => image = db
    BY <1>1 DEF IInv, Replica
  <2>2. ~lost => image' = apply_event(db, e)
    BY <2>1, <1>2
  <2> QED BY <2>2, <1>2, <1>4, <1>5, <1>10, <1>15, <1>16 DEF Replica
<1>21. Clear'
  <2>1. cleared \subseteq cleared'
    BY <1>2
  <2>2. swapped \/ (db.row.lifecycle \in Posted => db.row.digest \in cleared')
    BY <2>1, <1>17
  <2>3. swapped \/ granted \subseteq cleared'
    BY <2>1 DEF IInv, Clear
  <2>4. ASSUME ~swapped, image'.row.lifecycle \in Posted,
               image'.row.digest = db.row.digest
        PROVE  image'.row.digest \in cleared'
    <3>1. CASE Do(p) \in {"upsert", "announce", "refresh"}
      <4>1. e.to \in {"quarantined", "revoked"}
        BY <3>1, <1>3 DEF next_state_for_digest_change
      <4> QED BY <3>1, <4>1, <2>4, <1>15, LifecycleFacts
    <3>2. CASE Do(p) = "set"
      BY <3>2, <2>4, <1>3, <1>15, <1>18
    <3>3. CASE Do(p) \in {"request", "decide"}
      BY <3>3, <2>1, <2>4, <1>11 DEF IInv, Clear
    <3> QED BY <3>1, <3>2, <3>3, <1>1 DEF Writes
  <2> QED BY <2>2, <2>3, <2>4, <1>2 DEF Clear
<1> QED BY <1>4, <1>12, <1>13, <1>14, <1>19, <1>20, <1>21 DEF IInv, OneProcess

\* The event is applied and committed: the tables follow the replay, and the
\* lifecycle moves along a transition.
LEMMA CommitStep ==
  ASSUME IInv, NEW p \in Procs, Commit(p)
  PROVE  IInv' /\ Follows(db.row.lifecycle, db'.row.lifecycle)
<1> DEFINE e == proc[p].env
<1>1. /\ proc[p].calls # <<>> /\ proc[p].stage = "emitted"
      /\ db' = apply_event(db, e) /\ Goto(p, Tail(proc[p].calls))
      /\ UNCHANGED <<image, logged, source, origin, edits, crashes>>
      /\ UNCHANGED <<granted, cleared, lost, swapped>>
  BY DEF Commit, Busy, World, History
<1>2. /\ Do(p) \in Writes
      /\ Do(p) = "upsert" => /\ e.type = "discovered" /\ e.to = "quarantined"
                             /\ e.digest = proc[p].seen
      /\ Do(p) = "announce" => e.type = "lifecycle" /\ e.to = "quarantined"
      /\ Do(p) = "set" =>
           /\ e.type = "lifecycle" /\ e.to = To(p)
           /\ db.row # NoRow /\ can_transition(db.row.lifecycle, To(p))
           /\ To(p) \in Posted => swapped \/ db.row.digest \in cleared
      /\ Do(p) = "refresh" =>
           /\ e.type = "drift" /\ e.digest = proc[p].seen
           /\ e.to = next_state_for_digest_change(db.row.lifecycle)
           /\ db.row # NoRow
      /\ Do(p) = "request" => e.type = "requested"
      /\ Do(p) = "decide" => e.type = "decided" /\ e.verdict \in Verdicts
      /\ Do(p) \in {"upsert", "announce", "set", "refresh"} =>
           image.row.lifecycle = e.to
      /\ Do(p) \in {"upsert", "refresh"} => image.row.digest = proc[p].seen
  BY <1>1 DEF IInv, HasEmitted
<1>3. /\ e \in Event /\ db \in [row : Row, reqs : SUBSET Request]
      /\ proc[p] \in ProcState
      /\ \A q \in Procs : q = p
  BY DEF IInv, TypeOK, ProcState, OneProcess
<1> HIDE DEF e
<1>4. /\ db' \in [row : Row, reqs : SUBSET Request]
      /\ db'.row = _apply_capability(db.row, e)
  BY <1>1, <1>2, <1>3, ApplyType DEF Writes
<1>5. /\ Do(p) \in {"upsert", "refresh"} => proc[p].seen \in Digests
      /\ Do(p) = "upsert" => db.row = NoRow
      /\ Do(p) = "announce" => db.row.lifecycle = "quarantined"
  BY <1>1 DEF IInv, Knows
<1>6. /\ RowOK(db.row) /\ RowOK(image.row)
      /\ db.row # NoRow => image.row # NoRow
      /\ Follows(db.row.lifecycle, image.row.lifecycle)
  BY DEF IInv, Replica
\* The committed row after the event.
<1>7. /\ Do(p) \in {"upsert", "refresh"} =>
           db'.row = [lifecycle |-> e.to, digest |-> proc[p].seen]
      /\ Do(p) \in {"announce", "set"} =>
           db'.row = [db.row EXCEPT !.lifecycle = e.to] /\ db.row # NoRow
      /\ Do(p) \in {"request", "decide"} => db'.row = db.row
  <2>1. Do(p) = "announce" => db.row # NoRow
    BY <1>5 DEF NoRow, Nothing
  <2> QED BY <2>1, <1>2, <1>4 DEF _apply_capability
<1>8. /\ RowOK(db'.row) /\ (db'.row # NoRow => image.row # NoRow)
      /\ Do(p) \in {"upsert", "announce", "set", "refresh"} =>
           db'.row.lifecycle = e.to
      /\ Do(p) \in {"announce", "set"} => db'.row.digest = db.row.digest
      /\ Do(p) \in {"upsert", "refresh"} => db'.row.digest = proc[p].seen
  <2>1. CASE Do(p) \in {"upsert", "refresh"}
    <3>1. e.to \in LIFECYCLE_STATES
      BY <2>1, <1>2 DEF next_state_for_digest_change, LIFECYCLE_STATES
    <3>2. image.row # NoRow
      BY <2>1, <3>1, <1>2, LifecycleFacts DEF NoRow
    <3> QED BY <2>1, <3>1, <3>2, <1>5, <1>7 DEF RowOK
  <2>2. CASE Do(p) \in {"announce", "set"}
    <3>1. e.to \in LIFECYCLE_STATES
      BY <2>2, <1>2, LifecycleFacts DEF LIFECYCLE_STATES
    <3> QED BY <2>2, <3>1, <1>3, <1>6, <1>7 DEF RowOK, Row
  <2>3. CASE Do(p) \in {"request", "decide"}
    BY <2>3, <1>6, <1>7
  <2> QED BY <2>1, <2>2, <2>3, <1>2 DEF Writes
<1>9. Follows(db'.row.lifecycle, image.row.lifecycle)
  <2>1. CASE Do(p) \in {"upsert", "announce", "set", "refresh"}
    BY <2>1, <1>2, <1>8 DEF Follows
  <2>2. CASE Do(p) \in {"request", "decide"}
    BY <2>2, <1>6, <1>7
  <2> QED BY <2>1, <2>2, <1>2 DEF Writes
<1>10. Follows(db.row.lifecycle, db'.row.lifecycle)
  <2>1. CASE Do(p) \in {"upsert", "announce", "set", "refresh"}
    BY <2>1, <1>2, <1>6, <1>8
  <2>2. CASE Do(p) \in {"request", "decide"}
    BY <2>2, <1>7 DEF Follows
  <2> QED BY <2>1, <2>2, <1>2 DEF Writes
<1>11. /\ Shape(p)' /\ proc'[p].stage = "start" /\ proc'[p].seen = proc[p].seen
       /\ proc'[p].calls # <<>> =>
            \/ Do(p)' \in {"set", "consider", "request"}
            \/ Do(p)' = "announce" /\ Do(p) = "upsert"
            \/ Do(p)' = "admit" /\ Do(p) = "refresh"
  BY <1>1, IsTyped, TailShape
<1>12. Knows(p)'
  <2>1. CASE Do(p)' \in {"set", "consider", "request"}
    BY <2>1 DEF Knows
  <2>2. CASE Do(p)' = "announce" /\ Do(p) = "upsert"
    BY <2>2, <1>2, <1>8 DEF Knows
  <2>3. CASE Do(p)' = "admit" /\ Do(p) = "refresh"
    <3>1. /\ db'.row.digest = proc[p].seen /\ proc[p].seen \in Digests
          /\ db'.row.lifecycle \in {"quarantined", "revoked"}
      BY <2>3, <1>2, <1>5, <1>8 DEF next_state_for_digest_change
    <3>2. ~is_executable(db'.row.lifecycle)
      BY <3>1, LifecycleFacts
    <3> QED BY <2>3, <3>1, <3>2, <1>11 DEF Knows
  <2>4. CASE proc'[p].calls = <<>>
    BY <2>4 DEF Knows
  <2> QED BY <2>1, <2>2, <2>3, <2>4, <1>11
<1>13. HasRead(p)' /\ HasEmitted(p)'
  BY <1>11 DEF HasRead, HasEmitted
<1>14. TypeOK'
  <2>1. Tail(proc[p].calls) \in Seq(CallRecord)
    BY <1>1, IsTyped, AfterFirst
  <2>2. proc' \in [Procs -> ProcState]
    BY ZenonT(60), <2>1, <1>1, IsTyped, GotoState DEF IInv, TypeOK
  <2> QED BY <2>2, <1>1, <1>4 DEF IInv, TypeOK
<1>15. Replica'
  <2>1. ~lost => image = apply_event(db, e)
    BY <1>1 DEF IInv, Replica, e
  <2> QED BY <2>1, <1>1, <1>3, <1>6, <1>8, <1>9, <1>11 DEF Replica
<1>16. Clear'
  <2> SUFFICES ASSUME ~swapped PROVE Clear'
    BY <1>1 DEF Clear
  <2>1. CASE Do(p) \in {"upsert", "refresh"}
    <3>1. db'.row.lifecycle \notin Posted /\ image.row.lifecycle \notin Posted
      BY <2>1, <1>2, <1>8, LifecycleFacts DEF next_state_for_digest_change
    <3> QED BY <3>1, <1>1 DEF IInv, Clear
  <2>2. CASE Do(p) = "announce"
    <3>1. db'.row.lifecycle \notin Posted /\ image.row.lifecycle \notin Posted
      BY <2>2, <1>2, <1>8, LifecycleFacts
    <3> QED BY <3>1, <1>1 DEF IInv, Clear
  <2>3. CASE Do(p) = "set"
    BY <2>3, <1>1, <1>2, <1>8 DEF IInv, Clear
  <2>4. CASE Do(p) \in {"request", "decide"}
    BY <2>4, <1>1, <1>7 DEF IInv, Clear
  <2> QED BY <2>1, <2>2, <2>3, <2>4, <1>2 DEF Writes
<1> QED BY <1>3, <1>10, <1>11, <1>12, <1>13, <1>14, <1>15, <1>16
        DEF IInv, OneProcess

-----------------------------------------------------------------------------
(* The theorems for one process at a time.                                   *)

\* The invariant holds of an empty registry.
LEMMA InitInv == OneProcess /\ Init => IInv
<1> SUFFICES ASSUME OneProcess, Init PROVE IInv
  OBVIOUS
<1>1. Idle \in ProcState /\ Idle.stage = "start" /\ Idle.calls = <<>>
  BY DEF Idle, ProcState, Row, NoRow, Event, Blank, Nothing
<1>2. /\ db = [row |-> NoRow, reqs |-> {}] /\ image = db
      /\ \A p \in Procs : proc[p] = Idle
      /\ granted = {} /\ cleared = {} /\ lost = FALSE /\ swapped = FALSE
  BY DEF Init
<1>3. TypeOK
  BY <1>1 DEF Init, TypeOK, Row, NoRow
<1>4. \A p \in Procs : Shape(p) /\ Knows(p) /\ HasRead(p) /\ HasEmitted(p)
  <2> SUFFICES ASSUME NEW p \in Procs
               PROVE  Shape(p) /\ Knows(p) /\ HasRead(p) /\ HasEmitted(p)
    OBVIOUS
  <2>1. proc[p].calls = <<>> /\ proc[p].stage = "start" /\ Len(proc[p].calls) = 0
    BY <1>1, <1>2
  <2> QED BY <2>1 DEF Shape, Knows, HasRead, HasEmitted
<1>5. Replica
  BY <1>1, <1>2 DEF Replica, RowOK, Follows
<1>6. Clear
  BY <1>2, LifecycleFacts DEF Clear, NoRow
<1> QED BY <1>3, <1>4, <1>5, <1>6 DEF IInv

\* Every step keeps the invariant.
LEMMA NextInv == IInv /\ [Next]_vars => IInv'
<1> SUFFICES ASSUME IInv, [Next]_vars PROVE IInv'
  OBVIOUS
<1>1. CASE UNCHANGED vars
  <2>1. TypeOK'
    BY <1>1 DEF IInv, TypeOK, vars
  <2>2. \A p \in Procs : Shape(p)' /\ Knows(p)' /\ HasRead(p)' /\ HasEmitted(p)'
    BY SMTT(30), ZenonT(30), <1>1 DEF IInv, Shape, Knows, HasRead, HasEmitted, Do, To, vars
  <2>3. Replica' /\ Clear'
    BY <1>1 DEF IInv, Replica, Clear, vars
  <2> QED BY <2>1, <2>2, <2>3 DEF IInv, OneProcess
<1>2. ASSUME NEW p \in Procs, Invoke(p) PROVE IInv'
  BY <1>2, StartStep
<1>3. ASSUME NEW p \in Procs, Step(p) PROVE IInv'
  BY <1>3, LookupStep, ConsiderLemma, ReadRowStep, EmitStep, CommitStep,
     LookStep, ResolveStep, AdmitStep, RefuseStep DEF Step
<1>4. ASSUME NEW p \in Procs, replay_into(p) PROVE IInv'
  BY <1>4, RebuildStep
<1>5. ASSUME NEW p \in Procs, Crash(p) PROVE IInv'
  BY <1>5, CrashStep
<1>6. ASSUME NEW d \in Digests \cup {Nothing}, Edit(d) PROVE IInv'
  BY <1>6, EditStep
<1> QED BY <1>1, <1>2, <1>3, <1>4, <1>5, <1>6 DEF Next

\* The invariant, for one process at a time.
THEOREM Invariance == OneProcess /\ Spec => []IInv
BY InitInv, NextInv, PTL DEF Spec

\* Between operations the tables are a replay of the log (store.py, projections.py).
THEOREM Reproducible == OneProcess /\ Spec => []ReplayReproduces
<1>1. IInv => ReplayReproduces
  <2> SUFFICES ASSUME IInv, \A p \in Procs : ~Busy(p)
               PROVE  /\ ~lost => db = image
                      /\ db.row # NoRow =>
                           \/ image.row.lifecycle = db.row.lifecycle
                           \/ can_transition(db.row.lifecycle,
                                             image.row.lifecycle)
    BY DEF ReplayReproduces
  <2>1. PICK p \in Procs : TRUE
    BY ConstantsAssumption
  <2>2. proc[p].stage = "start"
    BY DEF IInv, Shape, Busy
  <2>3. ~lost => db = image
    BY <2>2 DEF IInv, Replica
  <2>4. db.row # NoRow => db.row.lifecycle # Nothing
    BY LifecycleFacts DEF IInv, Replica, RowOK
  <2> QED BY <2>3, <2>4 DEF IInv, Replica, Follows
<1> QED BY <1>1, Invariance, PTL

\* The gate (gate.py) lets through only content whose digest the row had when
\* its approval was logged, unless a rebuild has changed that digest; and its
\* last look finds the row with the digest it inspected.
THEOREM GateAlways == OneProcess /\ Spec => []GateSafe
<1>1. IInv => GrantedWasCleared
  BY DEF IInv, Clear, GrantedWasCleared
<1>2. IInv => DriftSnapsBack
  <2> SUFFICES ASSUME IInv, NEW p \in Procs, At(p, "admit", "start")
               PROVE  /\ db.row.digest = proc[p].seen
                      /\ is_executable(db.row.lifecycle) =>
                           proc[p].snap.digest = proc[p].seen
    BY DEF DriftSnapsBack
  <2>1. proc[p].calls # <<>> /\ Do(p) = "admit"
    BY IsTyped, AtFacts
  <2> QED BY <2>1 DEF IInv, Knows
<1> QED BY <1>1, <1>2, Invariance, PTL DEF GateSafe

\* The committed lifecycle moves only along _TRANSITIONS (lifecycle.py).
THEOREM Legal == OneProcess /\ Spec => LegalLifecycle
<1> DEFINE A == LET old == db.row.lifecycle
                    new == db'.row.lifecycle
                IN new # old => \/ can_transition(old, new)
                                \/ old = Nothing /\ new = "quarantined"
<1>1. IInv /\ [Next]_vars => [A]_vars
  <2> SUFFICES ASSUME IInv, Next, db' # db
               PROVE  Follows(db.row.lifecycle, db'.row.lifecycle)
    BY DEF Follows
  <2>1. \/ \E p \in Procs : Commit(p)
        \/ \E p \in Procs : replay_into(p)
    BY DEF Next, Invoke, Step, onboard, register_discovery, approve, revoke,
       assert_executable, set_lifecycle, decide_human, Start, Lookup,
       ConsiderStep, ReadRow, Emit, Look, _resolve_source, Admit, Refuse,
       Crash, Edit, Tables
  <2>2. ASSUME NEW p \in Procs, Commit(p)
        PROVE  Follows(db.row.lifecycle, db'.row.lifecycle)
    BY <2>2, CommitStep
  <2>3. ASSUME NEW p \in Procs, replay_into(p)
        PROVE  Follows(db.row.lifecycle, db'.row.lifecycle)
    BY <2>3 DEF replay_into, IInv, Replica
  <2> QED BY <2>1, <2>2, <2>3
<1> QED BY <1>1, Invariance, PTL DEF Spec, LegalLifecycle
-----------------------------------------------------------------------------
(* Any number of processes at a time.  What a process knows of the row may   *)
(* be out of date, so the invariant relates a process only to what it has    *)
(* read itself and to the approvals in the log, which only grow.             *)

\* A row, committed, replayed or read; it cannot have come to run without an
\* approval in the log.
Settled(r, cl) == RowOK(r) /\ (cl = {} => r.lifecycle \notin Posted)

\* The state of a process, cl being the digests approved so far.
Local(s, cl) ==
  LET do == s.calls[1].do
      to == s.calls[1].to
  IN /\ Settled(s.snap, cl)
     /\ s.calls # <<>> =>
          /\ do \in {"lookup", "upsert", "refresh", "admit"} => s.seen \in Digests
          /\ do = "decide" => s.verdict \in Verdicts
     /\ s.stage = "read" =>
          /\ do \in Reads /\ s.snap # NoRow
          /\ do = "set" => can_transition(s.snap.lifecycle, to)
     /\ s.stage = "emitted" =>
          /\ do \in Writes /\ Carries(s, s.env)
          /\ do = "refresh" => s.snap # NoRow
          /\ do = "set" => /\ can_transition(s.snap.lifecycle, to)
                           /\ to = "approved" => s.snap.digest \in cl
                           /\ to \in Posted => cl # {}

MInv ==
  /\ Typed
  /\ \A p \in Procs : Local(proc[p], cleared)
  /\ Settled(db.row, cleared) /\ Settled(image.row, cleared)
  /\ granted # {} => cleared # {}

\* More approvals change nothing of that.
LEMMA SettledStays ==
  ASSUME NEW r, NEW cl, NEW more, cl \subseteq more, Settled(r, cl)
  PROVE  Settled(r, more)
BY DEF Settled

LEMMA LocalStays ==
  ASSUME NEW s, NEW cl, NEW more, cl \subseteq more, Local(s, cl)
  PROVE  Local(s, more)
BY SettledStays DEF Local

\* A process changes its own state: the others keep theirs.
LEMMA OwnState ==
  ASSUME MInv, NEW p \in Procs, NEW s \in ProcState,
         proc' = [proc EXCEPT ![p] = s],
         Shape(p)', cleared \subseteq cleared', Local(s, cleared')
  PROVE  /\ proc' \in [Procs -> ProcState]
         /\ \A q \in Procs : Shape(q)' /\ Local(proc'[q], cleared')
<1>1. proc \in [Procs -> ProcState]
  BY DEF MInv, Typed, TypeOK
<1>2. ASSUME NEW q \in Procs PROVE Shape(q)' /\ Local(proc'[q], cleared')
  <2>1. CASE q = p
    BY <2>1, <1>1
  <2>2. CASE q # p
    <3>1. proc'[q] = proc[q]
      BY <2>2, <1>1
    <3>2. Shape(q) /\ Local(proc[q], cleared)
      BY DEF MInv, Typed
    <3>3. Local(proc[q], cleared')
      BY <3>2, LocalStays
    <3> QED BY <3>1, <3>2, <3>3 DEF Shape
  <2> QED BY <2>1, <2>2
<1> QED BY <1>1, <1>2

\* A step that changes nothing else keeps the invariant.
LEMMA OwnStep ==
  ASSUME MInv, NEW p \in Procs, NEW s \in ProcState,
         proc' = [proc EXCEPT ![p] = s],
         UNCHANGED <<Tables, World, History>>,
         Shape(p)', Local(s, cleared)
  PROVE  MInv'
<1>1. UNCHANGED <<source, origin, db, image, logged, edits, crashes, granted,
                  cleared, lost, swapped>>
  BY DEF Tables, World, History
<1>2. /\ proc' \in [Procs -> ProcState]
      /\ \A q \in Procs : Shape(q)' /\ Local(proc'[q], cleared')
  BY <1>1, OwnState
<1>3. TypeOK'
  BY <1>1, <1>2 DEF MInv, Typed, TypeOK
<1> QED BY <1>1, <1>2, <1>3 DEF MInv, Typed

\* The state of a process that has no operation.
LEMMA IdleFacts ==
  ASSUME NEW cl
  PROVE  /\ Idle \in ProcState /\ Idle.stage = "start" /\ Idle.calls = <<>>
         /\ Local(Idle, cl)
<1>1. /\ Idle \in ProcState /\ Idle.stage = "start" /\ Idle.calls = <<>>
      /\ Idle.snap = NoRow
  BY DEF Idle, ProcState, Row, NoRow, Event, Blank, Nothing
<1>2. Settled(NoRow, cl)
  BY LifecycleFacts DEF Settled, RowOK, NoRow
<1> QED BY <1>1, <1>2 DEF Local

\* An operation ends.
LEMMA EndsMany ==
  ASSUME MInv, NEW p \in Procs, Raise(p)
  PROVE  /\ proc' = [proc EXCEPT ![p] = Idle] /\ proc'[p] = Idle /\ Shape(p)'
<1>1. proc' = [proc EXCEPT ![p] = Idle] /\ proc'[p] = Idle
  BY DEF Raise, MInv, Typed, TypeOK
<1> QED BY <1>1, IdleFacts DEF Shape

LEMMA RaiseMany ==
  ASSUME MInv, NEW p \in Procs, Raise(p), UNCHANGED <<Tables, World, History>>
  PROVE  MInv'
BY EndsMany, IdleFacts, OwnStep

\* A process goes on to other calls, which may need what it has seen.
LEMMA GoesOn ==
  ASSUME MInv, NEW p \in Procs, NEW c \in Seq(CallRecord), Goto(p, c),
         c # <<>> => /\ c[1].do # "decide"
                     /\ c[1].do \in {"lookup", "upsert", "refresh", "admit"} =>
                          proc[p].seen \in Digests
  PROVE  \E s \in ProcState : /\ proc' = [proc EXCEPT ![p] = s]
                              /\ Local(s, cleared)
<1> DEFINE s == [proc[p] EXCEPT !.calls = c, !.stage = "start"]
<1>1. Typed
  BY DEF MInv
<1>2. proc' = [proc EXCEPT ![p] = s] /\ s \in ProcState
  BY <1>1, GotoState
<1>3. proc \in [Procs -> ProcState] /\ Settled(proc[p].snap, cleared)
  BY DEF MInv, Typed, TypeOK, Local
<1>4. /\ s.calls = c /\ s.stage = "start" /\ s.seen = proc[p].seen
      /\ s.snap = proc[p].snap
  BY <1>3 DEF ProcState
<1> HIDE DEF s
<1>5. Local(s, cleared)
  BY <1>3, <1>4 DEF Local
<1> QED BY <1>2, <1>5

\* Operations start, whoever else is at work.
LEMMA StartMany ==
  ASSUME MInv, NEW p \in Procs, Invoke(p)
  PROVE  MInv'
<1>0. Typed
  BY DEF MInv
<1>1. UNCHANGED <<Tables, World, History>>
  BY <1>0, StartCalls
<1>2. PICK t : proc' = [proc EXCEPT ![p] = t] /\ Begun(t)
  BY <1>0, StartCalls
<1>3. proc'[p] = t
  BY <1>0, <1>2 DEF Typed, TypeOK
<1>4. t \in ProcState /\ Shape(p)'
  BY <1>2, <1>3 DEF Begun, Shape
<1>5. Settled(NoRow, cleared)
  BY LifecycleFacts DEF Settled, RowOK, NoRow
<1>6. Local(t, cleared)
  BY <1>2, <1>5 DEF Begun, Local
<1> QED BY <1>1, <1>2, <1>4, <1>6, OwnStep

\* The row is looked for.
LEMMA LookupMany ==
  ASSUME MInv, NEW p \in Procs, Lookup(p)
  PROVE  MInv'
<1>0. Typed
  BY DEF MInv
<1>1. /\ UNCHANGED <<Tables, World, History>>
      /\ proc[p].calls # <<>> /\ Do(p) = "lookup"
  BY <1>0, LookupCalls
<1>2. PICK c \in Seq(CallRecord) :
        /\ Goto(p, c) /\ c # <<>> /\ Len(c) >= 1
        /\ c[1].do = IF db.row = NoRow THEN "upsert" ELSE "refresh"
        /\ \A i \in 2 .. Len(c) :
             \/ c[i].do \in {"set", "consider", "request"}
             \/ i = 2 /\ c[1].do = "upsert" /\ c[2].do = "announce"
  BY <1>0, LookupCalls
<1>3. proc[p].seen \in Digests
  BY <1>1 DEF MInv, Local, Do
<1>4. proc'[p].calls = c /\ proc'[p].stage = "start"
  BY <1>0, <1>2, GotoState
<1>5. Shape(p)'
  BY <1>2, <1>4 DEF Shape
<1> QED BY <1>1, <1>2, <1>3, <1>5, GoesOn, OwnStep

\* The conditions of approve() and revoke().
LEMMA ConsiderMany ==
  ASSUME MInv, NEW p \in Procs, ConsiderStep(p)
  PROVE  MInv'
<1>0. Typed
  BY DEF MInv
<1>1. UNCHANGED <<Tables, World, History>>
  BY <1>0, ConsiderCalls
<1>2. PICK c \in Seq(CallRecord) :
        /\ Goto(p, c)
        /\ \A i \in 1 .. Len(c) : c[i].do \in {"set", "consider", "request"}
        /\ c # <<>> => c[1].do \in {"set", "consider", "request"}
  BY <1>0, ConsiderCalls
<1>3. proc'[p].calls = c /\ proc'[p].stage = "start"
  BY <1>0, <1>2, GotoState
<1>4. Shape(p)'
  BY <1>2, <1>3 DEF Shape
<1> QED BY <1>1, <1>2, <1>4, GoesOn, OwnStep

\* A call is over and the next one, if any, is due.
LEMMA NextCall ==
  ASSUME MInv, NEW p \in Procs, proc[p].calls # <<>>,
         Goto(p, Tail(proc[p].calls))
  PROVE  /\ Shape(p)' /\ proc'[p].stage = "start"
         /\ \E s \in ProcState : /\ proc' = [proc EXCEPT ![p] = s]
                                 /\ Local(s, cleared)
<1> DEFINE rest == Tail(proc[p].calls)
<1>0. Typed
  BY DEF MInv
<1>1. /\ Shape(p)' /\ proc'[p].calls = rest /\ proc'[p].stage = "start"
      /\ proc'[p].calls # <<>> =>
           \/ Do(p)' \in {"set", "consider", "request"}
           \/ Do(p)' = "announce" /\ Do(p) = "upsert"
           \/ Do(p)' = "admit" /\ Do(p) = "refresh"
  BY <1>0, TailShape
<1>2. rest \in Seq(CallRecord)
  BY <1>0, AfterFirst
<1>3. Do(p) = "refresh" => proc[p].seen \in Digests
  BY DEF MInv, Local, Do
<1> HIDE DEF rest
<1>4. rest # <<>> => /\ rest[1].do # "decide"
                     /\ rest[1].do \in {"lookup", "upsert", "refresh", "admit"} =>
                          proc[p].seen \in Digests
  BY <1>1, <1>3 DEF Do
<1>5. Goto(p, rest)
  BY DEF rest
<1> QED BY <1>1, <1>2, <1>4, <1>5, GoesOn

\* The read at the start of a write: what it finds is settled.
LEMMA ReadMany ==
  ASSUME MInv, NEW p \in Procs, ReadRow(p)
  PROVE  MInv'
<1> DEFINE call == Head(proc[p].calls)
           s == [proc[p] EXCEPT !.stage = "read", !.snap = db.row]
<1>0. Typed
  BY DEF MInv
<1>1. /\ Do(p) \in Reads /\ proc[p].calls # <<>> /\ proc[p].stage = "start"
      /\ call = proc[p].calls[1] /\ call.do = Do(p) /\ call.to = To(p)
      /\ UNCHANGED <<Tables, World, History>>
  BY <1>0, AtFacts DEF ReadRow, Reads, Do, To
<1>2. CASE Raise(p)
  BY <1>1, <1>2, RaiseMany
<1>3. CASE Goto(p, Tail(proc[p].calls))
  BY <1>1, <1>3, NextCall, OwnStep
<1>4. CASE /\ db.row # NoRow
           /\ call.do = "set" => can_transition(db.row.lifecycle, call.to)
           /\ proc' = [proc EXCEPT ![p].stage = "read", ![p].snap = db.row]
  <2>1. /\ proc \in [Procs -> ProcState] /\ db.row \in Row
        /\ Shape(p) /\ Local(proc[p], cleared) /\ Settled(db.row, cleared)
    BY DEF MInv, Typed, TypeOK
  <2>2. /\ proc' = [proc EXCEPT ![p] = s] /\ s \in ProcState /\ proc'[p] = s
        /\ s.calls = proc[p].calls /\ s.stage = "read" /\ s.snap = db.row
        /\ s.seen = proc[p].seen /\ s.verdict = proc[p].verdict
    BY <1>4, <2>1 DEF ProcState
  <2> HIDE DEF s
  <2>3. Shape(p)'
    BY <2>1, <2>2, <1>1 DEF Shape
  <2>4. Local(s, cleared)
    BY <2>1, <2>2, <1>1, <1>4 DEF Local, Do, To
  <2> QED BY <1>1, <2>2, <2>3, <2>4, OwnStep
<1> QED BY <1>2, <1>3, <1>4 DEF ReadRow

\* The gate's two looks at the row and the look at the source between them.
LEMMA LookMany ==
  ASSUME MInv, NEW p \in Procs, Look(p)
  PROVE  MInv'
<1> DEFINE c == <<Plain("inspect")>>
           s == [proc[p] EXCEPT !.calls = c, !.snap = db.row]
<1>1. /\ proc[p].stage = "start" /\ UNCHANGED <<Tables, World, History>>
      /\ Raise(p) \/ proc' = [proc EXCEPT ![p].calls = c, ![p].snap = db.row]
  BY DEF Look, At
<1>2. CASE Raise(p)
  BY <1>1, <1>2, RaiseMany
<1>3. CASE proc' = [proc EXCEPT ![p].calls = c, ![p].snap = db.row]
  <2>1. /\ proc \in [Procs -> ProcState] /\ db.row \in Row
        /\ Settled(db.row, cleared)
    BY DEF MInv, Typed, TypeOK
  <2>2. c \in Seq(CallRecord) /\ Len(c) = 1 /\ c # <<>> /\ c[1].do = "inspect"
    BY DEF Plain, Call, CallRecord, Calls
  <2> HIDE DEF c
  <2>3. /\ proc' = [proc EXCEPT ![p] = s] /\ s \in ProcState /\ proc'[p] = s
        /\ s.calls = c /\ s.stage = "start" /\ s.snap = db.row
    BY <1>1, <1>3, <2>1, <2>2 DEF ProcState
  <2> HIDE DEF s
  <2>4. Shape(p)' /\ Local(s, cleared)
    BY <2>1, <2>2, <2>3 DEF Shape, Local
  <2> QED BY <1>1, <2>3, <2>4, OwnStep
<1> QED BY <1>1, <1>2, <1>3

LEMMA ResolveMany ==
  ASSUME MInv, NEW p \in Procs, _resolve_source(p)
  PROVE  MInv'
<1> DEFINE c == IF source # proc[p].snap.digest
                THEN <<Plain("refresh"), Plain("admit")>>
                ELSE <<Plain("admit")>>
           s == [proc[p] EXCEPT !.seen = source, !.calls = c]
<1>1. /\ proc[p].stage = "start" /\ UNCHANGED <<Tables, World, History>>
      /\ \/ Raise(p)
         \/ /\ source # Nothing
            /\ proc' = [proc EXCEPT ![p].seen = source, ![p].calls = c]
  BY DEF _resolve_source, At, inspect_source
<1>2. CASE Raise(p)
  BY <1>1, <1>2, RaiseMany
<1>3. CASE source # Nothing
           /\ proc' = [proc EXCEPT ![p].seen = source, ![p].calls = c]
  <2>1. /\ proc \in [Procs -> ProcState] /\ source \in Digests
        /\ Settled(proc[p].snap, cleared)
    BY <1>3 DEF MInv, Typed, TypeOK, Local
  <2>2. /\ c \in Seq(CallRecord) /\ c # <<>>
        /\ \/ Len(c) = 2 /\ c[1].do = "refresh" /\ c[2].do = "admit"
           \/ Len(c) = 1 /\ c[1].do = "admit"
    <3> USE DEF Plain, Call, CallRecord, Calls
    <3>1. CASE source # proc[p].snap.digest
      BY <3>1
    <3>2. CASE source = proc[p].snap.digest
      BY <3>2
    <3> QED BY <3>1, <3>2
  <2> HIDE DEF c
  <2>3. /\ proc' = [proc EXCEPT ![p] = s] /\ s \in ProcState /\ proc'[p] = s
        /\ s.calls = c /\ s.stage = "start" /\ s.snap = proc[p].snap
        /\ s.seen = source
    BY <1>1, <1>3, <2>1, <2>2 DEF ProcState
  <2> HIDE DEF s
  <2>4. Shape(p)' /\ Local(s, cleared)
    BY <2>1, <2>2, <2>3 DEF Shape, Local
  <2> QED BY <1>1, <2>3, <2>4, OwnStep
<1> QED BY <1>1, <1>2, <1>3

LEMMA AdmitMany ==
  ASSUME MInv, NEW p \in Procs, Admit(p)
  PROVE  MInv'
<1>0. Typed
  BY DEF MInv
<1>1. proc[p].calls # <<>> /\ Do(p) = "admit"
  BY <1>0, AtFacts DEF Admit
<1>2. /\ is_executable(db.row.lifecycle) /\ granted' = granted \cup {proc[p].seen}
      /\ Raise(p)
      /\ UNCHANGED <<source, origin, db, image, logged, edits, crashes, cleared,
                     lost, swapped>>
  BY DEF Admit, Tables, World
<1>3. proc[p].seen \in Digests /\ cleared # {}
  BY <1>1, <1>2, LifecycleFacts DEF MInv, Local, Do, Settled
<1>4. /\ proc' \in [Procs -> ProcState]
      /\ \A q \in Procs : Shape(q)' /\ Local(proc'[q], cleared')
  BY <1>2, EndsMany, IdleFacts, OwnState
<1>5. TypeOK'
  BY <1>2, <1>3, <1>4 DEF MInv, Typed, TypeOK
<1> QED BY <1>2, <1>3, <1>4, <1>5 DEF MInv, Typed

\* A rebuild takes over what the replay has, and a kill forgets what a process
\* was about to commit.
LEMMA RebuildMany ==
  ASSUME MInv, NEW p \in Procs, replay_into(p)
  PROVE  MInv'
<1>1. /\ db' = image /\ lost' = FALSE
      /\ swapped' = (swapped \/ image.row.digest # db.row.digest)
      /\ UNCHANGED <<image, proc, logged, source, origin, edits, crashes,
                     granted, cleared>>
  BY DEF replay_into, World
<1>2. TypeOK'
  BY <1>1 DEF MInv, Typed, TypeOK
<1>3. \A q \in Procs : Shape(q)' /\ Local(proc'[q], cleared')
  BY <1>1 DEF MInv, Typed, Shape
<1> QED BY <1>1, <1>2, <1>3 DEF MInv, Typed

LEMMA CrashMany ==
  ASSUME MInv, NEW p \in Procs, Crash(p)
  PROVE  MInv'
<1>1. /\ Raise(p) /\ crashes' = crashes + 1
      /\ lost' = (lost \/ proc[p].stage = "emitted")
      /\ UNCHANGED <<db, image, logged, source, origin, edits, granted,
                     cleared, swapped>>
  BY DEF Crash, Tables
<1>2. /\ proc' \in [Procs -> ProcState]
      /\ \A q \in Procs : Shape(q)' /\ Local(proc'[q], cleared')
  BY <1>1, EndsMany, IdleFacts, OwnState
<1>3. TypeOK'
  BY <1>1, <1>2 DEF MInv, Typed, TypeOK
<1> QED BY <1>1, <1>2, <1>3 DEF MInv, Typed

LEMMA EditMany ==
  ASSUME MInv, NEW d \in Digests \cup {Nothing}, Edit(d)
  PROVE  MInv'
<1>1. /\ source' = d /\ edits' = edits + 1
      /\ UNCHANGED <<db, image, logged, proc, origin, crashes, granted, cleared,
                     lost, swapped>>
  BY DEF Edit, Tables, History
<1>2. TypeOK'
  BY <1>1 DEF MInv, Typed, TypeOK
<1>3. \A q \in Procs : Shape(q)' /\ Local(proc'[q], cleared')
  BY <1>1 DEF MInv, Typed, Shape
<1> QED BY <1>1, <1>2, <1>3 DEF MInv, Typed

\* The row after the event of a call has been applied to the row r, whatever
\* has become of r since the call read it.
LEMMA Applied ==
  ASSUME NEW s, NEW e, NEW r \in Row, Carries(s, e), s.calls[1].do \in Writes
  PROVE  LET do == s.calls[1].do
             row == _apply_capability(r, e)
         IN /\ do = "upsert" =>
                 row = [lifecycle |-> "quarantined", digest |-> s.seen]
            /\ do = "refresh" =>
                 row = IF r = NoRow THEN r
                       ELSE [lifecycle |-> e.to, digest |-> s.seen]
            /\ do \in {"announce", "set"} =>
                 row = IF r = NoRow THEN r ELSE [r EXCEPT !.lifecycle = e.to]
            /\ do \in {"request", "decide"} => row = r
BY DEF Carries, Writes, _apply_capability

\* It is settled, once the approval that the call may carry is in the log.
LEMMA AppliedSettled ==
  ASSUME NEW s, NEW e, NEW r \in Row, Carries(s, e), s.calls[1].do \in Writes,
         NEW cl, Settled(r, cl),
         s.calls[1].do \in {"upsert", "refresh"} => s.seen \in Digests,
         s.calls[1].do = "set" =>
           /\ s.calls[1].to \in LIFECYCLE_STATES
           /\ s.calls[1].to \in Posted => cl # {}
  PROVE  Settled(_apply_capability(r, e), cl)
<1> DEFINE do == s.calls[1].do
           row == _apply_capability(r, e)
<1>1. /\ do = "upsert" => row = [lifecycle |-> "quarantined", digest |-> s.seen]
      /\ do = "refresh" => row = IF r = NoRow THEN r
                                 ELSE [lifecycle |-> e.to, digest |-> s.seen]
      /\ do \in {"announce", "set"} =>
           row = IF r = NoRow THEN r ELSE [r EXCEPT !.lifecycle = e.to]
      /\ do \in {"request", "decide"} => row = r
  BY Applied
<1>2. /\ do = "refresh" => e.to \in {"quarantined", "revoked"}
      /\ do = "announce" => e.to = "quarantined"
      /\ do = "set" => e.to = s.calls[1].to
  BY DEF Carries, next_state_for_digest_change
<1>3. {"quarantined", "revoked"} \subseteq LIFECYCLE_STATES
  BY DEF LIFECYCLE_STATES
<1> HIDE DEF row, do
<1>4. CASE do = "upsert" \/ (do = "refresh" /\ r # NoRow)
  <2>1. s.seen \in Digests
    BY <1>4 DEF do
  <2>2. PICK l \in {"quarantined", "revoked"} :
          row = [lifecycle |-> l, digest |-> s.seen]
    BY <1>1, <1>2, <1>4
  <2>3. row.lifecycle = l /\ row.digest = s.seen
    BY <2>2
  <2> QED BY <2>1, <2>3, <1>3, LifecycleFacts DEF Settled, RowOK, row
<1>5. CASE do \in {"announce", "set"} /\ r # NoRow
  <2>1. row = [r EXCEPT !.lifecycle = e.to]
    BY <1>1, <1>5
  <2>2. row.lifecycle = e.to /\ row.digest = r.digest
    BY <2>1 DEF Row
  <2>3. r.digest \in Digests
    BY <1>5 DEF Settled, RowOK
  <2>4. e.to \in LIFECYCLE_STATES /\ (e.to \in Posted => cl # {})
    BY <1>2, <1>3, <1>5, LifecycleFacts DEF do
  <2> QED BY <2>2, <2>3, <2>4 DEF Settled, RowOK, row
<1>6. CASE row = r
  BY <1>6 DEF row
<1>7. row = r \/ do = "upsert" \/ (do \in {"refresh", "announce", "set"} /\ r # NoRow)
  BY <1>1 DEF do, Writes
<1> QED BY <1>4, <1>5, <1>6, <1>7

\* The event is appended, to whatever the others have appended before.
LEMMA EmitMany ==
  ASSUME MInv, NEW p \in Procs, Emit(p)
  PROVE  MInv'
<1> DEFINE e == EventOf(p)
           s == [proc[p] EXCEPT !.stage = "emitted", !.env = e]
<1>0. Typed
  BY DEF MInv
<1>1. /\ proc[p].calls # <<>> /\ Do(p) \in Writes
      /\ proc[p].stage = IF Do(p) \in Reads THEN "read" ELSE "start"
      /\ Head(proc[p].calls).to = To(p)
      /\ Do(p) = "set" <=> At(p, "set", "read")
  <2>1. CASE \E do \in Reads : At(p, do, "read")
    BY <2>1, <1>0, AtFacts DEF Reads, Writes, At, Busy, Do
  <2>2. CASE \E do \in {"upsert", "announce", "decide"} : At(p, do, "start")
    BY <2>2, <1>0, AtFacts DEF Reads, Writes, At, Busy, Do
  <2> QED BY <2>1, <2>2 DEF Emit, Reads
<1>2. /\ logged' = logged + 1 /\ image' = apply_event(image, e)
      /\ proc' = [proc EXCEPT ![p].stage = "emitted", ![p].env = e]
      /\ UNCHANGED <<db, source, origin, edits, crashes, granted, lost, swapped>>
      /\ cleared' = IF Do(p) = "set" /\ To(p) = "approved"
                    THEN cleared \cup {proc[p].snap.digest} ELSE cleared
  BY <1>1 DEF Emit, World
<1>3. /\ Settled(proc[p].snap, cleared)
      /\ Do(p) \in {"upsert", "refresh"} => proc[p].seen \in Digests
      /\ Do(p) = "decide" => proc[p].verdict \in Verdicts
      /\ Do(p) \in Reads => proc[p].snap # NoRow
      /\ Do(p) = "set" => can_transition(proc[p].snap.lifecycle, To(p))
  BY <1>1 DEF MInv, Local, Do, To, Reads
<1>4. Carries(proc[p], e)
  BY <1>0, <1>1, <1>3, EventFacts
<1>5. /\ e \in Event /\ (e.type = "decided" => e.verdict \in Verdicts)
      /\ proc \in [Procs -> ProcState]
      /\ image \in [row : Row, reqs : SUBSET Request]
      /\ Settled(image.row, cleared) /\ Settled(db.row, cleared)
      /\ Shape(p)
  BY <1>1, <1>4 DEF Carries, Do, Writes, MInv, Typed, TypeOK
<1> HIDE DEF e
<1>6. /\ proc' = [proc EXCEPT ![p] = s] /\ s \in ProcState /\ proc'[p] = s
      /\ s.stage = "emitted" /\ s.env = e /\ s.calls = proc[p].calls
      /\ s.seen = proc[p].seen /\ s.snap = proc[p].snap
      /\ s.verdict = proc[p].verdict
  BY <1>2, <1>5 DEF ProcState
<1> HIDE DEF s
<1>7. /\ cleared \subseteq cleared' /\ cleared' \subseteq Digests
      /\ Do(p) = "set" /\ To(p) = "approved" => proc[p].snap.digest \in cleared'
      /\ Do(p) = "set" /\ To(p) \in Posted => cleared' # {}
      /\ Do(p) = "set" => To(p) \in LIFECYCLE_STATES
  <2>1. cleared \subseteq Digests
    BY DEF MInv, Typed, TypeOK
  <2>2. Do(p) = "set" => proc[p].snap.digest \in Digests
    BY <1>3 DEF Settled, RowOK, Reads
  <2>3. Do(p) = "set" /\ To(p) \in Posted /\ To(p) # "approved" =>
          proc[p].snap.lifecycle \in Posted
    BY <1>3, LifecycleFacts
  <2>4. Do(p) = "set" => To(p) \in LIFECYCLE_STATES
    BY <1>3, LifecycleFacts
  <2> QED BY <2>1, <2>2, <2>3, <2>4, <1>2, <1>3 DEF Settled
<1>8. Carries(s, e)
  BY <1>4, <1>6 DEF Carries
<1>9. Local(s, cleared')
  <2>1. Settled(s.snap, cleared')
    BY <1>3, <1>6, <1>7, SettledStays
  <2> QED BY <2>1, <1>1, <1>3, <1>6, <1>7, <1>8 DEF Local, Do, To, Reads, Writes
<1>10. Shape(p)'
  BY <1>1, <1>5, <1>6 DEF Shape
<1>11. /\ proc' \in [Procs -> ProcState]
       /\ \A q \in Procs : Shape(q)' /\ Local(proc'[q], cleared')
  BY <1>6, <1>7, <1>9, <1>10, OwnState
<1>12. /\ image' \in [row : Row, reqs : SUBSET Request]
       /\ image'.row = _apply_capability(image.row, e)
  BY <1>2, <1>5, ApplyType
<1>13. Settled(image.row, cleared') /\ Settled(db.row, cleared')
  BY <1>5, <1>7, SettledStays
<1>14. Settled(image'.row, cleared')
  BY <1>1, <1>3, <1>4, <1>5, <1>7, <1>12, <1>13, AppliedSettled DEF Do, To
<1>15. TypeOK'
  BY <1>2, <1>7, <1>11, <1>12 DEF MInv, Typed, TypeOK
<1>16. granted' # {} => cleared' # {}
  BY <1>2, <1>7 DEF MInv
<1> QED BY <1>2, <1>11, <1>13, <1>14, <1>15, <1>16 DEF MInv, Typed

\* The event is applied to the row as the others have left it.  When that is
\* the row the call knows, the lifecycle moves along a transition and nothing
\* comes to run that was not approved.
LEMMA CommitMany ==
  ASSUME MInv, NEW p \in Procs, Commit(p)
  PROVE  /\ MInv'
         /\ db.row = LastSeen(p) =>
              /\ Follows(db.row.lifecycle, db'.row.lifecycle)
              /\ Unapproved(db'.row, cleared') => Unapproved(db.row, cleared)
<1> DEFINE e == proc[p].env
           snap == proc[p].snap
<1>0. Typed
  BY DEF MInv
<1>1. /\ proc[p].calls # <<>> /\ proc[p].stage = "emitted"
      /\ db' = apply_event(db, e) /\ Goto(p, Tail(proc[p].calls))
      /\ UNCHANGED <<image, logged, source, origin, edits, crashes,
                     granted, cleared, lost, swapped>>
  BY DEF Commit, Busy, World, History
<1>2. /\ Do(p) \in Writes /\ Carries(proc[p], e) /\ Settled(snap, cleared)
      /\ Do(p) \in {"upsert", "refresh"} => proc[p].seen \in Digests
      /\ Do(p) = "refresh" => snap # NoRow
      /\ Do(p) = "set" =>
           /\ can_transition(snap.lifecycle, To(p))
           /\ To(p) = "approved" => snap.digest \in cleared
           /\ To(p) \in Posted => cleared # {}
  BY <1>1 DEF MInv, Local, Do, To
<1>3. /\ e \in Event /\ (e.type = "decided" => e.verdict \in Verdicts)
      /\ db \in [row : Row, reqs : SUBSET Request] /\ db.row \in Row
      /\ Settled(db.row, cleared) /\ Settled(image.row, cleared)
  BY <1>2 DEF Carries, Do, Writes, MInv, Typed, TypeOK
<1> HIDE DEF e
<1>4. /\ db' \in [row : Row, reqs : SUBSET Request]
      /\ db'.row = _apply_capability(db.row, e)
  BY <1>1, <1>3, ApplyType
<1>5. Do(p) = "set" => To(p) \in LIFECYCLE_STATES
  BY <1>2, LifecycleFacts
<1>6. Settled(db'.row, cleared)
  BY <1>2, <1>3, <1>4, <1>5, AppliedSettled DEF Do, To
<1>7. /\ proc' \in [Procs -> ProcState]
      /\ \A q \in Procs : Shape(q)' /\ Local(proc'[q], cleared')
  BY <1>1, NextCall, OwnState
<1>8. TypeOK'
  BY <1>1, <1>4, <1>7 DEF MInv, Typed, TypeOK
<1>9. MInv'
  BY <1>1, <1>3, <1>6, <1>7, <1>8 DEF MInv, Typed
<1>10. ASSUME db.row = LastSeen(p)
       PROVE  /\ Follows(db.row.lifecycle, db'.row.lifecycle)
              /\ Unapproved(db'.row, cleared) => Unapproved(db.row, cleared)
  <2>0. Head(proc[p].calls) = proc[p].calls[1]
    BY <1>0, <1>1, AfterFirst
  <2>1. /\ Do(p) = "upsert" => db.row = NoRow
        /\ Do(p) = "announce" =>
             db.row = [lifecycle |-> "quarantined", digest |-> proc[p].seen]
        /\ Do(p) \notin {"upsert", "announce"} => db.row = snap
    BY <1>10, <2>0 DEF LastSeen, Do
  <2>2. /\ Do(p) = "upsert" =>
             db'.row = [lifecycle |-> "quarantined", digest |-> proc[p].seen]
        /\ Do(p) = "refresh" =>
             db'.row = IF db.row = NoRow THEN db.row
                       ELSE [lifecycle |-> e.to, digest |-> proc[p].seen]
        /\ Do(p) \in {"announce", "set"} =>
             db'.row = IF db.row = NoRow THEN db.row
                       ELSE [db.row EXCEPT !.lifecycle = e.to]
        /\ Do(p) \in {"request", "decide"} => db'.row = db.row
    BY <1>2, <1>3, <1>4, Applied DEF Do
  <2>3. /\ Do(p) = "refresh" => e.to = next_state_for_digest_change(snap.lifecycle)
        /\ Do(p) = "announce" => e.to = "quarantined"
        /\ Do(p) = "set" => e.to = To(p)
    BY <1>2 DEF Carries, Do, To
  <2> HIDE DEF snap
  <2>4. CASE Do(p) = "upsert"
    <3>1. db.row.lifecycle = Nothing /\ db'.row.lifecycle = "quarantined"
      BY <2>1, <2>2, <2>4 DEF NoRow
    <3> QED BY <3>1, LifecycleFacts DEF Follows, Unapproved
  <2>5. CASE Do(p) = "announce"
    <3>1. db.row.lifecycle = "quarantined" /\ db.row # NoRow
      BY <2>1, <2>5 DEF NoRow, Nothing
    <3>2. db'.row.lifecycle = "quarantined"
      BY <3>1, <2>2, <2>3, <2>5, <1>3 DEF Row
    <3> QED BY <3>1, <3>2, LifecycleFacts DEF Follows, Unapproved
  <2>6. CASE Do(p) = "set"
    <3>1. /\ db.row = snap /\ can_transition(snap.lifecycle, To(p))
          /\ To(p) = "approved" => snap.digest \in cleared
      BY <1>2, <2>1, <2>6
    <3>2. db.row # NoRow
      BY <3>1, LifecycleFacts DEF NoRow
    <3>3. db'.row.lifecycle = To(p) /\ db'.row.digest = db.row.digest
      BY <3>2, <2>2, <2>3, <2>6, <1>3 DEF Row
    <3>4. Follows(db.row.lifecycle, db'.row.lifecycle)
      BY <3>1, <3>3 DEF Follows
    <3>5. ASSUME Unapproved(db'.row, cleared) PROVE Unapproved(db.row, cleared)
      <4>1. To(p) \in Posted /\ db.row.digest \notin cleared
        BY <3>3, <3>5 DEF Unapproved
      <4>2. snap.lifecycle \in Posted
        BY <4>1, <3>1, LifecycleFacts
      <4> QED BY <4>1, <4>2, <3>1 DEF Unapproved
    <3> QED BY <3>4, <3>5
  <2>7. CASE Do(p) = "refresh"
    <3>1. db.row = snap /\ snap # NoRow /\ snap.lifecycle \in LIFECYCLE_STATES
      BY <1>2, <2>1, <2>7 DEF Settled, RowOK
    <3>2. db'.row.lifecycle = next_state_for_digest_change(snap.lifecycle)
      BY <3>1, <2>2, <2>3, <2>7
    <3> QED BY <3>1, <3>2, LifecycleFacts DEF Follows, Unapproved
  <2>8. CASE Do(p) \in {"request", "decide"}
    BY <2>2, <2>8 DEF Follows
  <2> QED BY <2>4, <2>5, <2>6, <2>7, <2>8, <1>2 DEF Writes
<1> QED BY <1>1, <1>9, <1>10

\* The invariant holds of an empty registry, and every step keeps it.
LEMMA InitMany == Init => MInv
<1> SUFFICES ASSUME Init PROVE MInv
  OBVIOUS
<1>1. /\ db = [row |-> NoRow, reqs |-> {}] /\ image = db
      /\ proc = [p \in Procs |-> Idle] /\ \A p \in Procs : proc[p] = Idle
      /\ granted = {} /\ cleared = {}
  BY DEF Init
<1>0. /\ Idle \in ProcState /\ Idle.stage = "start" /\ Idle.calls = <<>>
      /\ Local(Idle, cleared)
  BY IdleFacts
<1>2. TypeOK
  <2>1. Idle \in ProcState
    BY <1>0
  <2> QED BY <2>1 DEF Init, TypeOK, Row, NoRow
<1>3. ASSUME NEW p \in Procs PROVE Shape(p) /\ Local(proc[p], cleared)
  <2>1. proc[p].calls = <<>> /\ proc[p].stage = "start" /\ Len(proc[p].calls) = 0
    BY <1>0, <1>1
  <2> QED BY <2>1, <1>0, <1>1 DEF Shape
<1>4. Settled(db.row, cleared) /\ Settled(image.row, cleared)
  BY <1>1, LifecycleFacts DEF Settled, RowOK, NoRow
<1> QED BY <1>1, <1>2, <1>3, <1>4 DEF MInv, Typed

LEMMA NextMany == MInv /\ [Next]_vars => MInv'
<1> SUFFICES ASSUME MInv, [Next]_vars PROVE MInv'
  OBVIOUS
<1>1. CASE UNCHANGED vars
  <2>1. TypeOK'
    BY <1>1 DEF MInv, Typed, TypeOK, vars
  <2>2. \A p \in Procs : Shape(p)' /\ Local(proc'[p], cleared')
    BY <1>1 DEF MInv, Typed, Shape, vars
  <2> QED BY <2>1, <2>2, <1>1 DEF MInv, Typed, vars
<1>2. ASSUME NEW p \in Procs, Invoke(p) PROVE MInv'
  BY <1>2, StartMany
<1>3. ASSUME NEW p \in Procs, Step(p) PROVE MInv'
  <2>1. CASE Refuse(p)
    BY <2>1, RaiseMany DEF Refuse
  <2> QED BY <2>1, <1>3, LookupMany, ConsiderMany, ReadMany, EmitMany, CommitMany,
             LookMany, ResolveMany, AdmitMany DEF Step
<1>4. ASSUME NEW p \in Procs, replay_into(p) PROVE MInv'
  BY <1>4, RebuildMany
<1>5. ASSUME NEW p \in Procs, Crash(p) PROVE MInv'
  BY <1>5, CrashMany
<1>6. ASSUME NEW d \in Digests \cup {Nothing}, Edit(d) PROVE MInv'
  BY <1>6, EditMany
<1> QED BY <1>1, <1>2, <1>3, <1>4, <1>5, <1>6 DEF Next

THEOREM InvarianceMany == Spec => []MInv
BY InitMany, NextMany, PTL DEF Spec

\* The types of the registry's and the processes' state (store.py,
\* onboarding.py, gate.py), for any number of processes.
THEOREM TypesAlways == Spec => []TypeOK
<1>1. MInv => TypeOK
  BY DEF MInv, Typed
<1> QED BY <1>1, InvarianceMany, PTL

\* No process, however it races, is killed or rebuilds, makes a capability run
\* before an approval is in the log (set_lifecycle, assert_executable).
THEOREM NeedApprovalAlways == Spec => []RunsNeedApproval
<1>1. MInv => RunsNeedApproval
  BY LifecycleFacts DEF MInv, Settled, RunsNeedApproval
<1> QED BY <1>1, InvarianceMany, PTL

\* Every illegal move of the lifecycle, and every unapproved digest that comes
\* to run, is the commit of a process on a row it has not seen, or a rebuild
\* (set_lifecycle, refresh_digest, upsert_capability).
THEOREM OverwritesOnly == Spec => OnlyOverwritesHarm
<1> DEFINE A ==
      \/ /\ \/ db'.row.lifecycle = db.row.lifecycle
            \/ can_transition(db.row.lifecycle, db'.row.lifecycle)
            \/ db.row.lifecycle = Nothing /\ db'.row.lifecycle = "quarantined"
         /\ Unapproved(db'.row, cleared') => Unapproved(db.row, cleared)
      \/ \E p \in Procs : Overwrites(p)
      \/ db' = image /\ UNCHANGED proc
<1>1. MInv /\ [Next]_vars => [A]_vars
  <2> SUFFICES ASSUME MInv, Next PROVE A
    OBVIOUS
  <2>1. \/ \E p \in Procs : Commit(p)
        \/ \E p \in Procs : replay_into(p)
        \/ db' = db /\ cleared \subseteq cleared'
    <3>1. ASSUME NEW p \in Procs, Invoke(p)
          PROVE  db' = db /\ cleared \subseteq cleared'
      BY <3>1, StartCalls DEF MInv, Tables, History
    <3>2. ASSUME NEW p \in Procs, Lookup(p) \/ ConsiderStep(p) \/ ReadRow(p)
                                     \/ Look(p) \/ _resolve_source(p) \/ Refuse(p)
          PROVE  db' = db /\ cleared \subseteq cleared'
      BY <3>2 DEF Lookup, ConsiderStep, ReadRow, Look, _resolve_source, Refuse,
                  Tables, History
    <3>3. ASSUME NEW p \in Procs, Emit(p) \/ Admit(p) \/ Crash(p)
          PROVE  db' = db /\ cleared \subseteq cleared'
      BY <3>3 DEF Emit, Admit, Crash, Tables
    <3>4. ASSUME NEW d \in Digests \cup {Nothing}, Edit(d)
          PROVE  db' = db /\ cleared \subseteq cleared'
      BY <3>4 DEF Edit, Tables, History
    <3> QED BY <3>1, <3>2, <3>3, <3>4 DEF Next, Step
  <2>2. ASSUME NEW p \in Procs, Commit(p) PROVE A
    <3>1. CASE db.row = LastSeen(p)
      BY <3>1, <2>2, CommitMany DEF Follows
    <3>2. CASE db.row # LastSeen(p)
      <4>1. proc'[p].stage = "start"
        BY <2>2, NextCall DEF Commit, Busy
      <4> QED BY <4>1, <3>2, <2>2 DEF Commit, Overwrites
    <3> QED BY <3>1, <3>2
  <2>3. ASSUME NEW p \in Procs, replay_into(p) PROVE A
    BY <2>3 DEF replay_into
  <2>4. CASE db' = db /\ cleared \subseteq cleared'
    BY <2>4 DEF Unapproved
  <2> QED BY <2>1, <2>2, <2>3, <2>4
<1> QED BY <1>1, InvarianceMany, PTL DEF Spec, OnlyOverwritesHarm

-----------------------------------------------------------------------------
(* Discovery.                                                                *)

\* Path e leads to path d, or is it.
Under(e, d) == Len(e) =< Len(d) /\ SubSeq(d, 1, Len(e)) = e

\* Directory d is waiting to be visited, or one above it is.
Waits(d) == \E e \in todo : Under(e, d)

\* What the files of a set weigh.
SizeOf(r, S) == MapThenSumSet(LAMBDA f : Layouts[r].files[f].size, S)

\* The files within reach, and those of them that were looked at.
InReach(r) == {f \in DOMAIN Layouts[r].files : Reachable(ParentOf(f))}
Looked == {f \in InReach(Head(roots)) : f \notin left /\ ~Waits(ParentOf(f))}

Clean(d) == \A i \in DOMAIN d : d[i] \notin Ignored

\* What waits are directories, none below another, none behind an ignored name.
WaitingInv ==
  /\ todo \subseteq DOMAIN Tree.dirs
  /\ \A d \in todo : Clean(d)
  /\ \A d, e \in todo : Under(e, d) => e = d
LeftInv == left \subseteq {f \in InReach(Head(roots)) : ~Waits(ParentOf(f))}

\* What is eligible was reported or was gone, unless it is still to come.
SoFarInv ==
  /\ \A d \in DOMAIN Tree.dirs :
       Reachable(d) /\ Tree.dirs[d] => Waits(d) \/ Report(d) \in found
  /\ \A f \in DOMAIN Tree.files :
       Reachable(ParentOf(f)) /\ Tree.files[f].script =>
         f \in left \/ Waits(ParentOf(f)) \/ Report(f) \in found \cup vanished

\* The two counters.
CountInv == /\ seen = Cardinality(Looked)
            /\ bytes \in Nat /\ bytes =< SizeOf(Head(roots), Looked)

WalkInv == Walking => WaitingInv /\ LeftInv /\ SoFarInv /\ CountInv

\* Nothing of a root is missing.
AllReported(r) ==
  r \in DOMAIN Layouts \ cut =>
    \A q \in Eligible(r) : [root |-> r, path |-> q] \in found \cup vanished

\* The roots walked so far are covered.
RootsInv ==
  LET L == _load_roots(config)
  IN \E k \in 0..Len(L) : /\ roots = SubSeq(L, k + 1, Len(L))
                          /\ \A i \in 1..k : AllReported(L[i])

ReportInv ==
  \A c \in found : c.root \in DOMAIN Layouts => c.path \in Eligible(c.root)
CutInv == \A r \in cut : Oversized(r)

DiscInv == /\ config \in Configs
           /\ WalkInv /\ RootsInv /\ ReportInv /\ CutInv
-----------------------------------------------------------------------------
(* What the files of a set weigh: the sum of the community modules, which is *)
(* a recursive function over the subsets of the set.                         *)

\* A set of numbers that is not empty has a least element.
LEMMA Least ==
  ASSUME NEW T \in SUBSET Nat, T # {}
  PROVE  \E x \in T : \A y \in T : x <= y
<1> DEFINE W == {1..x : x \in T}
           R == StrictSubsetOrdering(Nat)
           S == FiniteSubsetsOf(Nat)
<1>1. IsWellFoundedOn(R, S)
  BY FS_StrictSubsetOrderingWellFounded
<1>2. W \subseteq S
  <2>1. \A x \in T : IsFiniteSet(1..x)
    BY FS_Interval
  <2> QED
    BY <2>1 DEF FiniteSubsetsOf
<1>3. W # {}
  OBVIOUS
<1> HIDE DEF R, S, W
<1>4. PICK w \in W : \A v \in W : ~(<<v, w>> \in R)
  BY <1>1, <1>2, <1>3, WFMin
<1>5. PICK x \in T : w = 1..x
  BY DEF W
<1>6. ASSUME NEW y \in T, y < x
      PROVE  FALSE
  <2>1. 1..y \in W /\ 1..y \in SUBSET Nat /\ w \in SUBSET Nat
    BY <1>5 DEF W
  <2>2. 1..y \subseteq w /\ 1..y # w
    BY <1>5, <1>6
  <2>3. <<1..y, w>> \in R
    BY <2>1, <2>2 DEF R, StrictSubsetOrdering
  <2> QED
    BY <1>4, <2>1, <2>3
<1> QED
  BY <1>6

\* A set of numbers with no least missing one is all of them.
LEMMA Upwards ==
  ASSUME NEW G, \A n \in Nat : (\A m \in Nat : m < n => m \in G) => n \in G
  PROVE  \A n \in Nat : n \in G
<1> DEFINE T == {n \in Nat : n \notin G}
<1> SUFFICES ASSUME T # {}
             PROVE  FALSE
  OBVIOUS
<1>1. T \in SUBSET Nat
  OBVIOUS
<1>2. PICK x \in T : \A y \in T : x <= y
  BY <1>1, Least
<1>3. \A m \in Nat : m < x => m \in G
  BY <1>2
<1> QED
  BY <1>3

\* g gives for every subset of S the sizes in w of its elements, added up.
Picked(s) == CHOOSE f \in s : TRUE
SumsOf(g, w, S) ==
  g = [s \in SUBSET S |-> IF s = {} THEN 0
                          ELSE w[Picked(s)].size + g[s \ {Picked(s)}]]
Total(w, S) == (CHOOSE g : SumsOf(g, w, S))[S]

LEMMA SizeIs ==
  ASSUME NEW r, NEW S
  PROVE  SizeOf(r, S) = Total(Layouts[r].files, S)
BY DEF SizeOf, MapThenSumSet, MapThenFoldSet, Total, SumsOf, Picked

\* What one equation says.
LEMMA SumsAt ==
  ASSUME NEW g, NEW w, NEW S, SumsOf(g, w, S)
  PROVE  \A s \in SUBSET S : /\ s = {} => g[s] = 0
                             /\ s # {} => g[s] = w[Picked(s)].size + g[s \ {Picked(s)}]
BY Zenon DEF SumsOf

LEMMA PickedIn ==
  ASSUME NEW s, s # {}
  PROVE  Picked(s) \in s
BY DEF Picked

\* A finite set without one of its elements has one element less.
LEMMA OneLess ==
  ASSUME NEW s, IsFiniteSet(s), NEW x \in s
  PROVE  /\ IsFiniteSet(s \ {x}) /\ Cardinality(s) \in Nat
         /\ Cardinality(s \ {x}) \in Nat /\ Cardinality(s \ {x}) = Cardinality(s) - 1
         /\ Cardinality(s \ {x}) < Cardinality(s)
<1>1. /\ IsFiniteSet(s \ {x}) /\ Cardinality(s \ {x}) = Cardinality(s) - 1
  BY FS_RemoveElement
<1>2. Cardinality(s) \in Nat /\ Cardinality(s \ {x}) \in Nat
  BY <1>1, FS_CardinalityType
<1> QED
  BY <1>1, <1>2

\* Two such functions agree where both are defined.
LEMMA SumsAgree ==
  ASSUME NEW g, NEW h, NEW w, NEW S, NEW T, SumsOf(g, w, S), SumsOf(h, w, T),
         NEW s, s \subseteq S, s \subseteq T, IsFiniteSet(s)
  PROVE  g[s] = h[s]
<1> DEFINE Agree(t) == t \subseteq S /\ t \subseteq T /\ IsFiniteSet(t) => g[t] = h[t]
           G == {n \in Nat : \A t \in SUBSET S : Cardinality(t) = n => Agree(t)}
<1>1. ASSUME NEW n \in Nat, \A m \in Nat : m < n => m \in G
      PROVE  n \in G
  <2> SUFFICES ASSUME NEW t \in SUBSET S, Cardinality(t) = n, t \subseteq T, IsFiniteSet(t)
               PROVE  g[t] = h[t]
    OBVIOUS
  <2>1. CASE t = {}
    BY <2>1, SumsAt
  <2>2. CASE t # {}
    <3> DEFINE x == Picked(t)
               u == t \ {x}
    <3>1. x \in t
      BY <2>2, PickedIn
    <3>2. IsFiniteSet(u) /\ Cardinality(u) \in Nat /\ Cardinality(u) < n
      BY <3>1, OneLess
    <3>3. u \in SUBSET S /\ u \subseteq T
      OBVIOUS
    <3>4. g[t] = w[x].size + g[u] /\ h[t] = w[x].size + h[u]
      BY <2>2, SumsAt
    <3> HIDE DEF u, x
    <3>5. Agree(u)
      BY <1>1, <3>2, <3>3
    <3> QED
      BY <3>2, <3>3, <3>4, <3>5
  <2> QED
    BY <2>1, <2>2
<1> HIDE DEF G
<1>2. \A n \in Nat : n \in G
  BY <1>1, Upwards
<1>3. Cardinality(s) \in G
  BY <1>2, FS_CardinalityType
<1> QED
  BY <1>3 DEF G

\* There is such a function.
LEMMA SumsExist ==
  ASSUME NEW w, NEW S, IsFiniteSet(S)
  PROVE  \E g : SumsOf(g, w, S)
<1> DEFINE Has(t) == \E g : SumsOf(g, w, t)
           G == {n \in Nat : \A t \in SUBSET S : Cardinality(t) = n => Has(t)}
<1>1. ASSUME NEW n \in Nat, \A m \in Nat : m < n => m \in G
      PROVE  n \in G
  <2> SUFFICES ASSUME NEW t \in SUBSET S, Cardinality(t) = n
               PROVE  Has(t)
    OBVIOUS
  <2>0. IsFiniteSet(t)
    BY FS_Subset
  <2>1. ASSUME NEW s \in SUBSET t, s # t
        PROVE  Has(s)
    <3>1. IsFiniteSet(s) /\ Cardinality(s) \in Nat /\ Cardinality(s) < n
      BY <2>0, <2>1, FS_Subset, FS_CardinalityType
    <3> QED
      BY <1>1, <3>1
  <2> HIDE DEF Has
  <2> DEFINE V(s) == (CHOOSE g : SumsOf(g, w, s))[s]
             Next1(s) == IF s = {} THEN 0 ELSE w[Picked(s)].size + V(s \ {Picked(s)})
             g == [s \in SUBSET t |-> Next1(s)]
  <2>2. ASSUME NEW s \in SUBSET t, s # t
        PROVE  V(s) = Next1(s)
    <3> DEFINE h == CHOOSE g1 : SumsOf(g1, w, s)
    <3>1. SumsOf(h, w, s)
      BY <2>1, <2>2 DEF Has
    <3>2. CASE s = {}
      BY <3>1, <3>2, SumsAt
    <3>3. CASE s # {}
      <4> DEFINE u == s \ {Picked(s)}
                 k == CHOOSE g1 : SumsOf(g1, w, u)
      <4>1. h[s] = w[Picked(s)].size + h[u]
        BY <3>1, <3>3, SumsAt
      <4>2. u \in SUBSET t /\ u # t /\ u \subseteq s /\ IsFiniteSet(u)
        BY <2>0, <2>2, FS_Subset
      <4>3. SumsOf(k, w, u)
        BY <2>1, <4>2 DEF Has
      <4>4. h[u] = k[u]
        <5> HIDE DEF h, k, u
        <5> QED
          BY <3>1, <4>2, <4>3, SumsAgree
      <4> QED
        BY <3>3, <4>1, <4>4
    <3> QED
      BY <3>2, <3>3
  <2>3. \A s \in SUBSET t : s # {} => s \ {Picked(s)} \in SUBSET t /\ s \ {Picked(s)} # t
    BY PickedIn
  <2> HIDE DEF V
  <2>4. \A s \in SUBSET t : s # {} =>
          V(s \ {Picked(s)}) = Next1(s \ {Picked(s)})
    BY <2>2, <2>3
  <2> HIDE DEF Next1
  <2>5. \A s \in SUBSET t : s # {} => g[s \ {Picked(s)}] = V(s \ {Picked(s)})
    BY <2>3, <2>4
  <2>6. \A s \in SUBSET t :
          Next1(s) = IF s = {} THEN 0 ELSE w[Picked(s)].size + g[s \ {Picked(s)}]
    BY <2>5, Zenon DEF Next1
  <2>7. SumsOf(g, w, t)
    BY <2>6 DEF SumsOf
  <2> QED
    BY <2>7 DEF Has
<1> HIDE DEF G
<1>2. \A n \in Nat : n \in G
  BY <1>1, Upwards
<1>3. Cardinality(S) \in G
  BY <1>2, FS_CardinalityType
<1> QED
  BY <1>3 DEF G

\* The sum of a finite set, by one element.
LEMMA TotalSteps ==
  ASSUME NEW w, NEW S, IsFiniteSet(S)
  PROVE  /\ S = {} => Total(w, S) = 0
         /\ S # {} => Total(w, S) = w[Picked(S)].size + Total(w, S \ {Picked(S)})
<1> DEFINE u == S \ {Picked(S)}
           g == CHOOSE h : SumsOf(h, w, S)
           k == CHOOSE h : SumsOf(h, w, u)
<1>1. IsFiniteSet(u) /\ u \subseteq S
  BY FS_Subset
<1>2. SumsOf(g, w, S) /\ SumsOf(k, w, u)
  BY <1>1, SumsExist
<1>3. Total(w, S) = g[S] /\ Total(w, u) = k[u]
  BY DEF Total
<1> HIDE DEF g, k
<1>4. /\ S = {} => g[S] = 0
      /\ S # {} => g[S] = w[Picked(S)].size + g[u]
  BY <1>2, SumsAt, S \in SUBSET S
<1> HIDE DEF u
<1>5. g[u] = k[u]
  BY <1>1, <1>2, SumsAgree
<1> QED
  BY <1>3, <1>4, <1>5 DEF u

Sizes(w, S) == \A f \in S : w[f].size \in Nat

\* It is a number, and any element may be the one that is added first.
LEMMA TotalAdds ==
  ASSUME NEW w, NEW S, IsFiniteSet(S), Sizes(w, S)
  PROVE  /\ Total(w, S) \in Nat
         /\ \A x \in S : Total(w, S) = w[x].size + Total(w, S \ {x})
<1> DEFINE Adds(t) == /\ Total(w, t) \in Nat
                      /\ \A x \in t : Total(w, t) = w[x].size + Total(w, t \ {x})
           G == {n \in Nat : \A t \in SUBSET S : Cardinality(t) = n => Adds(t)}
<1>1. ASSUME NEW n \in Nat, \A m \in Nat : m < n => m \in G
      PROVE  n \in G
  <2> SUFFICES ASSUME NEW t \in SUBSET S, Cardinality(t) = n
               PROVE  Adds(t)
    OBVIOUS
  <2>0. IsFiniteSet(t)
    BY FS_Subset
  <2>1. CASE t = {}
    BY <2>0, <2>1, TotalSteps
  <2>2. CASE t # {}
    <3> DEFINE c == Picked(t)
    <3>1. c \in t
      BY <2>2, PickedIn
    <3>2. Total(w, t) = w[c].size + Total(w, t \ {c})
      BY <2>0, <2>2, TotalSteps
    <3> HIDE DEF c
    <3>3. ASSUME NEW x \in t
          PROVE  Adds(t \ {x})
      <4>1. Cardinality(t \ {x}) \in Nat /\ Cardinality(t \ {x}) < n
        BY <2>0, OneLess
      <4>2. t \ {x} \in SUBSET S
        OBVIOUS
      <4> HIDE DEF Adds
      <4> QED
        BY <1>1, <4>1, <4>2
    <3>4. Total(w, t) \in Nat
      BY <3>1, <3>2, <3>3 DEF Sizes
    <3>5. ASSUME NEW x \in t, x # c
          PROVE  Total(w, t) = w[x].size + Total(w, t \ {x})
      <4> DEFINE u == (t \ {c}) \ {x}
      <4>1. (t \ {x}) \ {c} = u
        OBVIOUS
      <4>2. /\ Total(w, t \ {c}) = w[x].size + Total(w, u)
            /\ Total(w, t \ {x}) = w[c].size + Total(w, (t \ {x}) \ {c})
        BY <3>1, <3>3, <3>5
      <4>3. /\ Total(w, t \ {c}) \in Nat /\ Total(w, t \ {x}) \in Nat
        BY <3>1, <3>3
      <4>4. Total(w, u) \in Nat
        <5>1. Cardinality(t \ {c}) \in Nat /\ Cardinality(t \ {c}) < n /\ IsFiniteSet(t \ {c})
          BY <2>0, <3>1, OneLess
        <5>2. x \in t \ {c}
          BY <3>5
        <5>3. Cardinality(u) \in Nat /\ Cardinality(u) < Cardinality(t \ {c})
          BY <5>1, <5>2, OneLess
        <5>4. Cardinality(u) < n /\ u \in SUBSET S
          BY <5>1, <5>3
        <5> HIDE DEF Adds, u
        <5>5. Adds(u)
          BY <1>1, <5>3, <5>4
        <5> QED
          BY <5>5 DEF Adds
      <4>5. w[x].size \in Nat /\ w[c].size \in Nat
        BY <3>1 DEF Sizes
      <4> HIDE DEF u
      <4> QED
        BY <3>2, <4>1, <4>2, <4>3, <4>4, <4>5
    <3> QED
      BY <3>2, <3>4, <3>5
  <2> QED
    BY <2>1, <2>2
<1> HIDE DEF G
<1>2. \A n \in Nat : n \in G
  BY <1>1, Upwards
<1>3. Cardinality(S) \in G
  BY <1>2, FS_CardinalityType
<1> QED
  BY <1>3 DEF G

\* More files weigh no less.
LEMMA TotalGrows ==
  ASSUME NEW w, NEW S, IsFiniteSet(S), Sizes(w, S), NEW A \in SUBSET S
  PROVE  Total(w, A) <= Total(w, S)
<1> DEFINE G == {n \in Nat : \A t \in SUBSET S :
                   A \subseteq t /\ Cardinality(t) = n => Total(w, A) <= Total(w, t)}
<1>1. ASSUME NEW n \in Nat, \A m \in Nat : m < n => m \in G
      PROVE  n \in G
  <2> SUFFICES ASSUME NEW t \in SUBSET S, A \subseteq t, Cardinality(t) = n
               PROVE  Total(w, A) <= Total(w, t)
    OBVIOUS
  <2>0. /\ IsFiniteSet(t) /\ Sizes(w, t) /\ IsFiniteSet(A) /\ Sizes(w, A)
    BY FS_Subset DEF Sizes
  <2>1. Total(w, A) \in Nat /\ Total(w, t) \in Nat
    BY <2>0, TotalAdds
  <2>2. CASE A = t
    BY <2>1, <2>2
  <2>3. CASE A # t
    <3>1. PICK x \in t : x \notin A
      BY <2>3
    <3> DEFINE u == t \ {x}
    <3>2. Total(w, t) = w[x].size + Total(w, u)
      BY <2>0, TotalAdds
    <3>3. IsFiniteSet(u) /\ Cardinality(u) \in Nat /\ Cardinality(u) < n
      BY <2>0, OneLess
    <3>4. A \subseteq u /\ u \in SUBSET S /\ Sizes(w, u) /\ w[x].size \in Nat
      BY <3>1, <2>0 DEF Sizes
    <3> HIDE DEF u
    <3>5. Total(w, A) <= Total(w, u)
      BY <1>1, <3>3, <3>4
    <3>6. Total(w, u) \in Nat
      BY <3>3, <3>4, TotalAdds
    <3> QED
      BY <2>1, <3>2, <3>4, <3>5, <3>6
  <2> QED
    BY <2>2, <2>3
<1> HIDE DEF G
<1>2. \A n \in Nat : n \in G
  BY <1>1, Upwards
<1>3. Cardinality(S) \in G
  BY <1>2, FS_CardinalityType
<1> QED
  BY <1>3 DEF G
-----------------------------------------------------------------------------
(* Paths.                                                                    *)

Paths == Seq(STRING)

\* A path leads to another if it is where the other begins.
LEMMA UnderIs ==
  ASSUME NEW d \in Paths, NEW e \in Paths
  PROVE  /\ Len(d) \in Nat /\ Len(e) \in Nat
         /\ Under(e, d) <=> Len(e) <= Len(d) /\ \A i \in 1..Len(e) : d[i] = e[i]
         /\ Len(e) = Len(d) /\ (\A i \in 1..Len(e) : d[i] = e[i]) => d = e
<1>1. Len(d) \in Nat /\ Len(e) \in Nat
  BY DEF Paths
<1>2. Len(e) = Len(d) /\ (\A i \in 1..Len(e) : d[i] = e[i]) => d = e
  BY SeqEqual DEF Paths
<1>3. ASSUME Len(e) <= Len(d)
      PROVE  /\ SubSeq(d, 1, Len(e)) \in Paths
             /\ Len(SubSeq(d, 1, Len(e))) = Len(e)
             /\ \A i \in 1..Len(e) : SubSeq(d, 1, Len(e))[i] = d[i]
  BY <1>1, <1>3, SubSeqProperties DEF Paths
<1>4. ASSUME Len(e) <= Len(d), \A i \in 1..Len(e) : d[i] = e[i]
      PROVE  SubSeq(d, 1, Len(e)) = e
  BY <1>3, <1>4, SeqEqual DEF Paths
<1>5. Under(e, d) => Len(e) <= Len(d) /\ \A i \in 1..Len(e) : d[i] = e[i]
  BY <1>3 DEF Under
<1> QED
  BY <1>1, <1>2, <1>4, <1>5 DEF Under

\* Leading to is a partial order, total on what leads to one path.
LEMMA UnderOrder ==
  ASSUME NEW d \in Paths, NEW e \in Paths, NEW f \in Paths
  PROVE  /\ Under(d, d)
         /\ Under(d, e) /\ Under(e, f) => Under(d, f)
         /\ Under(d, e) /\ Len(e) <= Len(d) => d = e
         /\ Under(d, f) /\ Under(e, f) /\ Len(d) <= Len(e) => Under(d, e)
<1>1. Under(d, d)
  BY UnderIs
<1>2. ASSUME Under(d, e), Under(e, f)
      PROVE  Under(d, f)
  <2>1. /\ Len(d) \in Nat /\ Len(e) \in Nat /\ Len(f) \in Nat
        /\ Len(d) <= Len(e) /\ Len(e) <= Len(f)
        /\ \A i \in 1..Len(d) : e[i] = d[i]
        /\ \A i \in 1..Len(e) : f[i] = e[i]
    BY <1>2, UnderIs
  <2>2. Len(d) <= Len(f) /\ \A i \in 1..Len(d) : f[i] = d[i]
    BY <2>1
  <2> QED
    BY <2>2, UnderIs
<1>3. ASSUME Under(d, e), Len(e) <= Len(d)
      PROVE  d = e
  <2>1. /\ Len(d) = Len(e) /\ \A i \in 1..Len(d) : e[i] = d[i]
    BY <1>3, UnderIs
  <2> QED
    BY <2>1, UnderIs
<1>4. ASSUME Under(d, f), Under(e, f), Len(d) <= Len(e)
      PROVE  Under(d, e)
  <2>1. /\ Len(d) \in Nat /\ Len(e) \in Nat
        /\ \A i \in 1..Len(d) : f[i] = d[i]
        /\ \A i \in 1..Len(e) : f[i] = e[i]
    BY <1>4, UnderIs
  <2>2. \A i \in 1..Len(d) : e[i] = d[i]
    BY <1>4, <2>1
  <2> QED
    BY <1>4, <2>2, UnderIs
<1> QED
  BY <1>1, <1>2, <1>3, <1>4

\* The beginning of a path.
LEMMA Beginning ==
  ASSUME NEW d \in Paths, NEW n \in 0..Len(d)
  PROVE  /\ SubSeq(d, 1, n) \in Paths /\ Len(SubSeq(d, 1, n)) = n
         /\ Under(SubSeq(d, 1, n), d)
         /\ \A i \in 1..n : SubSeq(d, 1, n)[i] = d[i]
<1> DEFINE u == SubSeq(d, 1, n)
<1>1. /\ u \in Paths /\ Len(u) = n /\ \A i \in 1..n : u[i] = d[i]
      /\ Len(d) \in Nat
  BY SubSeqProperties DEF Paths
<1> HIDE DEF u
<1>2. Under(u, d)
  BY <1>1, UnderIs
<1> QED
  BY <1>1, <1>2 DEF u

LEMMA ParentFacts ==
  ASSUME NEW q \in Paths, q # <<>>
  PROVE  /\ ParentOf(q) \in Paths /\ Len(q) \in Nat \ {0}
         /\ Len(ParentOf(q)) = Len(q) - 1 /\ Under(ParentOf(q), q)
<1>1. Len(q) \in Nat \ {0}
  BY EmptySeq DEF Paths
<1>2. Len(q) - 1 \in 0..Len(q)
  BY <1>1
<1> QED
  BY <1>1, <1>2, Beginning DEF ParentOf

\* What is below q is below its parent; what leads to q and is not q leads to
\* its parent.
LEMMA ParentUnder ==
  ASSUME NEW q \in Paths, q # <<>>, NEW d \in Paths
  PROVE  /\ Under(q, d) => Under(ParentOf(q), d)
         /\ Under(d, q) /\ d # q => Under(d, ParentOf(q))
<1>1. /\ ParentOf(q) \in Paths /\ Len(q) \in Nat \ {0} /\ Len(d) \in Nat
      /\ Len(ParentOf(q)) = Len(q) - 1 /\ Under(ParentOf(q), q)
  BY ParentFacts, UnderIs
<1>2. Under(q, d) => Under(ParentOf(q), d)
  BY <1>1, UnderOrder
<1>3. ASSUME Under(d, q), d # q
      PROVE  Under(d, ParentOf(q))
  <2>1. Len(d) < Len(q)
    BY <1>1, <1>3, UnderOrder
  <2>2. Len(d) <= Len(ParentOf(q))
    BY <1>1, <2>1
  <2> QED
    BY <1>1, <1>3, <2>2, UnderOrder
<1> QED
  BY <1>2, <1>3

\* The step from d towards p.
LEMMA StepTowards ==
  ASSUME NEW d \in Paths, NEW p \in Paths, Under(d, p), d # p
  PROVE  LET q == SubSeq(p, 1, Len(d) + 1)
         IN /\ q \in Paths /\ q # <<>> /\ ParentOf(q) = d /\ Under(q, p)
            /\ Len(q) = Len(d) + 1 /\ Len(q) \in 1..Len(p) /\ q[Len(q)] = p[Len(q)]
<1> DEFINE q == SubSeq(p, 1, Len(d) + 1)
<1>1. /\ Len(d) \in Nat /\ Len(p) \in Nat /\ Len(d) < Len(p)
      /\ \A i \in 1..Len(d) : p[i] = d[i]
  <2>1. Len(d) \in Nat /\ Len(p) \in Nat /\ Len(d) <= Len(p)
        /\ \A i \in 1..Len(d) : p[i] = d[i]
    BY UnderIs
  <2>2. ~(Len(p) <= Len(d))
    BY UnderOrder
  <2> QED
    BY <2>1, <2>2
<1>2. Len(d) + 1 \in 0..Len(p)
  BY <1>1
<1>3. /\ q \in Paths /\ Len(q) = Len(d) + 1 /\ Under(q, p)
      /\ \A i \in 1..(Len(d) + 1) : q[i] = p[i]
  BY <1>2, Beginning
<1> HIDE DEF q
<1>4. q # <<>>
  BY <1>1, <1>3
<1>5. ParentOf(q) = d
  <2>1. ParentOf(q) \in Paths /\ Len(ParentOf(q)) = Len(d) /\ Under(ParentOf(q), q)
    BY <1>1, <1>3, <1>4, ParentFacts
  <2>2. Under(ParentOf(q), p)
    BY <1>3, <1>4, ParentUnder
  <2>3. Under(ParentOf(q), d)
    BY <1>1, <2>1, <2>2, UnderOrder
  <2> QED
    BY <1>1, <2>1, <2>3, UnderOrder
<1>6. Len(q) \in 1..Len(p) /\ q[Len(q)] = p[Len(q)]
  BY <1>1, <1>3
<1> QED
  BY <1>3, <1>4, <1>5, <1>6 DEF q

\* One layout.
IsTree(dirs, files) ==
  /\ dirs \subseteq Paths /\ <<>> \in dirs
  /\ files \subseteq Paths \ {<<>>}
  /\ \A d \in (dirs \cup files) \ {<<>>} : ParentOf(d) \in dirs

\* What holds of L and with every positive number of the one before holds down
\* to 0.
LEMMA Downwards ==
  ASSUME NEW L \in Nat, NEW G, L \in G, \A k \in 1..L : k \in G => k - 1 \in G
  PROVE  \A k \in 0..L : k \in G
<1> DEFINE H == {n \in Nat : n <= L => L - n \in G}
<1>1. ASSUME NEW n \in Nat, \A m \in Nat : m < n => m \in H
      PROVE  n \in H
  <2>1. CASE n = 0
    BY <2>1
  <2>2. CASE n # 0 /\ n <= L
    <3>1. n - 1 \in Nat /\ n - 1 < n /\ n - 1 <= L
      BY <2>2
    <3>2. L - (n - 1) \in G
      BY <1>1, <3>1
    <3>3. L - (n - 1) \in 1..L /\ (L - (n - 1)) - 1 = L - n
      BY <2>2
    <3> QED
      BY <3>2, <3>3
  <2> QED
    BY <2>1, <2>2
<1> HIDE DEF H
<1>2. \A n \in Nat : n \in H
  BY <1>1, Upwards
<1>3. ASSUME NEW k \in 0..L
      PROVE  k \in G
  <2>1. L - k \in Nat /\ L - k <= L /\ L - (L - k) = k
    OBVIOUS
  <2> QED
    BY <1>2, <2>1 DEF H
<1> QED
  BY <1>3

\* The way to a directory goes by directories.
LEMMA WayThere ==
  ASSUME NEW dirs, NEW files, IsTree(dirs, files), NEW p \in dirs
  PROVE  \A n \in 0..Len(p) : SubSeq(p, 1, n) \in dirs
<1> DEFINE G == {n \in 0..Len(p) : SubSeq(p, 1, n) \in dirs}
<1>1. p \in Paths /\ Len(p) \in Nat
  BY DEF IsTree, Paths
<1>2. Len(p) \in G
  <2>1. Len(p) \in 0..Len(p)
    BY <1>1
  <2> DEFINE u == SubSeq(p, 1, Len(p))
  <2>2. Under(u, p) /\ u \in Paths /\ Len(u) = Len(p)
    BY <1>1, <2>1, Beginning
  <2> HIDE DEF u
  <2>3. u = p
    BY <1>1, <2>2, UnderOrder
  <2> QED
    BY <2>1, <2>3 DEF u
<1>3. ASSUME NEW k \in 1..Len(p), k \in G
      PROVE  k - 1 \in G
  <2> DEFINE q == SubSeq(p, 1, k)
             u == SubSeq(p, 1, k - 1)
  <2>1. k \in 0..Len(p) /\ k - 1 \in 0..Len(p) /\ k \in Nat
    BY <1>1
  <2>2. /\ q \in Paths /\ Len(q) = k /\ Under(q, p)
        /\ u \in Paths /\ Len(u) = k - 1 /\ Under(u, p)
    BY <1>1, <2>1, Beginning
  <2>3. q \in dirs
    BY <1>3
  <2> HIDE DEF q, u
  <2>4. q # <<>>
    BY <2>2
  <2>5. ParentOf(q) \in dirs
    BY <2>3, <2>4 DEF IsTree
  <2>6. ParentOf(q) \in Paths /\ Len(ParentOf(q)) = k - 1 /\ Under(ParentOf(q), p)
    BY <1>1, <2>2, <2>4, ParentFacts, ParentUnder
  <2>7. ParentOf(q) = u
    <3>1. Under(ParentOf(q), u)
      BY <1>1, <2>1, <2>2, <2>6, UnderOrder
    <3> QED
      BY <2>1, <2>2, <2>6, <3>1, UnderOrder
  <2> QED
    BY <2>1, <2>5, <2>7 DEF u
<1> HIDE DEF G
<1>4. \A k \in 0..Len(p) : k \in G
  BY <1>1, <1>2, <1>3, Downwards
<1> QED
  BY <1>4 DEF G
-----------------------------------------------------------------------------
(* The invariant of the walk.                                                *)

DirsOf(r) == DOMAIN Layouts[r].dirs
FilesOf(r) == DOMAIN Layouts[r].files

\* What is assumed of one layout.
LEMMA LayoutFacts ==
  ASSUME NEW r \in DOMAIN Layouts
  PROVE  /\ IsTree(DirsOf(r), FilesOf(r)) /\ IsFiniteSet(FilesOf(r))
         /\ \A d \in DirsOf(r) : Layouts[r].dirs[d] \in BOOLEAN
         /\ \A f \in FilesOf(r) : /\ Layouts[r].files[f].size \in Nat
                                  /\ Layouts[r].files[f].script \in BOOLEAN
BY LayoutsAssumption DEF IsTree, Paths, ParentOf, DirsOf, FilesOf

LEMMA LimitFacts == MaxDepth \in Nat /\ MaxFiles \in Nat /\ MaxBytes \in Nat
BY LimitsAssumption

\* The paths of a layout.
LEMMA LayoutPaths ==
  ASSUME NEW r \in DOMAIN Layouts
  PROVE  /\ \A d \in DirsOf(r) : d \in Paths /\ Len(d) \in Nat
         /\ \A f \in FilesOf(r) : /\ f \in Paths /\ f # <<>>
                                  /\ ParentOf(f) \in DirsOf(r)
<1>1. IsTree(DirsOf(r), FilesOf(r))
  BY LayoutFacts
<1>2. \A d \in DirsOf(r) : d \in Paths /\ Len(d) \in Nat
  BY <1>1 DEF IsTree, Paths
<1> QED
  BY <1>1, <1>2 DEF IsTree

\* Something of t leads to d.
WaitsIn(t, d) == \E e \in t : Under(e, d)

\* t is a set of directories as WaitingInv wants it.
Front(t, dirs) ==
  /\ t \subseteq dirs
  /\ \A d \in t : Clean(d)
  /\ \A d, e \in t : Under(e, d) => e = d

\* A directory is replaced by those in it: the same is waited for, but itself.
LEMMA FrontAdvances ==
  ASSUME NEW dirs, NEW files, IsTree(dirs, files), NEW t, Front(t, dirs), NEW d \in t,
         NEW new, new = {q \in dirs : q # <<>> /\ ParentOf(q) = d /\ q[Len(q)] \notin Ignored},
         NEW u, u = (t \ {d}) \cup new
  PROVE  /\ Front(u, dirs)
         /\ \A p \in dirs : Clean(p) /\ WaitsIn(t, p) => p = d \/ WaitsIn(u, p)
         /\ \A p \in dirs : WaitsIn(u, p) => WaitsIn(t, p) /\ p # d
<1>0. /\ \A p \in dirs : p \in Paths /\ Len(p) \in Nat
      /\ d \in dirs /\ d \in Paths /\ t \subseteq dirs /\ new \subseteq dirs
      /\ u \subseteq dirs
  BY DEF IsTree, Front, Paths
<1>1. ASSUME NEW q \in new
      PROVE  /\ q \in Paths /\ q # <<>> /\ ParentOf(q) = d /\ Len(q) \in Nat
             /\ Len(q) = Len(d) + 1 /\ Under(d, q) /\ q[Len(q)] \notin Ignored
  <2>1. q \in Paths /\ q # <<>> /\ ParentOf(q) = d /\ q[Len(q)] \notin Ignored
    BY <1>0
  <2>2. Len(q) \in Nat \ {0} /\ Len(ParentOf(q)) = Len(q) - 1 /\ Under(ParentOf(q), q)
    BY <2>1, ParentFacts
  <2> QED
    BY <2>1, <2>2
<1>2. \A q \in u : Clean(q)
  <2>1. ASSUME NEW q \in new
        PROVE  Clean(q)
    <3>1. \A i \in 1..Len(d) : q[i] = d[i]
      BY <1>0, <1>1, UnderIs
    <3>2. DOMAIN q = 1..Len(q) /\ DOMAIN d = 1..Len(d) /\ Len(d) \in Nat
      BY <1>0, <1>1 DEF Paths
    <3>3. \A i \in 1..Len(d) : d[i] \notin Ignored
      BY <3>2 DEF Front, Clean
    <3>6. Len(q) = Len(d) + 1
      BY <1>1
    <3>4. \A i \in 1..Len(q) : i \in 1..Len(d) \/ i = Len(q)
      BY <3>2, <3>6
    <3>5. \A i \in 1..Len(q) : q[i] \notin Ignored
      BY <1>1, <3>1, <3>3, <3>4
    <3> QED
      BY <3>2, <3>5 DEF Clean
  <2> QED
    BY <2>1 DEF Front
<1>3. ASSUME NEW p \in u, NEW e \in u, Under(e, p)
      PROVE  e = p
  <2>1. CASE p \in t \ {d} /\ e \in t \ {d}
    BY <1>3, <2>1 DEF Front
  <2>2. CASE p \in t \ {d} /\ e \in new
    <3>1. Under(d, p)
      BY <1>0, <1>1, <1>3, <2>2, UnderOrder
    <3> QED
      BY <2>2, <3>1 DEF Front
  <2>3. CASE p \in new /\ e \in t \ {d}
    <3>1. e = p \/ Under(e, d)
      BY <1>0, <1>1, <1>3, <2>3, ParentUnder
    <3> QED
      BY <2>3, <3>1 DEF Front
  <2>4. CASE p \in new /\ e \in new
    <3>1. Len(p) <= Len(e)
      BY <1>1, <2>4
    <3> QED
      BY <1>1, <1>3, <2>4, <3>1, UnderOrder
  <2> QED
    BY <2>1, <2>2, <2>3, <2>4
<1>4. ASSUME NEW p \in dirs, Clean(p), WaitsIn(t, p), p # d
      PROVE  WaitsIn(u, p)
  <2>1. PICK e \in t : Under(e, p)
    BY <1>4 DEF WaitsIn
  <2>2. CASE e # d
    BY <2>1, <2>2 DEF WaitsIn
  <2>3. CASE e = d
    <3> DEFINE q == SubSeq(p, 1, Len(d) + 1)
    <3>1. /\ q \in Paths /\ q # <<>> /\ ParentOf(q) = d /\ Under(q, p)
          /\ Len(q) = Len(d) + 1 /\ Len(q) \in 1..Len(p) /\ q[Len(q)] = p[Len(q)]
      BY <1>0, <1>4, <2>1, <2>3, StepTowards
    <3>2. Len(d) + 1 \in 0..Len(p)
      BY <1>0, <3>1
    <3>3. q \in dirs
      BY <3>2, WayThere
    <3>4. p[Len(q)] \notin Ignored
      <4>1. DOMAIN p = 1..Len(p)
        BY <1>0 DEF Paths
      <4> HIDE DEF q
      <4> QED
        BY <1>4, <3>1, <4>1 DEF Clean
    <3> HIDE DEF q
    <3>5. q \in new
      BY <3>1, <3>3, <3>4
    <3> QED
      BY <3>1, <3>5 DEF WaitsIn
  <2> QED
    BY <2>2, <2>3
<1>5. ASSUME NEW p \in dirs, WaitsIn(u, p)
      PROVE  WaitsIn(t, p) /\ p # d
  <2>1. PICK e \in u : Under(e, p)
    BY <1>5 DEF WaitsIn
  <2>2. CASE e \in new
    <3>1. Under(d, p)
      BY <1>0, <1>1, <2>1, <2>2, UnderOrder
    <3>2. Len(e) <= Len(p)
      BY <2>1 DEF Under
    <3>3. p # d
      BY <1>0, <1>1, <2>2, <3>2
    <3> QED
      BY <3>1, <3>3 DEF WaitsIn
  <2>3. CASE e \in t \ {d}
    BY <2>1, <2>3 DEF WaitsIn, Front
  <2> QED
    BY <2>1, <2>2, <2>3
<1> QED
  BY <1>0, <1>2, <1>3, <1>4, <1>5 DEF Front

\* A directory that is too deep hides nothing within reach.
LEMMA FrontShrinks ==
  ASSUME NEW dirs, NEW files, IsTree(dirs, files), NEW t, Front(t, dirs), NEW d \in t,
         Len(d) > MaxDepth
  PROVE  /\ Front(t \ {d}, dirs)
         /\ \A p \in dirs : Reachable(p) /\ WaitsIn(t, p) => WaitsIn(t \ {d}, p)
         /\ \A p \in dirs : WaitsIn(t \ {d}, p) => WaitsIn(t, p)
<1>1. Front(t \ {d}, dirs)
  BY DEF Front
<1>2. ASSUME NEW p \in dirs, Reachable(p), WaitsIn(t, p)
      PROVE  WaitsIn(t \ {d}, p)
  <2>1. PICK e \in t : Under(e, p)
    BY <1>2 DEF WaitsIn
  <2>2. Len(e) <= Len(p) /\ Len(p) <= MaxDepth
    BY <1>2, <2>1 DEF Under, Reachable
  <2>3. Len(p) \in Nat /\ Len(e) \in Nat /\ Len(d) \in Nat
    BY DEF IsTree, Front, Paths
  <2>4. e # d
    BY <2>2, <2>3, LimitFacts
  <2> QED
    BY <2>1, <2>4 DEF WaitsIn
<1>3. \A p \in dirs : WaitsIn(t \ {d}, p) => WaitsIn(t, p)
  BY DEF WaitsIn
<1> QED
  BY <1>1, <1>2, <1>3

LEMMA WaitsIs ==
  /\ \A d : Waits(d) <=> WaitsIn(todo, d)
  /\ \A d : Waits(d)' <=> WaitsIn(todo', d)
BY DEF Waits, WaitsIn

LEMMA WalkOpen ==
  ASSUME Walking, DiscInv
  PROVE  /\ Head(roots) \in DOMAIN Layouts
         /\ Front(todo, DirsOf(Head(roots)))
         /\ left \subseteq InReach(Head(roots))
         /\ \A f \in left : ~WaitsIn(todo, ParentOf(f))
         /\ SoFarInv /\ CountInv
BY DEF Walking, DiscInv, WalkInv, WaitingInv, LeftInv, Front, DirsOf, Tree, Waits,
       WaitsIn

\* At the start of a root everything is still to come.
Fresh == todo = {<<>>} /\ left = {} /\ seen = 0 /\ bytes = 0

LEMMA FreshWalk == Fresh => WalkInv
<1> SUFFICES ASSUME Fresh, Walking
             PROVE  WaitingInv /\ LeftInv /\ SoFarInv /\ CountInv
  BY DEF WalkInv
<1> DEFINE r == Head(roots)
<1>1. r \in DOMAIN Layouts
  BY DEF Walking
<1>2. <<>> \in Paths /\ Len(<<>>) = 0
  BY DEF Paths
<1>3. \A d \in DirsOf(r) : Waits(d)
  <2>1. \A d \in DirsOf(r) : d \in Paths
    BY <1>1, LayoutPaths
  <2>2. \A d \in Paths : Under(<<>>, d)
    BY <1>2, UnderIs
  <2> QED
    BY <2>1, <2>2 DEF Waits, Fresh
<1>4. \A f \in FilesOf(r) : ParentOf(f) \in DirsOf(r)
  BY <1>1, LayoutPaths
<1>5. WaitingInv
  <2>1. <<>> \in DirsOf(r)
    BY <1>1, LayoutFacts DEF IsTree
  <2> QED
    BY <2>1 DEF WaitingInv, Fresh, Tree, DirsOf, Clean
<1>6. LeftInv /\ SoFarInv
  BY <1>3, <1>4 DEF LeftInv, SoFarInv, Fresh, Tree, DirsOf, FilesOf
<1>7. Looked = {}
  BY <1>3, <1>4 DEF Looked, InReach, FilesOf
<1>8. SizeOf(r, {}) = 0
  BY SizeIs, TotalSteps, FS_EmptySet
<1>9. CountInv
  BY <1>7, <1>8, FS_EmptySet DEF CountInv, Fresh
<1> QED
  BY <1>5, <1>6, <1>9

\* What is left of the roots.
LEMMA Rest ==
  ASSUME NEW L \in Seq(STRING), NEW k \in 0..Len(L),
         NEW s, s = SubSeq(L, k + 1, Len(L))
  PROVE  /\ s = <<>> => k = Len(L)
         /\ s # <<>> => /\ k + 1 \in 1..Len(L) /\ Head(s) = L[k + 1]
                        /\ Tail(s) = SubSeq(L, (k + 1) + 1, Len(L))
<1>1. Len(L) \in Nat
  OBVIOUS
<1>2. /\ s \in Seq(STRING) /\ Len(s) = Len(L) - k
      /\ \A i \in 1..Len(s) : s[i] = L[k + i]
  BY <1>1, SubSeqProperties
<1>3. s = <<>> => k = Len(L)
  BY <1>1, <1>2
<1>4. ASSUME s # <<>>
      PROVE  /\ k + 1 \in 1..Len(L) /\ Head(s) = L[k + 1]
             /\ Tail(s) = SubSeq(L, (k + 1) + 1, Len(L))
  <2>1. k + 1 \in 1..Len(L)
    BY <1>1, <1>2, <1>4, EmptySeq
  <2>2. Head(s) = L[k + 1]
    BY <1>1, <1>2, <2>1
  <2> DEFINE v == SubSeq(L, (k + 1) + 1, Len(L))
             t == Tail(s)
  <2>3. /\ v \in Seq(STRING) /\ Len(v) = Len(L) - (k + 1)
        /\ \A i \in 1..Len(v) : v[i] = L[(k + 1) + i]
    BY <1>1, <2>1, SubSeqProperties
  <2>4. /\ t \in Seq(STRING) /\ Len(t) = Len(s) - 1
        /\ \A i \in 1..Len(t) : t[i] = s[i + 1]
    BY <1>2, <1>4, HeadTailProperties
  <2> HIDE DEF v, t
  <2>5. \A i \in 1..Len(t) : t[i] = v[i]
    BY <1>1, <1>2, <2>1, <2>3, <2>4
  <2>7. Len(t) = Len(v)
    BY <1>1, <1>2, <2>3, <2>4
  <2>6. t = v
    BY <2>3, <2>4, <2>5, <2>7, SeqEqual
  <2> QED
    BY <2>1, <2>2, <2>6 DEF v, t
<1> QED
  BY <1>3, <1>4

LEMMA LoadedRoots ==
  ASSUME config \in Configs
  PROVE  _load_roots(config) \in Seq(STRING)
BY RootsAssumption DEF _load_roots

\* What was reported or gone stays so, and a root is given up only once.
Keeps == /\ config' = config /\ cut \subseteq cut'
         /\ found \cup vanished \subseteq found' \cup vanished'

LEMMA ReportsStay ==
  ASSUME Keeps, NEW r, AllReported(r)
  PROVE  AllReported(r)'
BY DEF Keeps, AllReported

LEMMA SameRoots ==
  ASSUME DiscInv, Keeps, roots' = roots
  PROVE  RootsInv'
<1>1. PICK L : L = _load_roots(config)
  OBVIOUS
<1>2. _load_roots(config)' = L
  BY <1>1 DEF Keeps
<1>3. PICK k \in 0..Len(L) : /\ roots = SubSeq(L, k + 1, Len(L))
                             /\ \A i \in 1..k : AllReported(L[i])
  BY <1>1 DEF DiscInv, RootsInv
<1>4. \A i \in 1..k : AllReported(L[i])'
  BY <1>3, ReportsStay
<1> QED
  BY <1>2, <1>3, <1>4 DEF RootsInv

LEMMA NextRoot ==
  ASSUME DiscInv, Keeps, roots # <<>>, roots' = Tail(roots),
         NEW r, r = Head(roots), AllReported(r)'
  PROVE  RootsInv'
<1>1. PICK L : L = _load_roots(config)
  OBVIOUS
<1>2. _load_roots(config)' = L /\ L \in Seq(STRING)
  BY <1>1, LoadedRoots DEF Keeps, DiscInv
<1>3. PICK k \in 0..Len(L) : /\ roots = SubSeq(L, k + 1, Len(L))
                             /\ \A i \in 1..k : AllReported(L[i])
  BY <1>1 DEF DiscInv, RootsInv
<1>4. /\ k + 1 \in 1..Len(L) /\ r = L[k + 1]
      /\ roots' = SubSeq(L, (k + 1) + 1, Len(L))
  BY <1>2, <1>3, Rest
<1>5. \A i \in 1..k : AllReported(L[i])'
  BY <1>3, ReportsStay
<1>6. AllReported(L[k + 1])'
  BY <1>4
<1>7. \A i \in 1..(k + 1) : AllReported(L[i])'
  BY <1>5, <1>6
<1>8. k + 1 \in 0..Len(L)
  BY <1>4
<1> QED
  BY <1>2, <1>4, <1>7, <1>8 DEF RootsInv

\* The invariant of the current root, of which rep was reported, miss was gone,
\* and n files of b bytes were looked at.
LookedAt(r, t, l) == {f \in InReach(r) : f \notin l /\ ~WaitsIn(t, ParentOf(f))}
Walk(r, t, l, rep, miss, n, b) ==
  /\ Front(t, DirsOf(r))
  /\ l \subseteq {f \in InReach(r) : ~WaitsIn(t, ParentOf(f))}
  /\ \A d \in DirsOf(r) :
       Reachable(d) /\ Layouts[r].dirs[d] =>
         WaitsIn(t, d) \/ [root |-> r, path |-> d] \in rep
  /\ \A f \in FilesOf(r) :
       Reachable(ParentOf(f)) /\ Layouts[r].files[f].script =>
         \/ f \in l \/ WaitsIn(t, ParentOf(f))
         \/ [root |-> r, path |-> f] \in rep \cup miss
  /\ n = Cardinality(LookedAt(r, t, l))
  /\ b \in Nat /\ b <= SizeOf(r, LookedAt(r, t, l))

LEMMA WalkIs ==
  WalkInv <=> (Walking => Walk(Head(roots), todo, left, found, vanished, seen, bytes))
BY DEF WalkInv, WaitingInv, LeftInv, SoFarInv, CountInv, Looked, Waits, Report, Tree,
       Walk, Front, LookedAt, WaitsIn, DirsOf, FilesOf

LEMMA WalkIsNext ==
  ASSUME Walking' => Walk(Head(roots'), todo', left', found', vanished', seen', bytes')
  PROVE  WalkInv'
BY DEF WalkInv, WaitingInv, LeftInv, SoFarInv, CountInv, Looked, Waits, Report, Tree,
       Walk, Front, LookedAt, WaitsIn, DirsOf, FilesOf

\* Visiting a directory that is not too deep.
LEMMA WalkVisits ==
  ASSUME NEW r \in DOMAIN Layouts, NEW t, NEW rep, NEW miss, NEW n, NEW b,
         Walk(r, t, {}, rep, miss, n, b), NEW d \in t, Len(d) =< MaxDepth,
         NEW u, u = (t \ {d}) \cup
                      {q \in DirsOf(r) : q # <<>> /\ ParentOf(q) = d /\ q[Len(q)] \notin Ignored},
         NEW l, l = {q \in FilesOf(r) : q # <<>> /\ ParentOf(q) = d},
         NEW more, rep \subseteq more,
         Layouts[r].dirs[d] => [root |-> r, path |-> d] \in more
  PROVE  Walk(r, u, l, more, miss, n, b) /\ d \in DirsOf(r) /\ Reachable(d)
<1> DEFINE D == DirsOf(r)
           F == FilesOf(r)
<1>1. IsTree(D, F) /\ Front(t, D)
  BY LayoutFacts DEF Walk
<1> DEFINE new == {q \in D : q # <<>> /\ ParentOf(q) = d /\ q[Len(q)] \notin Ignored}
<1>2. /\ Front(u, D)
      /\ \A p \in D : Clean(p) /\ WaitsIn(t, p) => p = d \/ WaitsIn(u, p)
      /\ \A p \in D : WaitsIn(u, p) => WaitsIn(t, p) /\ p # d
  <2>1. new = {q \in D : q # <<>> /\ ParentOf(q) = d /\ q[Len(q)] \notin Ignored}
    OBVIOUS
  <2>2. u = (t \ {d}) \cup new
    OBVIOUS
  <2> HIDE DEF new
  <2> QED
    BY <1>1, <2>1, <2>2, FrontAdvances
<1>3. d \in D /\ Reachable(d)
  BY <1>1 DEF Front, Reachable, Clean
<1>4. \A p : Reachable(p) => Clean(p)
  BY DEF Reachable, Clean
<1>5. \A f \in F : ParentOf(f) \in D /\ f # <<>>
  BY LayoutPaths
<1>6. WaitsIn(t, d)
  <2>1. Under(d, d)
    BY <1>1, UnderOrder DEF Front, IsTree
  <2> QED
    BY <2>1 DEF WaitsIn
<1> HIDE DEF new, D, F
<1>7. l \subseteq {f \in InReach(r) : ~WaitsIn(u, ParentOf(f))}
  BY <1>2, <1>3 DEF InReach, FilesOf, F
<1>8. \A p \in D : Reachable(p) /\ Layouts[r].dirs[p] =>
         WaitsIn(u, p) \/ [root |-> r, path |-> p] \in more
  BY <1>2, <1>4 DEF Walk, D
<1>9. \A f \in F : Reachable(ParentOf(f)) /\ Layouts[r].files[f].script =>
         \/ f \in l \/ WaitsIn(u, ParentOf(f))
         \/ [root |-> r, path |-> f] \in more \cup miss
  BY <1>2, <1>4, <1>5 DEF Walk, F
<1>10. LookedAt(r, u, l) = LookedAt(r, t, {})
  <2>1. ASSUME NEW f \in InReach(r)
        PROVE  f \notin l /\ ~WaitsIn(u, ParentOf(f)) <=> ~WaitsIn(t, ParentOf(f))
    <3>1. f \in F /\ Reachable(ParentOf(f)) /\ ParentOf(f) \in D /\ f # <<>>
      BY <1>5 DEF InReach, F, FilesOf
    <3> QED
      BY <1>2, <1>4, <1>6, <3>1 DEF F
  <2> QED
    BY <2>1 DEF LookedAt
<1> QED
  BY <1>2, <1>3, <1>7, <1>8, <1>9, <1>10 DEF Walk, D, F

\* Passing over one that is.
LEMMA WalkSkips ==
  ASSUME NEW r \in DOMAIN Layouts, NEW t, NEW l, NEW rep, NEW miss, NEW n, NEW b,
         Walk(r, t, l, rep, miss, n, b), NEW d \in t, Len(d) > MaxDepth
  PROVE  Walk(r, t \ {d}, l, rep, miss, n, b)
<1> DEFINE D == DirsOf(r)
           F == FilesOf(r)
           u == t \ {d}
<1>1. IsTree(D, F) /\ Front(t, D)
  BY LayoutFacts DEF Walk
<1>2. /\ Front(u, D)
      /\ \A p \in D : Reachable(p) /\ WaitsIn(t, p) => WaitsIn(u, p)
      /\ \A p \in D : WaitsIn(u, p) => WaitsIn(t, p)
  BY <1>1, FrontShrinks
<1>3. \A f \in F : ParentOf(f) \in D
  BY LayoutPaths
<1> HIDE DEF D, F, u
<1>4. \A f \in InReach(r) : WaitsIn(u, ParentOf(f)) <=> WaitsIn(t, ParentOf(f))
  BY <1>2, <1>3 DEF InReach, F, FilesOf
<1>5. LookedAt(r, u, l) = LookedAt(r, t, l)
  BY <1>4 DEF LookedAt
<1>6. l \subseteq {f \in InReach(r) : ~WaitsIn(u, ParentOf(f))}
  BY <1>4 DEF Walk
<1>7. \A p \in D : Reachable(p) /\ Layouts[r].dirs[p] =>
         WaitsIn(u, p) \/ [root |-> r, path |-> p] \in rep
  BY <1>2 DEF Walk, D
<1>8. \A f \in F : Reachable(ParentOf(f)) /\ Layouts[r].files[f].script =>
         \/ f \in l \/ WaitsIn(u, ParentOf(f))
         \/ [root |-> r, path |-> f] \in rep \cup miss
  BY <1>2, <1>3 DEF Walk, F
<1> QED
  BY <1>2, <1>5, <1>6, <1>7, <1>8 DEF Walk, D, F, u

\* The files u are those of S and f, the n-plus-first, all within reach.
Grows(r, S, u, f, n) ==
  /\ n \in Nat /\ Cardinality(u) = n + 1
  /\ Layouts[r].files[f].size \in Nat
  /\ SizeOf(r, S) \in Nat /\ SizeOf(r, u) = SizeOf(r, S) + Layouts[r].files[f].size
  /\ n + 1 =< Cardinality(InReach(r)) /\ Cardinality(InReach(r)) \in Nat
  /\ SizeOf(r, u) =< SizeOf(r, InReach(r)) /\ SizeOf(r, InReach(r)) \in Nat

\* The files looked at, and one more.
LEMMA OneMore ==
  ASSUME NEW r \in DOMAIN Layouts, NEW t, NEW l, NEW rep, NEW miss, NEW n, NEW b,
         Walk(r, t, l, rep, miss, n, b), NEW f \in l
  PROVE  Grows(r, LookedAt(r, t, l), LookedAt(r, t, l \ {f}), f, n)
<1> DEFINE S == LookedAt(r, t, l)
           u == LookedAt(r, t, l \ {f})
           w == Layouts[r].files
           I == InReach(r)
<1>1. f \in I /\ ~WaitsIn(t, ParentOf(f)) /\ f \in FilesOf(r)
  BY DEF Walk, InReach, FilesOf
<1>2. S \subseteq I /\ u \subseteq I /\ f \in u /\ S = u \ {f}
  BY <1>1 DEF LookedAt
<1>3. IsFiniteSet(I) /\ Sizes(w, I) /\ w[f].size \in Nat
  <2>1. I \subseteq FilesOf(r) /\ IsFiniteSet(FilesOf(r))
    BY LayoutFacts DEF InReach, FilesOf
  <2>2. IsFiniteSet(I)
    BY <2>1, FS_Subset
  <2>3. \A x \in I : w[x].size \in Nat
    BY <2>1, LayoutFacts
  <2> QED
    BY <1>1, <2>2, <2>3 DEF Sizes
<1> HIDE DEF S, u, w, I
<1>4. /\ IsFiniteSet(S) /\ IsFiniteSet(u) /\ Sizes(w, S) /\ Sizes(w, u)
  BY <1>2, <1>3, FS_Subset DEF Sizes
<1>5. /\ n = Cardinality(S) /\ n \in Nat /\ Cardinality(u) \in Nat
      /\ n = Cardinality(u) - 1
  <2>1. n = Cardinality(S)
    BY DEF Walk, S
  <2>2. Cardinality(u \ {f}) \in Nat /\ Cardinality(u \ {f}) = Cardinality(u) - 1
        /\ Cardinality(u) \in Nat
    BY <1>2, <1>4, OneLess
  <2> QED
    BY <1>2, <2>1, <2>2
<1>6. Cardinality(I) \in Nat /\ Cardinality(u) <= Cardinality(I)
  BY <1>2, <1>3, FS_Subset, FS_CardinalityType
<1>7. /\ Total(w, S) \in Nat /\ Total(w, I) \in Nat /\ Total(w, u) \in Nat
      /\ Total(w, u) = w[f].size + Total(w, S)
  BY <1>2, <1>3, <1>4, TotalAdds
<1>8. Total(w, u) <= Total(w, I)
  BY <1>2, <1>3, TotalGrows
<1>9. /\ SizeOf(r, S) = Total(w, S) /\ SizeOf(r, u) = Total(w, u)
      /\ SizeOf(r, I) = Total(w, I)
  BY SizeIs DEF w
<1>10. /\ n \in Nat /\ Cardinality(u) = n + 1 /\ n + 1 =< Cardinality(I)
  BY <1>5, <1>6
<1>11. /\ SizeOf(r, u) = SizeOf(r, S) + w[f].size /\ SizeOf(r, S) \in Nat
       /\ SizeOf(r, u) =< SizeOf(r, I) /\ SizeOf(r, I) \in Nat
  BY <1>3, <1>7, <1>8, <1>9
<1> QED
  BY <1>2, <1>3, <1>6, <1>10, <1>11 DEF S, u, w, I, Grows

\* Looking at one file.
LEMMA WalkLooks ==
  ASSUME NEW r \in DOMAIN Layouts, NEW t, NEW l, NEW rep, NEW miss, NEW n, NEW b,
         Walk(r, t, l, rep, miss, n, b), NEW f \in l,
         NEW more, rep \subseteq more, NEW missed, miss \subseteq missed,
         Layouts[r].files[f].script => [root |-> r, path |-> f] \in more \cup missed,
         NEW c, c = b \/ c = b + Layouts[r].files[f].size
  PROVE  Walk(r, t, l \ {f}, more, missed, n + 1, c)
<1>1. Grows(r, LookedAt(r, t, l), LookedAt(r, t, l \ {f}), f, n)
  BY OneMore
<1> DEFINE m == SizeOf(r, LookedAt(r, t, l))
           v == SizeOf(r, LookedAt(r, t, l \ {f}))
           z == Layouts[r].files[f].size
<1>2. m \in Nat /\ z \in Nat /\ v = m + z /\ b \in Nat /\ b <= m
  BY <1>1 DEF Walk, Grows
<1>3. n + 1 = Cardinality(LookedAt(r, t, l \ {f}))
  BY <1>1 DEF Grows
<1> HIDE DEF m, v, z
<1>4. c \in Nat /\ c <= v
  BY <1>2 DEF z
<1>5. c \in Nat /\ c <= SizeOf(r, LookedAt(r, t, l \ {f}))
  BY <1>4 DEF v
<1> QED
  BY <1>3, <1>5 DEF Walk

LEMMA OversizedIs ==
  ASSUME NEW r
  PROVE  Oversized(r) <=> \/ Cardinality(InReach(r)) > MaxFiles
                          \/ SizeOf(r, InReach(r)) > MaxBytes
BY DEF Oversized, SizeOf, InReach, MapThenSumSet, MapThenFoldSet

LEMMA EligibleIs ==
  ASSUME NEW r
  PROVE  \A q : q \in Eligible(r) <=>
           \/ q \in DirsOf(r) /\ Reachable(q) /\ Layouts[r].dirs[q]
           \/ q \in FilesOf(r) /\ Reachable(ParentOf(q)) /\ Layouts[r].files[q].script
BY DEF Eligible, DirsOf, FilesOf

\* The steps.
LEMMA VisitKeeps ==
  ASSUME DiscInv, NEW d \in todo, VisitDir(d)
  PROVE  DiscInv'
<1>1. PICK r : r = Head(roots)
  OBVIOUS
<1>2. /\ r \in DOMAIN Layouts /\ Walk(r, todo, {}, found, vanished, seen, bytes)
      /\ left = {}
  BY <1>1, WalkIs DEF VisitDir, Walking, DiscInv
<1>3. /\ roots' = roots /\ config' = config /\ cut' = cut /\ vanished' = vanished
      /\ seen' = seen /\ bytes' = bytes
  BY DEF VisitDir
<1>4. CASE Len(d) > MaxDepth
  <2>1. todo' = todo \ {d} /\ left' = {} /\ found' = found
    BY <1>2, <1>4 DEF VisitDir
  <2>2. Walk(r, todo', left', found', vanished', seen', bytes')
    BY <1>2, <1>3, <1>4, <2>1, WalkSkips
  <2>3. WalkInv'
    BY <1>1, <1>3, <2>2, WalkIsNext
  <2>4. RootsInv'
    BY <1>3, <2>1, SameRoots DEF Keeps
  <2> QED
    BY <1>3, <2>1, <2>3, <2>4 DEF DiscInv, ReportInv, CutInv
<1>5. CASE ~(Len(d) > MaxDepth)
  <2>1. /\ todo' = (todo \ {d}) \cup Descends(d) /\ left' = Below(d, DOMAIN Tree.files)
        /\ found' = IF Tree.dirs[d] THEN found \cup {Report(d)} ELSE found
    BY <1>5 DEF VisitDir
  <2>2. /\ todo' = (todo \ {d}) \cup
                {q \in DirsOf(r) : q # <<>> /\ ParentOf(q) = d /\ q[Len(q)] \notin Ignored}
        /\ left' = {q \in FilesOf(r) : q # <<>> /\ ParentOf(q) = d}
    BY <1>1, <2>1 DEF Descends, Below, Tree, DirsOf, FilesOf
  <2>3. /\ found \subseteq found'
        /\ Layouts[r].dirs[d] => [root |-> r, path |-> d] \in found'
        /\ \A c \in found' :
             c \in found \/ (Layouts[r].dirs[d] /\ c = [root |-> r, path |-> d])
    BY <1>1, <2>1 DEF Tree, Report
  <2>4. Len(d) =< MaxDepth
    <3>1. d \in DirsOf(r)
      BY <1>2 DEF Walk, Front
    <3>2. Len(d) \in Nat
      BY <1>2, <3>1, LayoutPaths
    <3> QED
      BY <1>5, <3>2, LimitFacts
  <2>5. /\ Walk(r, todo', left', found', vanished, seen, bytes)
        /\ d \in DirsOf(r) /\ Reachable(d)
    BY <1>2, <2>2, <2>3, <2>4, WalkVisits
  <2>6. WalkInv'
    BY <1>1, <1>3, <2>5, WalkIsNext
  <2>7. RootsInv'
    BY <1>3, <2>3, SameRoots DEF Keeps
  <2>8. ReportInv'
    <3>1. ASSUME NEW c \in found', c.root \in DOMAIN Layouts
          PROVE  c.path \in Eligible(c.root)
      <4>1. CASE c \in found
        BY <3>1, <4>1 DEF DiscInv, ReportInv
      <4>2. CASE Layouts[r].dirs[d] /\ c = [root |-> r, path |-> d]
        <5>1. c.root = r /\ c.path = d
          BY <4>2
        <5> QED
          BY <2>5, <4>2, <5>1, EligibleIs
      <4> QED
        BY <2>3, <4>1, <4>2
    <3> QED
      BY <3>1 DEF ReportInv
  <2> QED
    BY <1>3, <2>6, <2>7, <2>8 DEF DiscInv, CutInv
<1> QED
  BY <1>4, <1>5

\* A new root, or none.
LEMMA LeaveKeeps ==
  ASSUME DiscInv, LeaveRoot, roots # <<>>, Keeps, found' = found,
         NEW r, r = Head(roots), AllReported(r)', CutInv'
  PROVE  DiscInv'
<1>1. WalkInv'
  <2>1. Fresh' => WalkInv'
    BY FreshWalk, PTL
  <2> QED
    BY <2>1 DEF LeaveRoot, Fresh
<1>2. RootsInv'
  BY NextRoot DEF LeaveRoot
<1> QED
  BY <1>1, <1>2 DEF DiscInv, Keeps, ReportInv

LEMMA LookKeeps ==
  ASSUME DiscInv, NEW f \in left, NEW gone \in BOOLEAN, NEW late \in BOOLEAN,
         LookAtFile(f, gone, late)
  PROVE  DiscInv'
<1>1. PICK r : r = Head(roots)
  OBVIOUS
<1> DEFINE size == Layouts[r].files[f].size
           full == seen + 1 > MaxFiles \/ (~gone /\ bytes + size > MaxBytes)
<1>2. /\ r \in DOMAIN Layouts /\ Walk(r, todo, left, found, vanished, seen, bytes)
      /\ roots # <<>>
  BY <1>1, WalkIs DEF LookAtFile, Walking, DiscInv
<1>3. config' = config
  BY DEF LookAtFile
<1>4. CASE full
  <2>1. LeaveRoot /\ cut' = cut \cup {r} /\ found' = found /\ vanished' = vanished
    BY <1>1, <1>4 DEF LookAtFile, Tree
  <2>2. Keeps
    BY <1>3, <2>1 DEF Keeps
  <2>3. AllReported(r)'
    BY <2>1 DEF AllReported
  <2>4. Oversized(r)
    <3> DEFINE S == LookedAt(r, todo, left)
               u == LookedAt(r, todo, left \ {f})
    <3>1. Grows(r, S, u, f, seen)
      BY <1>2, OneMore
    <3>2. bytes \in Nat /\ bytes =< SizeOf(r, S)
      BY <1>2 DEF Walk
    <3> DEFINE a == SizeOf(r, S)
               e == SizeOf(r, u)
               i == SizeOf(r, InReach(r))
               c == Cardinality(InReach(r))
    <3>3. /\ e = a + size /\ a \in Nat /\ e =< i /\ i \in Nat /\ size \in Nat /\ c \in Nat
          /\ seen + 1 =< c /\ bytes =< a /\ bytes \in Nat /\ seen \in Nat
      BY <3>1, <3>2 DEF Grows
    <3> HIDE DEF a, e, i, c, S, u, size
    <3>4. c > MaxFiles \/ i > MaxBytes
      BY <1>4, <3>3, LimitFacts
    <3> QED
      BY <3>4, OversizedIs DEF i, c
  <2>5. CutInv'
    BY <2>1, <2>4 DEF DiscInv, CutInv
  <2> QED
    BY <1>1, <1>2, <2>1, <2>2, <2>3, <2>5, LeaveKeeps
<1>5. CASE ~full
  <2>1. /\ seen' = seen + 1 /\ left' = left \ {f}
        /\ bytes' = IF gone THEN bytes ELSE bytes + size
        /\ found' = IF ~gone /\ ~late /\ Layouts[r].files[f].script
                    THEN found \cup {[root |-> r, path |-> f]} ELSE found
        /\ vanished' = IF gone \/ late THEN vanished \cup {[root |-> r, path |-> f]} ELSE vanished
        /\ roots' = roots /\ todo' = todo /\ cut' = cut
    BY <1>1, <1>5 DEF LookAtFile, Tree, Report
  <2>2. /\ found \subseteq found' /\ vanished \subseteq vanished'
        /\ Layouts[r].files[f].script => [root |-> r, path |-> f] \in found' \cup vanished'
        /\ bytes' = bytes \/ bytes' = bytes + size
    BY <2>1
  <2>3. Walk(r, todo, left \ {f}, found', vanished', seen + 1, bytes')
    BY <1>2, <2>2, WalkLooks
  <2>4. WalkInv'
    BY <1>1, <2>1, <2>3, WalkIsNext
  <2>5. RootsInv'
    BY <1>3, <2>1, <2>2, SameRoots DEF Keeps
  <2>6. ReportInv'
    <3>1. ASSUME NEW c \in found', c.root \in DOMAIN Layouts
          PROVE  c.path \in Eligible(c.root)
      <4>1. CASE c \in found
        BY <3>1, <4>1 DEF DiscInv, ReportInv
      <4>2. CASE Layouts[r].files[f].script /\ c = [root |-> r, path |-> f]
        <5>1. c.root = r /\ c.path = f
          BY <4>2
        <5>2. f \in FilesOf(r) /\ Reachable(ParentOf(f))
          BY <1>2 DEF Walk, InReach, FilesOf
        <5> QED
          BY <4>2, <5>1, <5>2, EligibleIs
      <4> QED
        BY <2>1, <4>1, <4>2
    <3> QED
      BY <3>1 DEF ReportInv
  <2> QED
    BY <1>3, <2>1, <2>4, <2>5, <2>6 DEF DiscInv, CutInv
<1> QED
  BY <1>4, <1>5

LEMMA EndKeeps ==
  ASSUME DiscInv, EndRoot
  PROVE  DiscInv'
<1>1. PICK r : r = Head(roots)
  OBVIOUS
<1>2. /\ roots # <<>> /\ LeaveRoot /\ Keeps /\ found' = found /\ vanished' = vanished
      /\ cut' = cut
  BY DEF EndRoot, Keeps
<1>3. AllReported(r)
  <2> SUFFICES ASSUME r \in DOMAIN Layouts, NEW q \in Eligible(r)
               PROVE  [root |-> r, path |-> q] \in found \cup vanished
    BY DEF AllReported
  <2>1. Walking
    BY <1>1, <1>2 DEF Walking
  <2>2. Walk(r, {}, {}, found, vanished, seen, bytes)
    BY <1>1, <2>1, WalkIs DEF EndRoot, DiscInv
  <2>3. \A p : ~WaitsIn({}, p)
    BY DEF WaitsIn
  <2> QED
    BY <2>2, <2>3, EligibleIs DEF Walk
<1>4. AllReported(r)'
  BY <1>2, <1>3, ReportsStay
<1>5. CutInv'
  BY <1>2 DEF DiscInv, CutInv
<1> QED
  BY <1>1, <1>2, <1>4, <1>5, LeaveKeeps

LEMMA DiscStarts ==
  ASSUME DiscInit
  PROVE  DiscInv
<1>1. WalkInv
  BY FreshWalk DEF DiscInit, Fresh
<1>2. RootsInv
  <2> DEFINE L == _load_roots(config)
  <2>1. L \in Seq(STRING) /\ roots = L
    BY LoadedRoots DEF DiscInit
  <2> HIDE DEF L
  <2>2. SubSeq(L, 0 + 1, Len(L)) = L /\ 0 \in 0..Len(L)
    BY <2>1
  <2> QED
    BY <2>1, <2>2 DEF RootsInv, L
<1> QED
  BY <1>1, <1>2 DEF DiscInv, DiscInit, ReportInv, CutInv

\* Once nothing is left to walk, the invariant is what discovery promises.
LEMMA DiscEnds ==
  ASSUME DiscInv
  PROVE  DiscoveryExact
<1> SUFFICES ASSUME roots = <<>>
             PROVE  /\ \A r \in DOMAIN Layouts : FoundIn(r) \subseteq Eligible(r)
                    /\ \A r \in cut : Oversized(r)
                    /\ \A i \in DOMAIN _load_roots(config) :
                         LET r == _load_roots(config)[i]
                         IN r \in DOMAIN Layouts \ cut =>
                              Eligible(r) \ FoundIn(r) \subseteq
                                {v.path : v \in {x \in vanished : x.root = r}}
  BY DEF DiscoveryExact
<1>1. \A r \in DOMAIN Layouts : FoundIn(r) \subseteq Eligible(r)
  BY DEF DiscInv, ReportInv, FoundIn
<1>2. \A r \in cut : Oversized(r)
  BY DEF DiscInv, CutInv
<1>3. PICK L : L = _load_roots(config)
  OBVIOUS
<1>4. L \in Seq(STRING)
  BY <1>3, LoadedRoots DEF DiscInv
<1>5. \A i \in 1..Len(L) : AllReported(L[i])
  <2>1. PICK k \in 0..Len(L) : /\ roots = SubSeq(L, k + 1, Len(L))
                              /\ \A i \in 1..k : AllReported(L[i])
    BY <1>3 DEF DiscInv, RootsInv
  <2>2. k = Len(L)
    BY <1>4, <2>1, Rest
  <2> QED
    BY <2>1, <2>2
<1>6. ASSUME NEW i \in DOMAIN L, L[i] \in DOMAIN Layouts \ cut,
             NEW q \in Eligible(L[i]) \ FoundIn(L[i])
      PROVE  q \in {v.path : v \in {x \in vanished : x.root = L[i]}}
  <2> DEFINE r == L[i]
             c == [root |-> r, path |-> q]
  <2>1. DOMAIN L = 1..Len(L)
    BY <1>4
  <2>2. c \in found \cup vanished
    BY <1>5, <1>6, <2>1 DEF AllReported
  <2>3. c.root = r /\ c.path = q
    OBVIOUS
  <2> HIDE DEF c, r
  <2>4. c \notin found
    BY <1>6, <2>3 DEF FoundIn, r
  <2>5. c \in {x \in vanished : x.root = r}
    BY <2>2, <2>3, <2>4
  <2> QED
    BY <2>3, <2>5 DEF r
<1> QED
  BY <1>1, <1>2, <1>3, <1>6

\* Discovery reports what it should, whatever is below the roots and in whatever
\* order it is listed (capabilities/discovery.py, discover, _iter_candidates).
THEOREM DiscoveryAlways == DiscSpec => []DiscoveryExact
<1>1. DiscInit => DiscInv
  BY DiscStarts
<1>2. DiscInv /\ [DiscNext]_dvars => DiscInv'
  <2> SUFFICES ASSUME DiscInv, [DiscNext]_dvars
               PROVE  DiscInv'
    OBVIOUS
  <2>1. ASSUME NEW d \in todo, VisitDir(d)
        PROVE  DiscInv'
    BY <2>1, VisitKeeps
  <2>2. ASSUME NEW f \in left, NEW gone \in BOOLEAN, NEW late \in BOOLEAN,
               LookAtFile(f, gone, late)
        PROVE  DiscInv'
    BY <2>2, LookKeeps
  <2>3. CASE EndRoot
    BY <2>3, EndKeeps
  <2>4. CASE UNCHANGED dvars
    <3>1. RootsInv'
      BY <2>4, SameRoots DEF dvars, Keeps
    <3>2. WalkInv'
      <4>1. Walking' => Walk(Head(roots'), todo', left', found', vanished', seen', bytes')
        BY <2>4, WalkIs DEF dvars, DiscInv, Walking
      <4> QED
        BY <4>1, WalkIsNext
    <3> QED
      BY <2>4, <3>1, <3>2 DEF dvars, DiscInv, ReportInv, CutInv
  <2> QED
    BY <2>1, <2>2, <2>3, <2>4 DEF DiscNext
<1>3. DiscInv => DiscoveryExact
  BY DiscEnds
<1> QED
  BY <1>1, <1>2, <1>3, PTL DEF DiscSpec
=============================================================================

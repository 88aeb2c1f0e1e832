------------------------------ MODULE MCTools ------------------------------
(***************************************************************************)
(* TLC instance of six components that share no state here: the work-graph *)
(* compiler, artifact bundles, migrations, canonical memory, capability    *)
(* discovery and capability invocation.  A behaviour runs one of them; the *)
(* others stay in an initial state.                                        *)
(***************************************************************************)
EXTENDS Compiler, Bundle, Migrations, Memory, Discovery, Invocation, TLC

VARIABLE focus

RawNode(i) ==
  [id |-> i, objective |-> "text", kind |-> "task",
   approval_required |-> FALSE, max_attempts |-> 1, mode |-> "local",
   node_id |-> "none", hidden_placement |-> FALSE]

Plan(nodes, edges) ==
  [id |-> "g", nodes |-> nodes, edges |-> edges, objective |-> "text",
   version |-> 1, status |-> "draft"]

Plain(n) == [i \in 1..n |-> RawNode(i)]
Arcs(n) == {e \in (1..n) \X (1..n) : e[1] # e[2]}
ArcList == <<<<4, 1>>, <<1, 2>>, <<3, 1>>, <<2, 4>>, <<1, 3>>, <<4, 2>>,
             <<2, 1>>, <<3, 4>>, <<1, 4>>, <<2, 3>>, <<4, 3>>, <<3, 2>>>>
Arranged(E) == SelectSeq(ArcList, LAMBDA e : e \in E)

\* Every graph over four nodes, and over three with an edge listed twice.
Graphs4 == {Plan(Plain(4), Arranged(E)) : E \in SUBSET Arcs(4)}
Doubled == {Plan(Plain(3), Arranged(E) \o <<e>>) :
              E \in SUBSET Arcs(3), e \in Arcs(3)}

\* Two nodes of which one differs from a plain one, and malformed edges.
OddNodes ==
  {Plan(<<n, RawNode(2)>>, <<<<2, 1>>>>) :
     n \in {m \in RawNodes(1..2) : m.kind \in {"task", "approval", "other"}}}
OddEdges == {Plan(Plain(2), <<e>>) : e \in (0..3) \X (0..3)}
OddPlans ==
  {[Plan(Plain(2), <<>>) EXCEPT !.id = i, !.objective = o, !.version = v,
                                !.status = s] :
     i \in {"g", "blank"}, o \in {"text", "blank"}, v \in 0..1,
     s \in {"draft", "other"}}

AllSpecs == Graphs4 \cup Doubled \cup OddNodes \cup OddEdges \cup OddPlans
              \cup {Plan(<<>>, <<>>)}

Claim(s, p, text, label) ==
  [subject |-> s, polarity |-> p, text |-> text, label |-> label,
   complete |-> TRUE]

\* Two claims that contradict a third, one of them with a subject the scrubber
\* hides, a label the event log does not know, and one that is refused.
AllProposals ==
  {Claim("sync", "positive", "clean", "unknown"),
   Claim("sync", "negative", "clean", "private"),
   Claim("sync", "negative", "sensitive", "local-only"),
   Claim("sync", "none", "boast", "secret"),
   Claim("sync", "none", "clean", "other")}

\* A root with a capability at every depth, one behind an ignored name, and
\* plain files; and one with more than the limits allow.
File(size, script) == [size |-> size, script |-> script]
SmallLayouts ==
  "near" :> [dirs |-> <<>> :> FALSE @@ <<"a">> :> TRUE @@ <<"a", "b">> :> TRUE
                        @@ <<".git">> :> TRUE,
             files |-> <<"run">> :> File(1, TRUE)
                         @@ <<"a", "tool">> :> File(1, TRUE)
                         @@ <<"a", "b", "deep">> :> File(1, TRUE)
                         @@ <<".git", "hook">> :> File(1, TRUE)
                         @@ <<"notes">> :> File(1, FALSE)]
  @@ "big" :> [dirs |-> <<>> :> FALSE @@ <<"c">> :> TRUE @@ <<"d">> :> FALSE,
               files |-> <<"x">> :> File(1, TRUE) @@ <<"y">> :> File(3, FALSE)
                           @@ <<"c", "x">> :> File(1, TRUE)
                           @@ <<"d", "x">> :> File(1, TRUE)]
SomeConfigs ==
  {[parses |-> p, schema |-> s, roots |-> r] :
     p \in BOOLEAN, s \in {"shiroe.capability-roots/v1", "other"},
     r \in {<<>>, <<"near", "absent", "big">>, <<"big">>}}
NoConfig == [parses |-> FALSE, schema |-> "other", roots |-> <<>>]
HomeOnly == <<"near">>

Init ==
  /\ focus \in {"compile", "bundle", "migrate", "remember", "discover", "invoke"}
  /\ CompilerInit /\ (focus = "compile" \/ spec = Plan(<<>>, <<>>))
  /\ BundleInit /\ (focus = "bundle" \/ dest = Absent)
  /\ MigInit /\ (focus = "migrate" \/ db = Fresh)
  /\ MemInit
  /\ DiscInit /\ (focus = "discover" \/ config = NoConfig)
  /\ InvInit /\ (focus = "invoke" \/ shape = "file")

vars == <<cvars, bvars, mvars, memVars, dvars, ivars, focus>>

Compiling(A) == focus = "compile" /\ A
                  /\ UNCHANGED <<bvars, mvars, memVars, dvars, ivars, focus>>
Bundling(A) == focus = "bundle" /\ A
                 /\ UNCHANGED <<cvars, mvars, memVars, dvars, ivars, focus>>
Migrating(A) == focus = "migrate" /\ A
                  /\ UNCHANGED <<cvars, bvars, memVars, dvars, ivars, focus>>
Remembering(A) == focus = "remember" /\ A
                    /\ UNCHANGED <<cvars, bvars, mvars, dvars, ivars, focus>>
Discovering(A) == focus = "discover" /\ A
                    /\ UNCHANGED <<cvars, bvars, mvars, memVars, ivars, focus>>
Invoking(A) == focus = "invoke" /\ A
                 /\ UNCHANGED <<cvars, bvars, mvars, memVars, dvars, focus>>

Next == \/ Compiling(CompilerNext) \/ Bundling(BundleNext)
        \/ Migrating(MigNext) \/ Remembering(MemNext)
        \/ Discovering(DiscNext) \/ Invoking(InvNext)

\* The fairness of each component, for the component that runs.
Spec == /\ Init /\ [][Next]_vars
        /\ WF_vars(Compiling(CompilerNext))
        /\ \A p \in Openers : WF_vars(Migrating(migrate(p)))
\* The two tools that run by themselves come to an end: the cycle search of
\* the compiler, and a migration unless a process is killed.
ToolsFinish == SearchEnds /\ SomeoneFinishes

\* What no step of the two stores does: delete the last copy of a destination
\* (extract_artifact_bundle), or bring a retired record back other than by a
\* late fold (apply_event).
StoresKeep == LastCopySurvives /\ RetiredStaysRetired
=============================================================================

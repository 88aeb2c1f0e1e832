------------------------------ MODULE MCPolicy ------------------------------
(***************************************************************************)
(* TLC instance of two components that share no state: policy with its     *)
(* approval requests, and the event log on a host that may crash.  A       *)
(* behaviour runs one of them; the other stays in its initial state.       *)
(***************************************************************************)
EXTENDS Policy, MCEventLog

VARIABLE focus

\* A kind with scopes and one that always needs a human.
AllActions == {[kind |-> "fs.write", target |-> <<"src", "a">>],
               [kind |-> "vcs.push", target |-> <<"main">>]}

AllHosts == {<<"h1">>, <<"h2">>}

\* A file that denies pushing and one host, one that allows everything used
\* here below src, with a name that is no kind.
AllContents == {Layer({"vcs.push", "network", "nonsense"}, {}, {}, {}, {<<"h1">>}),
                Layer({}, {"vcs.push", "network", "fs.write"}, {<<"src">>}, {}, {})}

MCInit == Init /\ PolicyInit /\ focus \in {"append", "decide"}

MCNext ==
  \/ focus = "append" /\ Next /\ UNCHANGED <<policyVars, focus>>
  \/ focus = "decide" /\ PolicyNext /\ UNCHANGED <<vars, focus>>

MCSpec == MCInit /\ [][MCNext]_<<vars, policyVars, focus>>
=============================================================================

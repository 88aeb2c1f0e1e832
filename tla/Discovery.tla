----------------------------- MODULE Discovery -----------------------------
(***************************************************************************)
(* Capability discovery (shiroe/capabilities/discovery.py): the configured *)
(* roots are walked one after the other, top-down, within limits on depth, *)
(* files and bytes, and what looks like a capability is reported.          *)
(*                                                                         *)
(* A directory is the sequence of names that leads to it from its root; a  *)
(* file too.  The file system may list a directory in any order, and a     *)
(* file may be gone when it is looked at.                                  *)
(***************************************************************************)
EXTENDS Naturals, Sequences, FiniteSetsExt

CONSTANTS Configs,     \* what config/capability-roots.json may hold
          Layouts,       \* root -> [dirs, files]: what is below it
          DefaultRoots,
          MaxDepth, MaxFiles, MaxBytes,   \* DiscoveryLimits
          Ignored,     \* ignore_dir_names
          MaxVanish    \* bound: files that are gone when looked at

\* dirs: path -> there is a manifest.json in it; files: path -> size and
\* whether it is a script, with a suffix of the two and a shebang.  Every path
\* hangs below the root, by directories.
ASSUME LayoutsAssumption ==
  \A r \in DOMAIN Layouts :
    LET dirs == Layouts[r].dirs
        files == Layouts[r].files
    IN /\ DOMAIN dirs \subseteq Seq(STRING) /\ <<>> \in DOMAIN dirs
       /\ DOMAIN files \subseteq Seq(STRING) \ {<<>>} /\ IsFiniteSet(DOMAIN files)
       /\ \A d \in (DOMAIN dirs \cup DOMAIN files) \ {<<>>} :
            SubSeq(d, 1, Len(d) - 1) \in DOMAIN dirs
       /\ \A d \in DOMAIN dirs : dirs[d] \in BOOLEAN
       /\ \A f \in DOMAIN files :
            files[f].size \in Nat /\ files[f].script \in BOOLEAN

ASSUME RootsAssumption ==
  DefaultRoots \in Seq(STRING) /\ \A c \in Configs : c.roots \in Seq(STRING)

ASSUME LimitsAssumption == {MaxDepth, MaxFiles, MaxBytes, MaxVanish} \subseteq Nat

VARIABLES config,   \* the configuration that was read
          roots,    \* the roots still to walk, the current one first
          todo,     \* directories of the current root yet to visit
          left,     \* files of the current directory yet to look at
          seen, bytes,
          found,    \* what was reported, with its root
          vanished, \* history: files that were gone
          cut       \* history: roots whose walk hit a limit

dvars == <<config, roots, todo, left, seen, bytes, found, vanished, cut>>

\* A file that is missing, is not JSON, names another schema or no roots
\* leaves the default.
_load_roots(c) ==
  IF c.parses /\ c.schema = "shiroe.capability-roots/v1" /\ c.roots # <<>>
  THEN c.roots ELSE DefaultRoots

DiscInit ==
  /\ config \in Configs
  /\ roots = _load_roots(config)
  /\ todo = {<<>>} /\ left = {}
  /\ seen = 0 /\ bytes = 0
  /\ found = {} /\ vanished = {} /\ cut = {}

Walking == roots # <<>> /\ Head(roots) \in DOMAIN Layouts
Tree == Layouts[Head(roots)]
Report(path) == [root |-> Head(roots), path |-> path]
ParentOf(path) == SubSeq(path, 1, Len(path) - 1)
Below(dir, paths) == {q \in paths : q # <<>> /\ ParentOf(q) = dir}

\* Mutant: the names to ignore are left in.
BelowAll(dir) == Below(dir, DOMAIN Tree.dirs)

\* dirnames without those to ignore.
Descends(dir) == {q \in Below(dir, DOMAIN Tree.dirs) : q[Len(q)] \notin Ignored}

\* Top-down: the directories waiting deepest are the children of the last
\* directory that has any left.
Turn == {d \in todo : \A e \in todo : Len(e) =< Len(d)}

\* One round of os.walk's loop: the directory itself is a candidate, and so
\* are its files; too deep, neither it nor what is below is.
VisitDir(d) ==
  /\ Walking /\ left = {} /\ d \in Turn
  /\ IF Len(d) > MaxDepth
     THEN /\ todo' = todo \ {d}
          /\ UNCHANGED <<left, found>>
     ELSE /\ todo' = (todo \ {d}) \cup Descends(d)
          /\ left' = Below(d, DOMAIN Tree.files)
          /\ found' = IF Tree.dirs[d] THEN found \cup {Report(d)} ELSE found
  /\ UNCHANGED <<config, roots, seen, bytes, vanished, cut>>

\* The generator of one root ends; every root has limits of its own.
LeaveRoot ==
  /\ roots' = Tail(roots)
  /\ todo' = {<<>>} /\ left' = {} /\ seen' = 0 /\ bytes' = 0

\* A limit ends the walk of the whole root; stat fails on a file that is gone,
\* which counts as seen.  A file may also go after stat: its bytes are counted,
\* and _looks_like_capability does not find it.
LookAtFile(f, gone, late) ==
  LET size == Tree.files[f].size
  IN /\ Walking /\ f \in left
     /\ gone \/ late => Cardinality(vanished) < MaxVanish
     /\ IF seen + 1 > MaxFiles \/ (~gone /\ bytes + size > MaxBytes)
        THEN /\ LeaveRoot
             /\ cut' = cut \cup {Head(roots)}
             /\ UNCHANGED <<found, vanished>>
        ELSE /\ seen' = seen + 1
             /\ left' = left \ {f}
             /\ bytes' = IF gone THEN bytes ELSE bytes + size
             /\ found' = IF ~gone /\ ~late /\ Tree.files[f].script
                         THEN found \cup {Report(f)} ELSE found
             /\ vanished' = IF gone \/ late THEN vanished \cup {Report(f)} ELSE vanished
             /\ UNCHANGED <<roots, todo, cut>>
     /\ UNCHANGED config

\* The root is done, or it was not there at all.
EndRoot ==
  /\ roots # <<>>
  /\ Walking => todo = {} /\ left = {}
  /\ LeaveRoot
  /\ UNCHANGED <<config, found, vanished, cut>>

DiscNext ==
  \/ \E d \in todo : VisitDir(d)
  \/ \E f \in left, gone, late \in BOOLEAN : LookAtFile(f, gone, late)
  \/ EndRoot

DiscSpec == DiscInit /\ [][DiscNext]_dvars
-----------------------------------------------------------------------------
\* The paths of root r that a person would say are capabilities within reach:
\* the directory they are in is not too deep and on no ignored name.
Reachable(d) == Len(d) =< MaxDepth /\ \A i \in DOMAIN d : d[i] \notin Ignored
Eligible(r) ==
  {d \in DOMAIN Layouts[r].dirs : Reachable(d) /\ Layouts[r].dirs[d]} \cup
  {f \in DOMAIN Layouts[r].files :
     Reachable(ParentOf(f)) /\ Layouts[r].files[f].script}

FoundIn(r) == {c.path : c \in {x \in found : x.root = r}}

\* More files, or more bytes, than the limits allow.
Oversized(r) ==
  LET files == {f \in DOMAIN Layouts[r].files : Reachable(ParentOf(f))}
  IN \/ Cardinality(files) > MaxFiles
     \/ MapThenSumSet(LAMBDA f : Layouts[r].files[f].size, files) > MaxBytes

\* When discovery returns it has reported nothing it should not, and of every
\* root all there is, whatever order the file system lists directories in: it
\* misses what was gone when looked at, and misses more only in a root that
\* really is larger than the limits (discover, _iter_candidates).
DiscoveryExact ==
  roots = <<>> =>
    /\ \A r \in DOMAIN Layouts : FoundIn(r) \subseteq Eligible(r)
    /\ \A r \in cut : Oversized(r)
    /\ \A i \in DOMAIN _load_roots(config) :
         LET r == _load_roots(config)[i]
         IN r \in DOMAIN Layouts \ cut =>
              Eligible(r) \ FoundIn(r) \subseteq
                {v.path : v \in {x \in vanished : x.root = r}}
=============================================================================

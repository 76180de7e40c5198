------------------------------- MODULE EnvMonitor -------------------------------
(***************************************************************************)
(* containment/envstate.py: EnvironmentBaseline and EnvironmentMonitor,    *)
(* the incremental view of the files of a run.  An absolute path is the    *)
(* sequence of its segments, "" for a doubled slash; a file map is a       *)
(* function from the normalised paths of the files that exist to their     *)
(* digests.                                                                *)
(***************************************************************************)
EXTENDS Commit, FiniteSets

CONSTANTS
    Reported,                  \* paths as the collector spells them
    Digests,                   \* contents
    PathPolicy,                \* [immutable_prefixes, mutable_prefixes, ephemeral_prefixes]
    Captured,                  \* what was added to the baseline: <<path, digest>>, in order
    SortedPaths                \* the normalised paths of all files, in the order of sorted()

VARIABLES
    current,                   \* _current
    observations               \* [path, after, timestamp, verdict], in order of arrival

monitorVars == <<current, observations>>

\* posixpath.normpath of an absolute path; the climb above the root stays there.
normalise(path) ==
    FoldLeft(LAMBDA resolved, segment :
                 CASE segment \in {"", "."} -> resolved
                   [] segment = ".." -> IF resolved = <<>> THEN <<>> ELSE Front(resolved)
                   [] OTHER -> Append(resolved, segment),
             <<>>, path)

Absent == "absent"             \* the zero digest: no such file on that side
At(map, p) == IF p \in DOMAIN map THEN map[p] ELSE Absent

\* One entry of a file map; the zero digest takes it out.
Changed_KeepsDeleted(map, path, digest) ==
    IF digest = Absent THEN map
    ELSE [p \in DOMAIN map \cup {path} |-> IF p = path THEN digest ELSE map[p]]
Changed(map, path, digest) ==
    IF digest = Absent THEN [p \in DOMAIN map \ {path} |-> map[p]]
    ELSE [p \in DOMAIN map \cup {path} |-> IF p = path THEN digest ELSE map[p]]

\* EnvironmentBaseline.add for every file captured, sealed before the run.
Baseline ==
    FoldLeft(LAMBDA map, file : Changed(map, normalise(file[1]), file[2]),
             [p \in {} |-> Absent], Captured)

\* The root of a file map, a function of the set of files.
FileLeaf(map, p) == commit("AMES_V1_MERKLE_LEAF", <<p, map[p]>>)
root(map) ==
    merkle_root(FoldLeft(LAMBDA leaves, p :
                             IF p \in DOMAIN map THEN Append(leaves, FileLeaf(map, p)) ELSE leaves,
                         <<>>, SortedPaths))
drifted == root(current) # root(Baseline)

_under(path, prefixes) == \E prefix \in prefixes : IsPrefix(prefix, path)

\* Most restrictive wins, and an unknown region is immutable.
classify_DefaultEphemeral(path) ==
    LET p == normalise(path) IN
    IF _under(p, PathPolicy.immutable_prefixes) THEN "IMMUTABLE"
    ELSE IF _under(p, PathPolicy.mutable_prefixes) THEN "MUTABLE"
    ELSE "EPHEMERAL"
classify(path) ==
    LET p == normalise(path) IN
    IF _under(p, PathPolicy.immutable_prefixes) THEN "IMMUTABLE"
    ELSE IF _under(p, PathPolicy.mutable_prefixes) THEN "MUTABLE"
    ELSE IF _under(p, PathPolicy.ephemeral_prefixes) THEN "EPHEMERAL"
    ELSE "IMMUTABLE"

Judge(path, granted_write_paths) ==
    CASE classify(path) = "IMMUTABLE" -> "IMPOSSIBLE"
      [] classify(path) = "EPHEMERAL" -> "EXPECTED"
      [] OTHER -> IF path \in {normalise(p) : p \in granted_write_paths} THEN "EXPECTED"
                  ELSE "UNEXPLAINED"

MonitorInit == current = Baseline /\ observations = <<>>

\* A MutationObservation normalises its path when it is made.  Its `before`
\* digest must differ from `after` and is not looked at otherwise, so it is
\* left out.
observe(path, after, timestamp, granted_write_paths) ==
    LET p == normalise(path) IN
    /\ current' = Changed(current, p, after)
    /\ observations' = Append(observations,
          [path |-> p, after |-> after, timestamp |-> timestamp,
           verdict |-> Judge(p, granted_write_paths)])

by_verdict(verdict) == {k \in DOMAIN observations : observations[k].verdict = verdict}

containment_failed == by_verdict("IMPOSSIBLE") # {}
===============================================================================

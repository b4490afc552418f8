----------------------------- MODULE Traceability -----------------------------
(***************************************************************************)
(* The check of the work products under docs/ (scripts/check-docs.py),     *)
(* which refuses a commit, against the trace model that                    *)
(* scripts/build-trace-model.py derives: work products are written,        *)
(* changed and deleted, one file per commit.                               *)
(*                                                                         *)
(* The gate is taken as the project sets it when it wants all of it.  A    *)
(* hook that is not installed or cannot run lets a commit pass; what it    *)
(* checks is the tree on disk, here that of the commit; severities and     *)
(* coverage can be lowered, and complete-task checks without coverage      *)
(* (docs-eng-process/updating.md:552-574, project-config.md:70-84,         *)
(* skills-guide.md:606).  What is shown here is what such a gate is worth. *)
(* The parsing of the frontmatter, its schema (a field of another type, an *)
(* unknown field) and the layout of the findings are left out; a document  *)
(* that is no work product is not looked at.                               *)
(***************************************************************************)
EXTENDS Naturals, FiniteSets

CONSTANTS Files, Names,  \* the files of docs/, and the ids work products may have
          Kinds,         \* bound: the types of work products that are written
          Stages,        \* bound: and their statuses
          Targets,       \* bound: the files that are linked to
          MaxRefs,       \* bound: references and links of one document
          NoName, Absent

\* V1_TYPES.
Types == {"vision", "requirement", "work-item", "iteration-plan", "use-case", "test-case",
          "decision"}

\* TRACE_SPINE: what each type of work product may trace from.
TRACE_SPINE ==
    {<<"requirement", "vision">>, <<"use-case", "requirement">>, <<"work-item", "requirement">>,
     <<"iteration-plan", "work-item">>, <<"test-case", "use-case">>,
     <<"test-case", "requirement">>, <<"decision", "vision">>}

COVERAGE_RULES ==
    {[type |-> "requirement", relation |-> "verified-by", target |-> "test-case"],
     [type |-> "work-item", relation |-> "traces-from", target |-> "requirement"]}

Statuses == {"none", "draft", "approved", "implemented", "verified", "obsolete"}
COVERED_STATUSES == {"approved", "implemented", "verified"}

Docs ==
    {d \in [type : Kinds, id : Names \cup {NoName}, status : Stages,
            traces_from : SUBSET Names, verified_by : SUBSET Names, links : SUBSET Targets] :
        Cardinality(d.traces_from) + Cardinality(d.verified_by) + Cardinality(d.links)
            <= MaxRefs}

ASSUME TraceabilityAssumption ==
    /\ NoName \notin Names /\ Kinds \subseteq Types /\ Stages \subseteq Statuses
    /\ Targets \subseteq Files /\ IsFiniteSet(Files) /\ IsFiniteSet(Names)
    /\ Absent \notin Docs

VARIABLE docs   \* the document in each file, or Absent

----------------------------------------------------------------------------
(* check, of a tree t *)

\* discover_instances.
Instances(t) == {f \in Files : t[f] # Absent}

\* id_index.
IdIndex(t, n) == {f \in Instances(t) : t[f].id = n}

DuplicateIds(t) == {n \in Names : Cardinality(IdIndex(t, n)) > 1}

DanglingRefs(t) ==
    {f \in Instances(t) :
        \E n \in t[f].traces_from \cup t[f].verified_by : IdIndex(t, n) = {}}

\* Mistake to detect: an edge is accepted in either direction.
JoinedBySpine(from, to) == {<<from, to>>, <<to, from>>} \cap TRACE_SPINE # {}

\* (this_type, ref_type) in trace_edges.
IsUpstream(from, to) == <<from, to>> \in TRACE_SPINE

BadRefTypes(t) ==
    {f \in Instances(t) :
        \/ \E n \in t[f].traces_from : \E g \in IdIndex(t, n) : ~IsUpstream(t[f].type, t[g].type)
        \/ \E n \in t[f].verified_by : \E g \in IdIndex(t, n) : t[g].type # "test-case"}

BrokenLinks(t) == {f \in Instances(t) : ~(t[f].links \subseteq Instances(t))}

Refs(d, relation) == IF relation = "traces-from" THEN d.traces_from ELSE d.verified_by

\* A status that is missing is covered too.
IsCovered(d) == d.status = "none" \/ d.status \in COVERED_STATUSES

\* coverage_findings.
CoverageGaps(t) ==
    {f \in Instances(t) :
        /\ IsCovered(t[f])
        /\ \E r \in COVERAGE_RULES :
              /\ r.type = t[f].type
              /\ \A n \in Refs(t[f], r.relation) :
                    \A g \in IdIndex(t, n) : t[g].type # r.target}

\* main --coverage: no hard finding.
Passes(t) ==
    /\ DuplicateIds(t) = {}
    /\ DanglingRefs(t) \cup BadRefTypes(t) \cup BrokenLinks(t) \cup CoverageGaps(t) = {}

----------------------------------------------------------------------------
TraceInit == docs = [f \in Files |-> Absent]

\* A commit that writes one file; the hook refuses it unless the tree passes.
Write(f, d) ==
    LET t == [docs EXCEPT ![f] = d]
    IN  /\ Passes(t)
        /\ docs' = t

\* A commit that deletes one.
Delete(f) ==
    /\ docs[f] # Absent
    /\ Write(f, Absent)

TraceNext == \E f \in Files : Delete(f) \/ \E d \in Docs : Write(f, d)

TraceSpec == TraceInit /\ [][TraceNext]_docs

----------------------------------------------------------------------------
(* Properties *)

\* The work products that f traces from.
Upstream(f) == UNION {IdIndex(docs, n) : n \in docs[f].traces_from}

\* check-docs.py:1-33, doc-frontmatter.md:3-11: after any commits the work
\* products can be followed upstream from each of them to one that traces from
\* nothing, never in a circle; what is followed is the one instance of its id;
\* and a covered work item has above it a requirement, a covered requirement a
\* test case to its name, whatever was deleted or retyped.
DocsAreTraceable ==
    /\ docs \in [Files -> Docs \cup {Absent}]
    /\ \A S \in (SUBSET Instances(docs)) \ {{}} : \E f \in S : Upstream(f) \cap S = {}
    /\ \A f \in Instances(docs) : Cardinality(Upstream(f)) = Cardinality(docs[f].traces_from)
    /\ \A f \in Instances(docs) :
          docs[f].status \notin {"draft", "obsolete"} =>
              /\ docs[f].type = "work-item" =>
                    \E g \in Upstream(f) : docs[g].type = "requirement"
              /\ docs[f].type = "requirement" =>
                    \E g \in Instances(docs) :
                        docs[g].id \in docs[f].verified_by /\ docs[g].type = "test-case"
=============================================================================

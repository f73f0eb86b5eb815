--------------------------- MODULE Investigation ---------------------------
(***************************************************************************)
(* The document of an investigation and the seven update actions of        *)
(* investigation.rs run().  An update is one step here: Ledger shows that  *)
(* concurrent commands amount to one append at a time.  An update the code *)
(* refuses (an error and no commit) is not a step.                         *)
(*                                                                         *)
(* Evidence comes and goes independently: commands record it, and the user *)
(* may delete files of the store.                                          *)
(***************************************************************************)
EXTENDS Naturals, Sequences, FiniteSets, SequencesExt, Orders

CONSTANTS Records,      \* evidence that can be recorded about the target
          Kind,         \* Kind[r]: the operation that produced r
          Failed,       \* records whose status is "failed"
          Func,         \* Func[r]: the function r is about
          Nodes,        \* Nodes[r]: boundary of each node of a slice r, or NoBoundary
          NoBoundary,
          Texts,        \* texts of analyst questions
          AnyFunction,  \* a requirement without function_address
          Required,     \* bound: the sets of operations given with --require
          MaxCited,     \* bound: records cited by one command
          MaxRevisions  \* bound: revisions

Operations == {"agent-brief", "card", "ssa-slice", "compare"}

ASSUME RecordsAssumption ==
  /\ DOMAIN Kind = Records /\ DOMAIN Func = Records /\ DOMAIN Nodes = Records
  /\ \A r \in Records : Nodes[r] \in Seq(Range(Nodes[r]))
  /\ Failed \subseteq Records /\ "analyst" \notin Records
  /\ \A r \in Records : Func[r] # AnyFunction
  /\ \A r \in Records : \A b \in Range(Nodes[r]) \ {NoBoundary} : b.function # AnyFunction
  /\ Required \subseteq SUBSET Operations
  /\ MaxRevisions \in Nat \ {0} /\ MaxCited \in Nat

VARIABLES doc,          \* the latest revision
          held          \* records available in the store

dvars == <<doc, held>>

---------------------------------------------------------------------------
(* Issues *)

\* satisfies()
Satisfies(requirement, r) ==
  /\ r \notin Failed
  /\ requirement.operations = {} \/ Kind[r] \in requirement.operations
  /\ requirement.function \in {AnyFunction, Func[r]}

\* requirements(): all --require flags become one requirement.
Requirements(operations) == {[operations |-> operations, function |-> AnyFunction]}

Unresolved == [evidence |-> {}, revision |-> 0]

\* source: the slice a boundary was found in.
Issue(id, source, requirements, revision) ==
  [id |-> id, source |-> source, state |-> "open", supporting |-> {}, contradicting |-> {},
   requirements |-> requirements, resolution |-> Unresolved,
   created |-> revision, updated |-> revision]

QuestionIssue(text, operations, revision) ==
  Issue(text, "analyst", Requirements(operations), revision)

\* Variant: every boundary asks about the function the slice started in.
BoundaryIssueOfRoot(r, boundary, revision) ==
  Issue(boundary, r,
        {[operations |-> IF boundary.limit THEN {"ssa-slice"} ELSE {"card", "ssa-slice"},
          function |-> Func[r]]},
        revision)

\* boundary_issues(), one node: a traversal limit is answered by a larger slice
\* of the root, any other boundary by a card or slice of the function it is in.
BoundaryIssue(r, boundary, revision) ==
  Issue(boundary, r,
        {IF boundary.limit
           THEN [operations |-> {"ssa-slice"}, function |-> Func[r]]
           ELSE [operations |-> {"card", "ssa-slice"}, function |-> boundary.function]},
        revision)

IssueIds(issues) == {issues[i].id : i \in DOMAIN issues}

---------------------------------------------------------------------------
(* Commands *)

\* create()
Created(text, operations) ==
  [revision |-> 1, issues |-> <<QuestionIssue(text, operations, 1)>>,
   observations |-> <<>>, inferences |-> <<>>, history |-> <<"create">>]

DInit ==
  /\ \E text \in Texts, operations \in Required : doc = Created(text, operations)
  /\ held = {}

Commit(action, changed) ==
  /\ doc.revision < MaxRevisions
  /\ doc' = [changed EXCEPT !.revision = doc.revision + 1,
                            !.history = Append(doc.history, action)]
  /\ UNCHANGED held

\* --add-question: the text must be new.
AddQuestion(text, operations) ==
  /\ text \notin IssueIds(doc.issues)
  /\ Commit("add-question",
       [doc EXCEPT !.issues = Append(@, QuestionIssue(text, operations, doc.revision + 1))])

\* Variant: boundaries are pushed without looking for the same key.
PushAlways(boundaries, k) == k \in DOMAIN boundaries

\* A boundary that is already tracked is not pushed again, be it from an earlier
\* revision or from an earlier node of the same command.
PushNew(boundaries, k) ==
  /\ boundaries[k] \notin IssueIds(doc.issues)
  /\ \A j \in 1..(k - 1) : boundaries[j] # boundaries[k]

\* The nodes --node selects, or every boundary of the slice.
Selected(r, nodes) ==
  IF nodes = <<>> THEN Ascending({i \in DOMAIN Nodes[r] : Nodes[r][i] # NoBoundary})
  ELSE {nodes}

\* --add-unknowns: every selected node must be a boundary, and at least one of
\* them must be new.
AddUnknowns(r, nodes) ==
  /\ r \in held /\ Kind[r] = "ssa-slice"
  /\ \E selected \in Selected(r, nodes) :
       LET boundaries == [k \in DOMAIN selected |-> Nodes[r][selected[k]]] IN
       /\ \A k \in DOMAIN selected :
            selected[k] \in DOMAIN Nodes[r] /\ boundaries[k] # NoBoundary
       /\ \E new \in Ascending({k \in DOMAIN selected : PushNew(boundaries, k)}) :
            /\ new # <<>>
            /\ Commit("add-unknowns",
                 [doc EXCEPT !.issues = @ \o
                    [k \in DOMAIN new |-> BoundaryIssue(r, boundaries[new[k]], doc.revision + 1)]])

\* --observe needs evidence; --infer may go without.
Observe(cited) ==
  /\ cited \subseteq held /\ cited # {}
  /\ Commit("observe", [doc EXCEPT !.observations = Append(@, cited)])

Infer(cited) ==
  /\ cited \subseteq held
  /\ Commit("infer", [doc EXCEPT !.inferences = Append(@, cited)])

\* --support, --contradict: also on an issue that is closed.
Support(i, cited) ==
  /\ cited \subseteq held /\ cited # {}
  /\ Commit("support", [doc EXCEPT !.issues[i].supporting = @ \cup cited,
                                   !.issues[i].updated = doc.revision + 1])

Contradict(i, cited) ==
  /\ cited \subseteq held /\ cited # {}
  /\ Commit("contradict", [doc EXCEPT !.issues[i].contradicting = @ \cup cited,
                                      !.issues[i].updated = doc.revision + 1])

Close(i, state, evidence) ==
  Commit("resolve",
    [doc EXCEPT !.issues[i].state = state, !.issues[i].updated = doc.revision + 1,
                !.issues[i].resolution = [evidence |-> evidence, revision |-> doc.revision + 1]])

\* Variant: supporting evidence counts whether or not it is still available.
AnswerUnavailable(i, cited) ==
  LET evidence == cited \cup doc.issues[i].supporting IN
  /\ doc.issues[i].state = "open"
  /\ cited \subseteq held
  /\ \A requirement \in doc.issues[i].requirements :
       \E r \in evidence : Satisfies(requirement, r)
  /\ Close(i, "answered", evidence)

\* Variant: a closed issue can be answered again.
AnswerAgain(i, cited) ==
  LET evidence == cited \cup doc.issues[i].supporting IN
  /\ evidence \subseteq held /\ evidence # {}
  /\ \A requirement \in doc.issues[i].requirements :
       \E r \in evidence : Satisfies(requirement, r)
  /\ Close(i, "answered", evidence)

\* --resolve --disposition answered
Answer(i, cited) ==
  LET evidence == cited \cup doc.issues[i].supporting IN
  /\ doc.issues[i].state = "open"
  /\ evidence \subseteq held /\ evidence # {}
  /\ \A requirement \in doc.issues[i].requirements :
       \E r \in evidence : Satisfies(requirement, r)
  /\ Close(i, "answered", evidence)

\* --resolve --disposition withdrawn|out-of-scope
Dismiss(i, state, cited) ==
  /\ doc.issues[i].state = "open"
  /\ cited \subseteq held
  /\ Close(i, state, cited)

Record(r) ==
  /\ held' = held \cup {r}
  /\ UNCHANGED doc

Delete(r) ==
  /\ held' = held \ {r}
  /\ UNCHANGED doc

\* The --node flags of one command: none, or two of the slice's nodes.
NodeFlags(r) == {<<>>} \cup {<<i, j>> : i, j \in DOMAIN Nodes[r]}

DNext ==
  \/ \E text \in Texts, operations \in Required : AddQuestion(text, operations)
  \/ \E r \in held : \E nodes \in NodeFlags(r) : AddUnknowns(r, nodes)
  \/ \E cited \in {c \in SUBSET held : Cardinality(c) <= MaxCited} :
       \/ Observe(cited) \/ Infer(cited)
       \/ \E i \in DOMAIN doc.issues :
            \/ Support(i, cited) \/ Contradict(i, cited) \/ Answer(i, cited)
            \/ \E state \in {"withdrawn", "out_of_scope"} : Dismiss(i, state, cited)
  \/ \E r \in Records : Record(r) \/ Delete(r)

DSpec == DInit /\ [][DNext]_dvars

---------------------------------------------------------------------------
Closed(issue) == issue.state # "open"

\* run(): every document the actions build passes the checks of
\* validate_document() that depend on what was done before: the history matches
\* the revision, no issue is there twice, a closed state has a resolution and
\* an answer cites evidence.  (The checks of its lines 124-166, the syntax of
\* locations, requirements, the file hint and entry ids, are not modelled.)
AlwaysValid ==
  /\ Len(doc.history) = doc.revision
  /\ \A i, j \in DOMAIN doc.issues : doc.issues[i].id = doc.issues[j].id => i = j
  /\ \A i \in DOMAIN doc.issues :
       LET issue == doc.issues[i] IN
       /\ issue.state \in {"open", "answered", "withdrawn", "out_of_scope"}
       /\ Closed(issue) <=> issue.resolution # Unresolved
       /\ issue.state = "answered" => issue.resolution.evidence # {}

\* What an issue wants to know, going by where it came from: a limit wants a
\* slice of the function whose slice ran into it, another boundary something
\* about the function behind it, a question what was asked for.
Fits(r, issue) ==
  /\ r \notin Failed
  /\ IF issue.source = "analyst"
       THEN \A q \in issue.requirements : q.operations = {} \/ Kind[r] \in q.operations
       ELSE IF issue.id.limit
         THEN Kind[r] = "ssa-slice" /\ Func[r] = Func[issue.source]
         ELSE Kind[r] \in {"card", "ssa-slice"} /\ Func[r] = issue.id.function

\* --add-unknowns and, revisions later, --resolve answered: an issue is
\* answered by evidence about what it came from, and all its evidence is in
\* the store at that moment, also what was attached earlier and may have been
\* deleted since.  (The slice that ran into a limit may itself be cited.)
AnswersFit ==
  [][\A i \in DOMAIN doc.issues :
       doc.issues[i].state # "answered" /\ doc'.issues[i].state = "answered" =>
         LET evidence == doc'.issues[i].resolution.evidence IN
         /\ doc.issues[i].supporting \subseteq evidence /\ evidence \subseteq held
         /\ \E r \in evidence : Fits(r, doc.issues[i])]_dvars

\* docs/agent-workflow.md 580-582: an answer satisfies every declared
\* requirement, so it cites evidence of every operation that --require named.
\* requirements() makes one requirement of all the flags, and satisfies()
\* takes any one of them.
EveryRequirementMet ==
  \A i \in DOMAIN doc.issues : LET issue == doc.issues[i] IN
    issue.source = "analyst" /\ issue.state = "answered" =>
      \A q \in issue.requirements : \A operation \in q.operations :
        \E r \in issue.resolution.evidence : Kind[r] = operation

\* run(): an update never drops or reorders an issue, an observation, an
\* inference or a citation of an earlier revision; and a closed issue keeps its
\* state and its resolution, whatever evidence is attached to it, also when the
\* boundary it stands for is met again.
NothingForgotten ==
  [][/\ \A i \in DOMAIN doc.issues :
          /\ doc'.issues[i].id = doc.issues[i].id
          /\ doc'.issues[i].created = doc.issues[i].created
          /\ doc.issues[i].supporting \subseteq doc'.issues[i].supporting
          /\ doc.issues[i].contradicting \subseteq doc'.issues[i].contradicting
          /\ Closed(doc.issues[i]) =>
               /\ doc'.issues[i].state = doc.issues[i].state
               /\ doc'.issues[i].resolution = doc.issues[i].resolution
     /\ IsPrefix(doc.observations, doc'.observations)
     /\ IsPrefix(doc.inferences, doc'.inferences)]_dvars
=============================================================================

-------------------------- MODULE MutationLifecycle --------------------------
(***************************************************************************)
(* The lifecycle of one mutation of the paired runtime (MutationLifecycle  *)
(* and decide_completion of mutation_state.cpp).  Each method of the class *)
(* is an operator from a lifecycle to the set of lifecycles a successful   *)
(* call leaves: empty where the method refuses.                            *)
(***************************************************************************)
EXTENDS Naturals

Kinds == {"success", "known_not_committed", "indeterminate"}

NewLife == [stage |-> "not_admitted", knowledge |-> "known_not_committed", error |-> FALSE,
            publication |-> "not_required", completion |-> "undecided"]

\* The polarity of the answer.
DecideCompletion(l) ==
    CASE l.knowledge = "known_not_committed" -> "known_not_committed"
      [] l.knowledge = "committed" /\ l.publication = "published" -> "success"
      [] OTHER -> "indeterminate"

When(guard, l) == IF guard THEN {l} ELSE {}
Decided(l) == [l EXCEPT !.stage = "completion_decided", !.completion = DecideCompletion(l)]

Admit(l) == When(l.stage = "not_admitted", [l EXCEPT !.stage = "admitted"])
StageForWriter(l) == When(l.stage = "admitted", [l EXCEPT !.stage = "staged"])
ExpirePreStore(l) ==
    When(l.stage \in {"admitted", "staged"},
         Decided([l EXCEPT !.knowledge = "known_not_committed", !.error = FALSE,
                           !.publication = "not_required"]))
MarkDurableStarted(l) == When(l.stage \in {"admitted", "staged"}, [l EXCEPT !.stage = "durable_started"])

\* The Store's result: committed results owe a publication, indeterminate ones
\* as well, the others are decided at once.
ApplyDurableResult(l) ==
    UNION {LET r == [l EXCEPT !.knowledge = k, !.error = e]
           IN  When(l.stage = "durable_started",
                    CASE k = "committed" ->
                            [r EXCEPT !.stage = "publication_required", !.publication = "required"]
                      [] k = "indeterminate" ->
                            [r EXCEPT !.stage = "indeterminate", !.publication = "required"]
                      [] k = "known_not_committed" -> Decided([r EXCEPT !.publication = "not_required"])) :
           k \in {"committed", "indeterminate", "known_not_committed"}, e \in BOOLEAN}

MarkExceptionAfterDurableStart(l) ==
    When(l.stage = "durable_started",
         [l EXCEPT !.stage = "indeterminate", !.knowledge = "indeterminate", !.error = TRUE,
                   !.publication = "required"])

RequirePublication(l) ==
    When(l.stage \in {"indeterminate", "publication_required"},
         [l EXCEPT !.stage = "publication_required", !.publication = "required"])
MarkPublicationStaged(l) ==
    When(l.stage = "publication_required", [l EXCEPT !.publication = "staged"])

AwaitsPublication(l) ==
    l.stage = "publication_required" \/ l.publication \in {"staged", "required"}
MarkPublished(l) ==
    When(AwaitsPublication(l) /\ l.knowledge # "known_not_committed",
         [l EXCEPT !.stage = "published", !.publication = "published"])
MarkPublicationFailed(l) ==
    When(AwaitsPublication(l), [l EXCEPT !.stage = "indeterminate", !.publication = "failed"])

\* The caller brings the decision; a committed mutation is never called
\* known-not-committed, and a decision is never changed.
Decide(l) ==
    UNION {When(/\ l.stage \in {"published", "indeterminate", "rejected", "expired_pre_store"}
                /\ ~(l.knowledge = "committed" /\ kind = "known_not_committed"),
                [l EXCEPT !.stage = "completion_decided", !.completion = kind]) : kind \in Kinds}
MarkCompleted(l) == When(l.stage = "completion_decided", [l EXCEPT !.stage = "completed"])

Calls(l) ==
    Admit(l) \cup StageForWriter(l) \cup ExpirePreStore(l) \cup MarkDurableStarted(l)
    \cup ApplyDurableResult(l) \cup MarkExceptionAfterDurableStart(l) \cup RequirePublication(l)
    \cup MarkPublicationStaged(l) \cup MarkPublished(l) \cup MarkPublicationFailed(l)
    \cup Decide(l) \cup MarkCompleted(l)

\* More calls than a lifecycle has room for without repeating itself.
LongestLife == 10

AfterCalls(from) ==
    LET reach[n \in 0..LongestLife] ==
            IF n = 0 THEN from
            ELSE LET before == reach[n - 1] IN before \cup UNION {Calls(l) : l \in before}
    IN  reach[LongestLife]

Lifecycles == AfterCalls({NewLife})

\* A mutation completes with the answer its commit and publication justify.
Justified(l) == l.stage = "completed" => l.completion = DecideCompletion(l)

Advance == [l \in Lifecycles |-> {n \in AfterCalls({l}) : Justified(n)}]
=============================================================================

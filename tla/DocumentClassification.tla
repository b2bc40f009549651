----------------------- MODULE DocumentClassification -----------------------
(***************************************************************************)
(* Suggestions for the type of a document                                  *)
(* (services/document_classification.py): rules add candidates one after   *)
(* the other, the five best are offered to an AI provider, whose answer    *)
(* goes before the rest or is missing altogether.                          *)
(*                                                                         *)
(* Confidences are in percent.  A keyword rule is the type it stands for   *)
(* and its confidence, a file the set of rules its name or summary matches.*)
(***************************************************************************)
EXTENDS Integers, Sequences, FiniteSets, Functions

CONSTANTS
    Rules,          \* KEYWORD_RULES and EXTENSION_RULES: sequence of [type, confidence]
    RequiredSets,   \* documents a phase may require: sets of types
    EntryTypes,     \* types an upload form may come with; "none" for no type
    AiAnswers,      \* answers of the provider: sequences of [type, confidence]
    BestCount       \* how many suggestions are kept: five

VARIABLES
    file,           \* the request: [matches, required, current]
    todo,           \* candidates still to be added: sequence of [type, confidence]
    items,          \* _CandidateBuilder: [type -> confidence]
    suggestions,    \* the answer: sequence of [type, confidence, source]
    asked           \* "rules" | "ai" | "done"

classifyVars == <<file, todo, items, suggestions, asked>>

Candidate(t, c) == [type |-> t, confidence |-> c]

\* The types anything is suggested by rules for.
RuleTypes == {Rules[i].type : i \in DOMAIN Rules} \cup (UNION RequiredSets) \cup EntryTypes

\* A rule is never as sure as that a single required type is right: KEYWORD_RULES
\* go up to 0.9, a required one is 0.99.  Requests name finitely many types.
ASSUME ClassifyAssumption ==
    /\ Rules \in Seq([type : RuleTypes, confidence : 0 .. 98])
    /\ \A required \in RequiredSets : IsFiniteSet(required)
    /\ \A ai \in AiAnswers : /\ Len(ai) \in Nat /\ DOMAIN ai = 1 .. Len(ai)
                            /\ \A i \in DOMAIN ai : ai[i].confidence \in Nat
    /\ BestCount \in Nat \ {0}

\* The members of a set in the order of their rank; equals in any order.
Listed(S, rank) ==
    CHOOSE q \in Injection(1 .. Cardinality(S), S) :
        \A i, k \in DOMAIN q : i < k => rank[q[i]] <= rank[q[k]]

\* The elements of a sequence at some of its positions.
Kept(seq, positions) ==
    LET order == Listed(positions, [i \in positions |-> i])
    IN  [k \in 1 .. Cardinality(positions) |-> seq[order[k]]]

\* _rule_suggestions: a single required type, the list of several, the
\* matching rules, the type the form came with.
RuleCandidates(f) ==
    LET required == Listed(f.required, [t \in f.required |-> 0])
        n == Cardinality(f.required)
    IN  [i \in 1 .. n |-> Candidate(required[i], IF n = 1 THEN 96 ELSE 58)]
        \o Kept(Rules, f.matches)
        \o IF f.current = "none" THEN <<>> ELSE <<Candidate(f.current, 55)>>

\* What a candidate counts: five more for a required type, at most 99.
adjusted(c) ==
    IF c.type \notin file.required THEN c.confidence
    ELSE IF c.confidence + 5 < 99 THEN c.confidence + 5 ELSE 99

\* Mutant of add: the last candidate of a type counts, not the best.
AddOverwrites(c) ==
    [t \in DOMAIN items \cup {c.type} |-> IF t = c.type THEN adjusted(c) ELSE items[t]]

\* _CandidateBuilder.add: a type keeps the best of its confidences.
add(c) ==
    IF c.type \in DOMAIN items /\ items[c.type] > adjusted(c) THEN items
    ELSE [t \in DOMAIN items \cup {c.type} |-> IF t = c.type THEN adjusted(c) ELSE items[t]]

AddCandidate ==
    /\ asked = "rules" /\ todo # <<>>
    /\ items' = add(Head(todo))
    /\ todo' = Tail(todo)
    /\ UNCHANGED <<file, suggestions, asked>>

\* The types by confidence; the order of equals is left open here.
Sorted(f) ==
    LET sorted == Listed(DOMAIN f, [t \in DOMAIN f |-> 0 - f[t]])
    IN  [i \in 1 .. Cardinality(DOMAIN f) |->
            [type |-> sorted[i], confidence |-> f[sorted[i]], source |-> "rules"]]

Best(seq) == SubSeq(seq, 1, IF Len(seq) < BestCount THEN Len(seq) ELSE BestCount)

build ==
    /\ asked = "rules" /\ todo = <<>>
    /\ suggestions' = Best(Sorted(items))
    /\ asked' = IF items = <<>> THEN "done" ELSE "ai"
    /\ UNCHANGED <<file, todo, items>>

\* Switched off, not reachable, or an answer that does not fit the schema.
AiFails ==
    /\ asked = "ai"
    /\ asked' = "done"
    /\ UNCHANGED <<file, todo, items, suggestions>>

\* The last answer for a type at the place of its first; the rules' own
\* suggestions for the other types follow.
_merge_ai_and_rule_suggestions(ai) ==
    LET firsts == {i \in DOMAIN ai : \A k \in 1 .. i - 1 : ai[k].type # ai[i].type}
        others == {i \in DOMAIN suggestions : \A k \in DOMAIN ai : ai[k].type # suggestions[i].type}
        last(t) == CHOOSE i \in DOMAIN ai :
                      ai[i].type = t /\ \A k \in i + 1 .. Len(ai) : ai[k].type # t
        answered == [i \in DOMAIN ai |->
            LET confidence == ai[last(ai[i].type)].confidence
            IN  [type |-> ai[i].type, source |-> "ai",
                 confidence |-> IF confidence > 100 THEN 100 ELSE confidence]]
    IN  Best(Kept(answered, firsts) \o Kept(suggestions, others))

AiSuggests(ai) ==
    /\ asked = "ai"
    /\ suggestions' = IF ai = <<>> THEN suggestions ELSE _merge_ai_and_rule_suggestions(ai)
    /\ asked' = "done"
    /\ UNCHANGED <<file, todo, items>>

ClassifyInit ==
    /\ file \in [matches : SUBSET DOMAIN Rules, required : RequiredSets, current : EntryTypes]
    /\ todo = RuleCandidates(file)
    /\ items = <<>> /\ suggestions = <<>>
    /\ asked = "rules"

ClassifyNext ==
    \/ AddCandidate \/ build \/ AiFails
    \/ \E ai \in AiAnswers : AiSuggests(ai)

ClassifySpec == ClassifyInit /\ [][ClassifyNext]_classifyVars

-----------------------------------------------------------------------------
(* Properties *)

\* Every variable keeps to its type.
ClassifyTypeOK ==
    /\ Len(suggestions) <= BestCount
    /\ \A t \in DOMAIN items : items[t] \in 0 .. 99
    /\ asked \in {"rules", "ai", "done"}

Suggested == {suggestions[i].type : i \in DOMAIN suggestions}

\* What a user is offered: no type twice; of the rules' suggestions the best
\* first, so that the only type a phase requires is the first one whatever
\* the file is called, and a type that is left out is no better than the
\* last; an answer of the provider hides no rule's suggestion as long as
\* there is room.
SuggestionsAreBest ==
    asked # "rules" =>
        /\ Cardinality(Suggested) = Len(suggestions)
        /\ \A i, k \in DOMAIN suggestions :
              i < k /\ suggestions[i].source = "rules" =>
                 /\ suggestions[k].source = "rules"
                 /\ suggestions[i].confidence >= suggestions[k].confidence
        /\ asked = "ai" =>
              /\ \A t \in file.required :
                    Cardinality(file.required) = 1 => suggestions[1].type = t
              /\ \A t \in DOMAIN items \ Suggested, i \in DOMAIN suggestions :
                    items[t] <= suggestions[i].confidence
        /\ Len(suggestions) < BestCount => DOMAIN items \subseteq Suggested
=============================================================================

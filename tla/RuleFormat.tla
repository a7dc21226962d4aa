------------------------------ MODULE RuleFormat ------------------------------
(* A rule file: what of its text is refused, what is said of it without        *)
(* refusing it, what the loader keeps, and what the engine then does with it   *)
(* (backend/rules, the descriptors of backend/consts, the entry of each        *)
(* algorithm of backend/autograph). A file is the sequence of its lines, a key *)
(* and a value each; a value is a text, a number or a list of texts. Syntax    *)
(* errors, sizes and the wording of problems are left out.                     *)
EXTENDS Correlation

CONSTANTS
    Durations,      \* the spans that are durations, by their text
    Slots,          \* consts.CorrelationSlots
    MaxSequence,    \* consts.RuleMaxSequence
    MaxWindow,      \* consts.TemporalMaxWindow
    MaxDepth        \* consts.LineageMaxDepth

ASSUME RuleFormatAssumption ==
    /\ "" \notin DOMAIN Durations /\ \A text \in DOMAIN Durations : Durations[text] \in Int
    /\ {MaxSequence, MaxWindow, MaxDepth} \subseteq Nat

\* A text is what is in it, and whether there is white space around it.
Text(body) == [body |-> body, padded |-> FALSE]
Padded(body) == [body |-> body, padded |-> TRUE]
Trimmed(text) == Text(text.body)
IsBlank(text) == text.body = ""
TrimAll(texts) == [i \in DOMAIN texts |-> Trimmed(texts[i])]

\* What a field that is not in the file reads as.
Zero ==
    [format_version |-> 0, name |-> Text(""), description |-> Text(""), relation_type |-> Text(""),
     algorithm |-> Text(""), sequence |-> <<>>, labels |-> <<>>, match_fields |-> <<>>,
     match_scope |-> Text(""), window_within |-> Text(""), window_total |-> Text(""),
     lineage_create_ids |-> <<>>, lineage_depth |-> 0, channels |-> <<>>]
Fields == DOMAIN Zero

\* The last line of a field counts.
Lines(file, key) == {i \in DOMAIN file : file[i].key = key}
Decode(file) ==
    [f \in Fields |-> IF Lines(file, f) = {} THEN Zero[f] ELSE file[Max(Lines(file, f))].value]
UnknownFields(file) == {file[i].key : i \in DOMAIN file} \ Fields

\* A reformatted file: each key where it first stands, with its last value.
Pretty(file) ==
    FoldLeftDomain(LAMBDA out, i :
                       IF i # Min(Lines(file, file[i].key)) THEN out
                       ELSE Append(out, file[Max(Lines(file, file[i].key))]), <<>>, file)

-----------------------------------------------------------------------------
(* What the algorithms read.                                                   *)

Reads ==
    [sequence |-> {},
     field    |-> {"match_fields", "match_scope"},
     temporal |-> {"window_within", "window_total", "match_fields", "match_scope"},
     lineage  |-> {"lineage_create_ids", "lineage_depth", "match_scope"}]
RequiresSequence(algorithm) == algorithm # "lineage"

AlgorithmOf(s) == IF IsBlank(s.algorithm) THEN "sequence" ELSE s.algorithm.body
ScopeOf(s) == IF IsBlank(s.match_scope) THEN "computer" ELSE s.match_scope.body
CreateIDs(s) ==
    LET given == {s.lineage_create_ids[i].body : i \in DOMAIN s.lineage_create_ids} \ {""}
    IN IF given = {} THEN {"4688"} ELSE given
Malformed(text) == ~IsBlank(text) /\ text.body \notin DOMAIN Durations
Length(text) == IF IsBlank(text) \/ Malformed(text) THEN 0 ELSE Durations[text.body]

-----------------------------------------------------------------------------
(* Validation. A problem is a field and the element of it, or 0.               *)

BlankEntries(s, field) == {<<field, i>> : i \in {j \in DOMAIN s[field] : IsBlank(s[field][j])}}
If(wrong, field) == IF wrong THEN {<<field, 0>>} ELSE {}

SequenceProblems(s) ==
    If(Len(s.sequence) \notin 2 .. MaxSequence, "sequence")
    \cup BlankEntries(s, "sequence")
    \cup If(Len(s.sequence) >= 2 /\ Len(s.labels) > Len(s.sequence) - 1, "labels")
ScopeProblems(s) == If(ScopeOf(s) \notin {"computer", "global"}, "match_scope")
MatchFieldProblems(s) ==
    {<<"match_fields", i>> : i \in {j \in DOMAIN s.match_fields :
        \/ s.match_fields[j].body \notin Slots
        \/ \E k \in 1 .. j - 1 : s.match_fields[k].body = s.match_fields[j].body}}
DurationProblems(s, field) ==
    If(~IsBlank(s[field]) /\ (Malformed(s[field]) \/ Length(s[field]) \notin 1 .. MaxWindow), field)
WindowProblems(s) ==
    If(IsBlank(s.window_within), "window_within")
    \cup DurationProblems(s, "window_within") \cup DurationProblems(s, "window_total")
    \cup If(/\ Length(s.window_within) > 0
            /\ Length(s.window_total) \in 1 .. Length(s.window_within) - 1, "window_total")
LineageProblems(s) ==
    BlankEntries(s, "lineage_create_ids") \cup If(s.lineage_depth \notin 0 .. MaxDepth, "lineage_depth")

\* A format of the future and an unknown algorithm are reported alone.
Problems(s) ==
    LET algorithm == AlgorithmOf(s)
        reads(field) == field \in Reads[algorithm]
    IN IF s.format_version > 1 THEN {<<"format_version", 0>>}
       ELSE IF algorithm \notin DOMAIN Reads THEN {<<"algorithm", 0>>}
       ELSE If(IsBlank(s.name), "name")
            \cup (IF RequiresSequence(algorithm) THEN SequenceProblems(s) ELSE {})
            \cup ScopeProblems(s)
            \cup If(algorithm = "field" /\ s.match_fields = <<>>, "match_fields")
            \cup (IF reads("match_fields") THEN MatchFieldProblems(s) ELSE {})
            \cup (IF reads("window_within") THEN WindowProblems(s) ELSE {})
            \cup (IF reads("lineage_create_ids") THEN LineageProblems(s) ELSE {})
            \cup BlankEntries(s, "channels")
Accepted(s) == Problems(s) = {}

\* The fields that are set and the algorithm, if it is one, does not read.
IsSet(s, f) == IF f \in {"window_within", "window_total"} THEN ~IsBlank(s[f]) ELSE s[f] # Zero[f]
Inert(s) ==
    LET algorithm == AlgorithmOf(s)
        reads     == Reads[algorithm] \cup (IF RequiresSequence(algorithm) THEN {"sequence"} ELSE {})
    IN IF algorithm \notin DOMAIN Reads THEN {}
       ELSE {f \in {"match_fields", "window_within", "window_total", "lineage_create_ids",
                    "lineage_depth", "sequence"} \ reads : IsSet(s, f)}
Advisories(file) ==
    LET s == Decode(file)
    IN (IF IsBlank(s.description) THEN {"description"} ELSE {})
       \cup (IF s.channels = <<>> THEN {"channels"} ELSE {})
       \cup Inert(s) \cup UnknownFields(file)

\* What the loader keeps of a rule it accepts.
\* Mutant: the event ids stay as they were typed.
NormalizeFields(s) ==
    [s EXCEPT
        !.format_version = IF @ = 0 THEN 1 ELSE @,
        !.name = Trimmed(@), !.description = Trimmed(@),
        !.relation_type = IF @ \in {Text("temporal"), Text("default")} THEN @ ELSE Text("correlation"),
        !.algorithm = Text(AlgorithmOf(s)), !.match_scope = Text(ScopeOf(s)), !.labels = TrimAll(@),
        !.match_fields = TrimAll(@), !.lineage_create_ids = TrimAll(@), !.channels = TrimAll(@),
        !.window_within = Trimmed(@), !.window_total = Trimmed(@)]
Normalize(s) == [NormalizeFields(s) EXCEPT !.sequence = TrimAll(@)]

-----------------------------------------------------------------------------
(* The engine. An event of a log is known by the text of its event id.         *)

Compiled(s) ==
    LET algorithm == AlgorithmOf(s)
    IN [algorithm |-> algorithm, seq |-> s.sequence, scope |-> ScopeOf(s),
        slots |-> IF "match_fields" \in Reads[algorithm]
                  THEN {s.match_fields[i].body : i \in DOMAIN s.match_fields} ELSE {},
        within |-> Length(s.window_within), total |-> Length(s.window_total), depth |-> s.lineage_depth]

\* Each algorithm looks again at what it needs, and finds nothing for a rule that lacks it.
Refused(rule) ==
    \/ RequiresSequence(rule.algorithm) /\ Len(rule.seq) < 2
    \/ ~(rule.slots \subseteq Slots)
    \/ rule.algorithm = "field" /\ rule.slots = {}
    \/ rule.algorithm = "temporal" /\ rule.within <= 0

\* Lineage reads the event ids as creations, exits and the rest.
AsProcesses(s, log) ==
    [i \in DOMAIN log |->
        [log[i] EXCEPT !.event = IF @.body \in CreateIDs(s) THEN "create"
                                 ELSE IF @.body = "4689" THEN "exit" ELSE "other"]]
Evaluate(s, log) ==
    LET rule == Compiled(s)
    IN IF Refused(rule) THEN [matches |-> <<>>, dropped |-> 0]
       ELSE Generate(rule, IF rule.algorithm = "lineage" THEN AsProcesses(s, log) ELSE log)
=============================================================================

----------------------------- MODULE RootCause -----------------------------
(***************************************************************************)
(* The answer of root_cause.py: Groq is asked first, then Anthropic; when  *)
(* neither is configured or says anything usable, a template answers.      *)
(*                                                                         *)
(* A reply of a model is what its provider returned: "failed" (an error, a *)
(* timeout, an answer without the expected fields), "empty", "prose" (no   *)
(* JSON to be found), "loose" (JSON after the repairs of _safe_json_loads) *)
(* or "json"; the last two carry a summary, empty when there is none, and  *)
(* suggestions.  Of the suggestions those that are strings are taken; the  *)
(* summary is taken as it comes.                                           *)
(***************************************************************************)
EXTENDS LogPipeline

CONSTANTS Text,      \* sentences: summaries, suggestions, resolutions
          NoText,    \* an empty one
          Junk,      \* JSON where a string belongs
          NotAsked,  \* the provider has no API key
          SummaryTemplate, FixTemplate   \* _SUMMARY_TEMPLATES, _FIX_TEMPLATES

Category == {"infrastructure", "env_issue", "flaky_test", "dependency_error", "build_config", "unknown"}

ASSUME RootCauseAssumption ==
    /\ NoText \notin Text
    /\ Junk \notin Text \cup {NoText}
    /\ SummaryTemplate \in [Category -> Text]
    /\ FixTemplate \in [Category -> [1..3 -> Text]]

Reply == [kind    : {"failed", "empty", "prose", "loose", "json"},
          summary : Text \cup {NoText, Junk},
          fixes   : Seq(Text \cup {NoText, Junk})]

\* PatternMatch.resolution_text, the most similar pattern's first.
Resolutions(found) == [k \in DOMAIN found |-> found[k].resolution]

-----------------------------------------------------------------------------
Severity(category) ==
    CASE category \in {"infrastructure", "env_issue"} -> "P1"
      [] category = "unknown" -> "P3"
      [] OTHER -> "P2"

Known(category) == IF category \in Category THEN category ELSE "unknown"

FallbackSummary(category) == SummaryTemplate[Known(category)]

\* Mutant of FallbackFixes: the list is not cut again.
FallbackFixes_Uncut(category, matches) ==
    LET template == FixTemplate[Known(category)]
    IN  IF matches # <<>> /\ matches[1] # NoText THEN <<matches[1]>> \o template ELSE template

\* How the most similar failure was resolved goes first.
FallbackFixes(category, matches) ==
    LET template == FixTemplate[Known(category)]
    IN  StartOf(3, IF matches # <<>> /\ matches[1] # NoText THEN <<matches[1]>> \o template
                    ELSE template)

-----------------------------------------------------------------------------
GroqSays(reply)      == reply # NotAsked /\ reply.kind \in {"json", "loose"}
AnthropicSays(reply) == reply # NotAsked /\ reply.kind = "json"

Answer(summary, fixes, category) ==
    [summary_text |-> summary, fix_suggestions |-> fixes, severity |-> Severity(category)]

IsText(item) == item \in Text \cup {NoText}

Adopt(reply, category) ==
    Answer(IF reply.summary = NoText THEN FallbackSummary(category) ELSE reply.summary,
           StartOf(3, Kept(reply.fixes, {k \in DOMAIN reply.fixes : IsText(reply.fixes[k])})),
           category)

Analyse(category, matches, groq, anthropic) ==
    IF GroqSays(groq) THEN Adopt(groq, category)
    ELSE IF AnthropicSays(anthropic) THEN Adopt(anthropic, category)
    ELSE Answer(FallbackSummary(category), FallbackFixes(category, matches), category)

-----------------------------------------------------------------------------
(***************************************************************************)
(* Whatever the two models do, the analysis has a summary, at most three   *)
(* suggestions, all of them strings, and the severity of the kind of error *)
(* which no model has a say in.  Without a usable reply the summary is a   *)
(* text, there is a suggestion, and how the most similar failure was       *)
(* resolved, if that is known, comes first.                                *)
(***************************************************************************)
AnswerSound(category, matches, groq, anthropic) ==
    LET answer == Analyse(category, matches, groq, anthropic)
    IN  /\ answer.summary_text # NoText
        /\ answer.fix_suggestions \in Seq(Text \cup {NoText})
        /\ Len(answer.fix_suggestions) <= 3
        /\ answer.severity = Severity(category)
        /\ ~GroqSays(groq) /\ ~AnthropicSays(anthropic) =>
             /\ answer.summary_text \in Text
             /\ answer.fix_suggestions # <<>>
             /\ matches # <<>> /\ matches[1] # NoText => answer.fix_suggestions[1] = matches[1]
=============================================================================

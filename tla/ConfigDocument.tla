--------------------------- MODULE ConfigDocument ---------------------------
(***************************************************************************)
(* What the configuration file of a run means (pkg/surveycore/config): how *)
(* a version 2 document and a legacy object become a run request, and back.*)
(*                                                                         *)
(* A decoded JSON value is a record whose field "is" names its type:       *)
(* Missing, Number(n), Numeral(n) for a text that spells n, Flag(b),       *)
(* Word(t) for any other text, List(s) and Table(f).  Numbers are          *)
(* integers, the target alpha counts in hundredths.                        *)
(***************************************************************************)
EXTENDS Integers, Sequences, SequencesExt

Missing    == [is |-> "missing"]
Number(n)  == [is |-> "number", value |-> n]
Numeral(n) == [is |-> "numeral", value |-> n]
Flag(b)    == [is |-> "flag", value |-> b]
Word(t)    == [is |-> "word", value |-> t]
List(s)    == [is |-> "list", value |-> s]
Table(f)   == [is |-> "table", value |-> f]

Failure == [failed |-> TRUE]

-----------------------------------------------------------------------------
(* values.go                                                               *)

intValue(raw, fallback) == IF raw.is \in {"number", "numeral"} THEN raw.value ELSE fallback

positiveInt(raw, fallback) ==
  IF intValue(raw, fallback) < 1 THEN fallback ELSE intValue(raw, fallback)

boolValue(raw, fallback) ==
  CASE raw.is = "flag"   -> raw.value
    [] raw.is = "number" -> raw.value # 0
    [] raw.is = "numeral" /\ raw.value \in {0, 1} -> raw.value = 1
    [] raw.is = "word" /\ raw.value \in {"true", "yes", "on"} -> TRUE
    [] raw.is = "word" /\ raw.value \in {"false", "no", "off", ""} -> FALSE
    [] OTHER -> fallback

AtLeast(low, n) == IF n < low THEN low ELSE n
AtMost(high, n) == IF n > high THEN high ELSE n

intPair(raw, low, high) ==
  IF raw.is # "list" \/ Len(raw.value) < 2 THEN <<low, high>>
  ELSE LET left == AtLeast(0, intValue(raw.value[1], low))
       IN  <<left, AtLeast(left, intValue(raw.value[2], high))>>

-----------------------------------------------------------------------------
(* normalize.go                                                            *)

Providers == {"wjx", "qq", "credamo"}

\* The text of an address is the provider it names.
normalizeProvider(raw, url) ==
  IF raw.is = "word" /\ raw.value \in Providers THEN raw.value
  ELSE IF url.is = "word" /\ url.value \in Providers THEN url.value ELSE "wjx"

KnownWord(raw, known, fallback) ==
  IF raw.is = "word" /\ raw.value \in known THEN raw.value ELSE fallback

normalizeProxySource(raw) == KnownWord(raw, {"benefit", "custom", "default"}, "default")

normalizeReverseFillFormat(raw) ==
  KnownWord(raw, {"auto", "wjx_sequence", "wjx_score", "wjx_text"}, "auto")

\* In hundredths; what is not a positive number becomes 85.
normalizeTargetAlpha(raw) ==
  IF intValue(raw, 85) <= 0 THEN 85 ELSE AtMost(100, intValue(raw, 85))

Agents == {"wechat", "mobile", "pc"}

DefaultRatios == [a \in Agents |-> IF a = "pc" THEN 34 ELSE 33]

normalizeRandomUARatios(raw) ==
  LET Ratio(a) == IF a \in DOMAIN raw.value THEN intValue(raw.value[a], -1) ELSE -1
  IN  IF /\ raw.is = "table"
         /\ \A a \in Agents : Ratio(a) \in 0..100
         /\ Ratio("wechat") + Ratio("mobile") + Ratio("pc") = 100
      THEN [a \in Agents |-> Ratio(a)] ELSE DefaultRatios

longest == 1800

\* Equal ends become a tenth around them, rounded half up.
normalizeAnswerDuration(raw) ==
  LET pair == intPair(raw, 60, 120)
  IN  IF pair[1] # pair[2] THEN <<AtMost(longest, pair[1]), AtMost(longest, pair[2])>>
      ELSE IF pair[1] <= 0 THEN <<60, 120>>
      ELSE <<AtMost(longest, (9 * pair[1] + 5) \div 10), AtMost(longest, (11 * pair[1] + 5) \div 10)>>

\* Blank and "ungrouped" names and repetitions are left out.
normalizeStringList(raw) ==
  IF raw.is # "list" THEN <<>>
  ELSE FoldLeft(LAMBDA names, item :
                  IF item.value \in {"", "ungrouped"} \cup Range(names) THEN names
                  ELSE Append(names, item.value),
                <<>>, raw.value)

-----------------------------------------------------------------------------
(* legacy.go.  A legacy object maps names of fields to values; fields that *)
(* are not numbers are decoded by the rules, entries and questions readers,*)
(* of which only the failure matters.                                      *)

legacyNumbers ==
  {"target", "threads", "submit_interval", "answer_duration", "psycho_target_alpha",
   "reverse_fill_start_row", "reverse_fill_threads", "random_ua_ratios"}

legacyFlags ==
  {"random_ip_enabled", "random_ua_enabled", "fail_stop_enabled", "pause_on_aliyun_captcha",
   "reliability_mode_enabled", "reverse_fill_enabled"}

legacyTexts ==
  {"url", "survey_title", "survey_provider", "answer_datetime_window", "proxy_source",
   "custom_proxy_api", "proxy_area_code", "reverse_fill_source_path", "reverse_fill_format"}

legacyLists == {"dimension_groups"}

\* Decoded into structures, which can fail; a list of texts never does.
legacyDecoded == {"answer_rules", "question_entries", "questions_info"}

legacyIgnored ==
  {"ai_mode", "ai_provider", "ai_api_key", "ai_base_url", "ai_api_protocol", "ai_model",
   "ai_system_prompt"}

legacyFields ==
  legacyNumbers \cup legacyFlags \cup legacyTexts \cup legacyLists \cup legacyDecoded
    \cup legacyIgnored

Field(raw, name) == IF name \in DOMAIN raw THEN raw[name] ELSE Missing

Execution(raw) ==
  [target   |-> positiveInt(Field(raw, "target"), 1),
   threads  |-> positiveInt(Field(raw, "threads"), 1),
   interval |-> intPair(Field(raw, "submit_interval"), 0, 0),
   duration |-> normalizeAnswerDuration(Field(raw, "answer_duration")),
   failStop |-> boolValue(Field(raw, "fail_stop_enabled"), TRUE),
   pauseOnCaptcha |-> boolValue(Field(raw, "pause_on_aliyun_captcha"), TRUE)]

ReverseFillPlan(raw) ==
  [enabled  |-> boolValue(Field(raw, "reverse_fill_enabled"), FALSE),
   format   |-> normalizeReverseFillFormat(Field(raw, "reverse_fill_format")),
   startRow |-> positiveInt(Field(raw, "reverse_fill_start_row"), 1),
   threads  |-> positiveInt(Field(raw, "reverse_fill_threads"),
                            positiveInt(Field(raw, "threads"), 1))]

PsychometricPolicy(raw) ==
  [enabled |-> boolValue(Field(raw, "reliability_mode_enabled"), TRUE),
   alpha   |-> normalizeTargetAlpha(Field(raw, "psycho_target_alpha"))]

Network(raw) ==
  [randomProxy |-> boolValue(Field(raw, "random_ip_enabled"), FALSE),
   source      |-> normalizeProxySource(Field(raw, "proxy_source")),
   randomUA    |-> boolValue(Field(raw, "random_ua_enabled"), FALSE),
   ratios      |-> normalizeRandomUARatios(Field(raw, "random_ua_ratios"))]

\* A version 2 document without network settings.
NoNetwork == [randomProxy |-> FALSE, source |-> "", randomUA |-> FALSE, ratios |-> <<>>]

\* Weights of an old entry are a list, or a table as in version 2.
decodeAnswerPlan(raw) ==
  LET Table2(w) == IF w.is = "list" THEN [options |-> w.value, rows |-> <<>>] ELSE w.value
      Decoded(e) == [kind |-> e.kind, mode |-> e.mode,
                     probabilities |-> Table2(e.probabilities), custom |-> Table2(e.custom)]
      entries == Field(raw, "question_entries")
  IN  IF entries = Missing THEN {} ELSE {Decoded(e) : e \in Range(entries.value)}

Undecodable(raw) == \E name \in legacyDecoded \cap DOMAIN raw : raw[name].is = "undecodable"

TextOf(raw) == IF raw.is = "word" THEN raw.value ELSE ""

migrateLegacyPayload(raw) ==
  IF DOMAIN raw \ legacyFields # {} \/ Undecodable(raw) THEN Failure
  ELSE [provider  |-> normalizeProvider(Field(raw, "survey_provider"), Field(raw, "url")),
        definitionProvider |-> TextOf(Field(raw, "survey_provider")),
        execution |-> Execution(raw), reverseFill |-> ReverseFillPlan(raw),
        psychometrics |-> PsychometricPolicy(raw),
        dimensions |-> normalizeStringList(Field(raw, "dimension_groups")),
        answers |-> decodeAnswerPlan(raw)]

-----------------------------------------------------------------------------
(* document.go, codec.go, and the reading half of store.go.                *)

ConfigDocumentFromRunRequest(request) ==
  [version |-> 2, unknownFields |-> FALSE, request |-> request, network |-> NoNetwork]

migrateLegacyDocument(raw) ==
  IF migrateLegacyPayload(raw) = Failure THEN Failure
  ELSE [ConfigDocumentFromRunRequest(migrateLegacyPayload(raw)) EXCEPT !.network = Network(raw)]

\* model.WeightTable.Validate
Structured(w) ==
  /\ w.options = <<>> \/ w.rows = <<>>
  /\ \A r \in DOMAIN w.rows : w.rows[r] # <<>>

SomePositive(values) == values = <<>> \/ \E i \in DOMAIN values : values[i] > 0

validatePositiveWeights(kind, w) ==
  CASE kind \in {"single", "dropdown", "scale", "score", "multiple"} -> SomePositive(w.options)
    [] kind = "matrix" -> \A r \in DOMAIN w.rows : SomePositive(w.rows[r])
    [] OTHER -> TRUE

hasWeightValues(w) == w.options # <<>> \/ w.rows # <<>>

validateAnswerWeights(strategies) ==
  \A s \in strategies :
    /\ Structured(s.probabilities) /\ Structured(s.custom)
    /\ validatePositiveWeights(s.kind, IF s.mode = "custom" /\ hasWeightValues(s.custom)
                                       THEN s.custom ELSE s.probabilities)

firstNonEmpty(a, b) == IF a # "" THEN a ELSE b

RunRequestFromConfigDocument(document) ==
  LET provider == firstNonEmpty(document.request.provider, document.request.definitionProvider)
  IN  IF document.version # 2 \/ ~validateAnswerWeights(document.request.answers) THEN Failure
      ELSE [document.request EXCEPT !.provider = provider, !.definitionProvider = provider]

DeserializeConfigDocument(document) ==
  IF document.unknownFields \/ document.version # 2 THEN Failure ELSE document

\* The request of an empty document, and what stands for it before.
EmptyRequest == [empty |-> TRUE]

\* content: [is |-> "absent" | "blank" | "torn" | "legacy" | "v2", value].
LoadDocument(content) ==
  CASE content.is = "v2"     -> DeserializeConfigDocument(content.value)
    [] content.is = "legacy" -> migrateLegacyDocument(content.value)
    [] OTHER                 -> Failure

\* Unless strict, whatever cannot be read counts as an empty document.
Load(content, strict) ==
  IF LoadDocument(content) # Failure THEN RunRequestFromConfigDocument(LoadDocument(content))
  ELSE IF strict THEN Failure ELSE EmptyRequest

=============================================================================

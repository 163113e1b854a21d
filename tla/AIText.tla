------------------------------- MODULE AIText -------------------------------
(***************************************************************************)
(* The answer of a language model to an open question                      *)
(* (pkg/surveycore/runtime/ai*.go): which service is asked, how an address *)
(* that does not speak the protocol is tried again with the other, and     *)
(* what counts as an answer.                                               *)
(*                                                                         *)
(* A text is the sequence of its parts between "||", "" a blank part.  A   *)
(* profile is [mode, provider, key, base, protocol, model]; base is ""     *)
(* when there is none, "plain" for an address that names no protocol, else *)
(* the path it ends in.  A service maps an endpoint to its reply, a record *)
(* with a status, "ok", "mismatch" for an error that reads like a wrong    *)
(* address, or "error", and with what the protocol replies: [choices] of   *)
(* chat completions, [output, items] of responses, [texts] of the free     *)
(* service.  A choice or item is the sequence of its parts, each a text.   *)
(***************************************************************************)
EXTENDS Integers, Sequences, SequencesExt

NoAnswer == <<>>

BlankText == <<"">>

NotBlank(texts) == SelectSeq(texts, LAMBDA t : t # BlankText)

\* One text per blank, or for a single blank the first of several.
normalizeAIAnswers(raw, blanks) ==
  LET given == NotBlank(raw)
  IN  CASE blanks > 1  -> IF Len(given) = blanks THEN given ELSE NoAnswer
        [] given = <<>> -> NoAnswer
        [] OTHER        -> <<given[1]>>

\* A text for several blanks is taken apart.
normalizeProviderAnswer(text, blanks) ==
  normalizeAIAnswers(IF blanks > 1 THEN [i \in DOMAIN text |-> <<text[i]>>] ELSE <<text>>, blanks)

\* One text below another: a piece that goes on below is not blank on its own.
Below(above, text) ==
  LET meeting == CASE Last(above) = "" -> Head(text)
                   [] Head(text) = ""  -> Last(above)
                   [] OTHER            -> Last(above) \o "\n" \o Head(text)
  IN  Front(above) \o <<meeting>> \o Tail(text)

\* extractAITextParts, its parts one below the other.
JoinedParts(content) ==
  LET given == NotBlank(content)
  IN  IF given = <<>> THEN BlankText ELSE FoldLeft(Below, given[1], Tail(given))

\* The first choice only, whatever the others hold.
ChatText(reply) == IF reply.choices = <<>> THEN BlankText ELSE JoinedParts(reply.choices[1])

\* The text the reply sums itself up in, else its first item with a text.
ResponsesText(reply) ==
  LET given == NotBlank(<<reply.output>> \o [i \in DOMAIN reply.items |-> JoinedParts(reply.items[i])])
  IN  IF given = <<>> THEN BlankText ELSE given[1]

ProtocolAnswer(protocol, reply, blanks) ==
  IF reply.status # "ok" THEN NoAnswer
  ELSE normalizeProviderAnswer(IF protocol = "responses" THEN ResponsesText(reply)
                               ELSE ChatText(reply), blanks)

\* The fields a profile leaves empty are those of the client.
resolveAIProfile(profile, client) ==
  [f \in DOMAIN profile |->
     IF f \in {"key", "base", "model"} /\ profile[f] = "" THEN client[f] ELSE profile[f]]

normalizeAIAPIProtocol(protocol) ==
  IF protocol \in {"chat_completions", "responses"} THEN protocol ELSE "auto"

Endpoint(protocol, explicit) == [protocol |-> protocol, explicit |-> explicit]

resolveAIEndpoint(base, protocol) ==
  CASE base \in {"chat_completions", "responses"} -> Endpoint(base, TRUE)
    [] base = "completions"                       -> Endpoint("unsupported", TRUE)
    [] normalizeAIAPIProtocol(protocol) = "responses" -> Endpoint("responses", FALSE)
    [] OTHER                                      -> Endpoint("chat_completions", FALSE)

Complete(p) == p.key # "" /\ (p.provider = "custom" => p.base # "" /\ p.model # "")

callProviderAI(p, blanks, service) ==
  LET endpoint == resolveAIEndpoint(IF p.base = "" THEN "plain" ELSE p.base, p.protocol)
      retried  == /\ endpoint = Endpoint("chat_completions", FALSE)
                  /\ service[endpoint.protocol].status = "mismatch"
                  /\ normalizeAIAPIProtocol(p.protocol) = "auto"
      spoken   == IF retried THEN "responses" ELSE endpoint.protocol
  IN  IF ~Complete(p) \/ endpoint.protocol = "unsupported" THEN NoAnswer
      ELSE ProtocolAnswer(spoken, service[spoken], blanks)

\* known: the official session has a user and a device id.
callFreeAI(known, blanks, service) ==
  IF known /\ service["free"].status = "ok" THEN normalizeAIAnswers(service["free"].texts, blanks)
  ELSE NoAnswer

\* defaultAITextResolver, with the profile of the request and the client's.
resolveAIText(profile, client, blanks, service) ==
  LET p == resolveAIProfile(profile, client)
  IN  IF p.mode \in {"", "free"} THEN callFreeAI(client.known, blanks, service)
      ELSE callProviderAI(p, blanks, service)

-----------------------------------------------------------------------------
(* run_ai.go: the strategies of one job.  flags holds the AI flag of every *)
(* blank of a question with several.                                       *)

entryAIEnabled(e) ==
  /\ e.kind \in {"text", "multi_text"}
  /\ e.ai \/ (e.flags # <<>> /\ \A i \in DOMAIN e.flags : e.flags[i])

\* Of a question with no inputs listed, blanks is 0.
textBlankCount(blanks, e) ==
  CASE blanks > 0       -> blanks
    [] e.flags # <<>>   -> Len(e.flags)
    [] Len(e.texts) > 1 -> Len(e.texts)
    [] OTHER            -> 1

\* fills holds the text to write beside every option; this one stands for the
\* model's.
AIFill == <<"__AI_FILL__">>

entryHasAIOptionFill(e) == AIFill \in Range(e.fills)

applyAIOptionFillTexts(e, answer) ==
  [e EXCEPT !.fills = [i \in DOMAIN e.fills |-> IF e.fills[i] = AIFill THEN answer ELSE e.fills[i]]]

applyAITextAnswer(e, answers) == [e EXCEPT !.kind = "text", !.texts = answers, !.options = <<1>>]

=============================================================================

-------------------------- MODULE SurveyRun_proofs --------------------------
(***************************************************************************)
(* Proofs about one call of RunWithExecutionOptions, for any number of     *)
(* workers, failures and jobs and every request of sound questions and     *)
(* strategies: the counters the distribution is corrected by are exact.    *)
(*                                                                         *)
(* That is not inductive: settling adds what was reserved when the answers *)
(* were drawn, so the invariant must follow a job from its configuration   *)
(* on.  Prepared says that the configuration stays sound and in what order *)
(* the hooks were added; Placed, that a job has one worker and is recorded *)
(* exactly once it is submitted; Answering, that a question kept to a      *)
(* ratio is still kept to it after every hook (the recursion over the      *)
(* hooks is unfolded by the least hook that would break it), and that the  *)
(* reservations are the answers; Counts then follows, by adding one to a   *)
(* finite set at a time.                                                   *)
(*                                                                         *)
(* The second part is about what those counters are for, the module        *)
(* Correction: for every table of weights, even with negative ones, every  *)
(* persona, dimension and count, the corrected weights never overrule the  *)
(* target.  The factor grows with the gap (rounding included), so fewer    *)
(* answers never mean a smaller weight; the order enforced afterwards      *)
(* keeps that.                                                             *)
(*                                                                         *)
(* The third part is about the plan of the scale questions.  Its quotas    *)
(* are fair: rounding by largest remainders leaves less than one sample    *)
(* for each share that was not whole.  And it is followed: the hook of the *)
(* plan is the last, the entries it leaves have one option with a weight,  *)
(* and neither the persona nor the correction can draw another; PlanInv    *)
(* carries that from the configuration of a job to what is recorded.       *)
(*                                                                         *)
(* The fourth part is about what a job submits of the worksheet, of the    *)
(* model's answers and of the strategies.  A question of which something   *)
(* is expected is changed by one hook at most, so their order does not     *)
(* matter; an entry with one option left is answered with it, whatever was *)
(* counted before; and OverrideInv carries that through failures and       *)
(* retries, together with the stages that decide which hooks there are.    *)
(***************************************************************************)
EXTENDS SurveyRun, Correction, FiniteSetTheorems, SequenceTheorems,
        WellFoundedInduction, TLAPS

Busy == {"configure", "build", "submit", "settle"}

HookNames == {"reverse_fill", "persona", "ai", "psychometrics"}

\* The preparation: what its stages may change and what they may not.
Prepared ==
  /\ request \in Requests
  /\ cfg = [definition |-> cfg.definition, strategies |-> cfg.strategies,
            target |-> cfg.target]
  /\ options = [target |-> options.target, threads |-> options.threads]
  /\ cfg.target \in Nat /\ options.target \in Nat
  /\ \A q \in cfg.definition : SoundQuestion(q)
  /\ \A num \in DOMAIN cfg.strategies : SoundEntry(cfg.strategies[num])
  /\ hooks \in Seq(HookNames)
  /\ stage = "reverse_fill" => hooks = <<>>
  /\ samples = <<>> => "reverse_fill" \notin Range(hooks)
  /\ "psychometrics" \in Range(hooks) =>
       \A key \in DOMAIN plan : \A j \in 0..(sampleCount - 1) : plan[key][j] \in Int

Resting ==
  stage \notin {"running", "done"} =>
    /\ DOMAIN recorded = {} /\ DOMAIN stats = {}
    /\ \A w \in Workers : workers[w].phase = "idle"

\* A busy worker has a job of the run, which is recorded once it is submitted.
Place(w) ==
  /\ workers[w] = [phase |-> workers[w].phase, job |-> workers[w].job,
                   attempt |-> workers[w].attempt, entries |-> workers[w].entries,
                   answers |-> workers[w].answers]
  /\ workers[w].phase \in Busy \cup {"idle"}
  /\ workers[w].phase \in Busy => stage = "running" /\ Job(w) \in 0..(next - 1)
  /\ workers[w].phase \in Busy \ {"settle"} => Job(w) \notin DOMAIN recorded
  /\ workers[w].phase = "settle" =>
       Job(w) \in DOMAIN recorded /\ recorded[Job(w)] = workers[w].answers

Apart(v, w) ==
  v # w /\ workers[v].phase \in Busy /\ workers[w].phase \in Busy => Job(v) # Job(w)

Placed ==
  /\ next \in Nat /\ DOMAIN recorded \subseteq 0..(next - 1)
  /\ DOMAIN workers = Workers /\ DOMAIN pending = Workers
  /\ \A w \in Workers : Place(w)
  /\ \A v, w \in Workers : Apart(v, w)

Numbers == {q.num : q \in cfg.definition}

\* An answer has the shape its question asks for.
Shaped(q, answer) ==
  /\ q.kind \in ChoiceKinds => answer.kind = "choice"
  /\ q.kind = "matrix" =>
       answer.kind = "matrix" /\ DOMAIN answer.indexes = 1..AtLeast(1, q.rows)

\* What is kept to a ratio stays so through the hooks, and is reserved as it is
\* answered.
StaysStrict(w) ==
  workers[w].phase \in {"build", "submit", "settle"} =>
    \A num \in Numbers : Counted(num) => isStrictRatioEntry(workers[w].entries[num])

Answered(w) ==
  workers[w].phase \in {"submit", "settle"} =>
    /\ DOMAIN workers[w].answers = Numbers
    /\ \A num \in Numbers : Shaped(Question(cfg.definition, num), workers[w].answers[num])
    /\ pending[w] = Reserved(workers[w].entries, workers[w].answers)

Answering == samples = <<>> => \A w \in Workers : StaysStrict(w) /\ Answered(w)

Counts ==
  samples = <<>> =>
    \A num \in Numbers :
      LET q == Question(cfg.definition, num)
      IN  Counted(num) /\ q.kind \in ChoiceKinds \cup {"matrix"} =>
            \A k \in Places(q) : Taken(k) = (IF k \in DOMAIN stats THEN stats[k] ELSE 0)

RunInv == Prepared /\ Resting /\ Placed /\ Answering /\ Counts

-----------------------------------------------------------------------------
(* Least elements, weights and plans                                       *)

\* A non-empty set of natural numbers has a least element.
LEMMA LeastExists ==
  ASSUME NEW S, S \subseteq Nat, S # {}
  PROVE  \E x \in S : \A y \in S : x <= y
<1> DEFINE below == OpToRel(<, Nat)
<1>1. IsWellFoundedOn(below, Nat)
  BY NatLessThanWellFounded
<1>2. \A x, y \in Nat : <<y, x>> \in below <=> y < x
  BY DEF OpToRel
<1> HIDE DEF below
<1>3. PICK x \in S : \A y \in S : ~(<<y, x>> \in below)
  BY <1>1, WFMin
<1>4. ASSUME NEW y \in S PROVE x <= y
  <2>1. x \in Nat /\ y \in Nat
    OBVIOUS
  <2>2. ~(y < x)
    BY <1>2, <1>3, <2>1, Zenon
  <2> QED
    BY <2>1, <2>2
<1> QED
  BY <1>4

LEMMA MinIsLeast ==
  ASSUME NEW S, S \subseteq Nat, S # {}
  PROVE  Min(S) \in S /\ \A x \in S : Min(S) <= x
BY LeastExists DEF Min

\* A set that holds 0 and the successor of what it holds, as far as n, holds
\* all numbers as far as n.
LEMMA CountsUpTo ==
  ASSUME NEW n \in Nat, NEW S, 0 \in S, \A k \in 1..n : k - 1 \in S => k \in S
  PROVE  n \in S /\ \A k \in 0..n : k \in S
<1> DEFINE missing == {k \in 0..n : k \notin S}
<1> SUFFICES ASSUME missing # {} PROVE FALSE
  OBVIOUS
<1>1. PICK k \in missing : \A i \in missing : k <= i
  <2>1. missing \subseteq Nat
    OBVIOUS
  <2> HIDE DEF missing
  <2> QED
    BY <2>1, LeastExists
<1>2. k \in 1..n /\ k - 1 \in 0..n /\ k - 1 \notin missing
  BY <1>1
<1> QED
  BY <1>1, <1>2

\* One option of a one-hot table is wanted, whatever choice it is made of.
LEMMA OneHotIsPositive ==
  ASSUME NEW n \in Int, NEW c \in Int
  PROVE  oneHot(n, c) \in Seq(Int) /\ Positive(oneHot(n, c)) # {}
<1> DEFINE m == AtLeast(1, n)
           k == Clamp(c, 0, m - 1) + 1
           table == [i \in 1..m |-> IF i = k THEN 1 ELSE 0]
<1>1. m \in Nat /\ m >= 1
  BY DEF AtLeast
<1>2. k \in 1..m
  BY <1>1 DEF Clamp
<1> HIDE DEF m, k
<1>3. table \in Seq(Int) /\ DOMAIN table = 1..m
  BY <1>1
<1>4. table[k] = 1
  BY <1>2
<1>5. k \in Positive(table)
  BY <1>2, <1>3, <1>4 DEF Positive
<1>6. oneHot(n, c) = table
  BY DEF oneHot, m, k
<1> QED
  BY <1>3, <1>5, <1>6

LEMMA CountIsNatural ==
  ASSUME NEW q, SoundQuestion(q), NEW e, SoundEntry(e)
  PROVE  optionCount(q, e) \in Nat /\ optionCount(q, e) >= 2
<1>1. q.options \in Nat /\ Len(e.custom) \in Nat /\ Len(e.options) \in Nat
  BY DEF SoundQuestion, SoundEntry
<1> QED
  BY <1>1 DEF optionCount, AtLeast

\* What is planned is one of the options an item counts.
LEMMA ChoiceIsOption ==
  ASSUME NEW item, item.count \in Nat, item.count >= 1, item.scores \in Seq(Int),
         NEW score \in 0..(item.count - 1)
  PROVE  choiceIndexForScore(item, score) \in 0..(item.count - 1)
<1> DEFINE hits == {c \in DOMAIN item.scores : item.scores[c] = score}
           chosen == IF hits = {} THEN score ELSE Min(hits) - 1
<1>1. chosen \in Int
  <2>1. hits \subseteq Nat
    OBVIOUS
  <2>2. hits # {} => Min(hits) \in Nat
    BY <2>1, MinIsLeast
  <2> QED
    BY <2>2
<1>2. choiceIndexForScore(item, score) = Clamp(chosen, 0, item.count - 1)
  BY DEF choiceIndexForScore
<1> HIDE DEF chosen
<1> QED
  BY <1>1, <1>2 DEF Clamp

\* A planned item is made of one question and its entry.
LEMMA ItemsAreSound ==
  ASSUME NEW questions, \A q \in questions : SoundQuestion(q),
         NEW entries, \A num \in DOMAIN entries : SoundEntry(entries[num]),
         NEW item \in PlannedItems(questions, entries)
  PROVE  item.count \in Nat /\ item.count >= 2 /\ item.scores \in Seq(Int)
<1>1. PICK q \in questions : q.num \in DOMAIN entries
                             /\ item \in blueprintItems(q, entries[q.num])
  BY DEF PlannedItems, buildBlueprint
<1>2. \E row : item = newItem(q, entries[q.num], row)
  BY <1>1 DEF blueprintItems
<1>3. /\ item.count = optionCount(q, entries[q.num])
      /\ item.scores = IF q.kind = "single" THEN q.scores ELSE <<>>
  BY <1>2 DEF newItem
<1>4. SoundQuestion(q) /\ SoundEntry(entries[q.num])
  BY <1>1
<1> QED
  BY <1>3, <1>4, CountIsNatural DEF SoundQuestion

LEMMA PlansAreInts ==
  ASSUME NEW questions, \A q \in questions : SoundQuestion(q),
         NEW entries, \A num \in DOMAIN entries : SoundEntry(entries[num]),
         NEW n \in Nat, NEW p \in JointPlans(PlannedItems(questions, entries), n),
         NEW key \in DOMAIN p, NEW j \in 0..(n - 1)
  PROVE  p[key][j] \in Int
<1> DEFINE items == PlannedItems(questions, entries)
<1>1. PICK item \in items : p[key] \in Arrangements(item, n)
  BY DEF JointPlans
<1>2. item.count \in Nat /\ item.count >= 1 /\ item.scores \in Seq(Int)
  BY <1>1, ItemsAreSound
<1>3. PICK f \in [0..(n - 1) -> 0..(item.count - 1)] :
        p[key] = [i \in 0..(n - 1) |-> choiceIndexForScore(item, f[i])]
  BY <1>1 DEF Arrangements
<1>4. p[key][j] = choiceIndexForScore(item, f[j]) /\ f[j] \in 0..(item.count - 1)
  BY <1>3
<1> QED
  BY <1>2, <1>4, ChoiceIsOption

-----------------------------------------------------------------------------
(* The hooks keep what is kept to a ratio                                  *)

\* Entries for the same questions, sound, and strict where those of the run are.
Keeps(entries) ==
  /\ DOMAIN entries = DOMAIN cfg.strategies
  /\ \A num \in DOMAIN entries :
       /\ SoundEntry(entries[num])
       /\ isStrictRatioEntry(cfg.strategies[num]) => isStrictRatioEntry(entries[num])

\* An entry keeps its mode, and a table with a weight takes the place of others.
LEMMA StrictByOptions ==
  ASSUME NEW e, isStrictRatioEntry(e), NEW f, f.mode = e.mode, Positive(f.options) # {}
  PROVE  isStrictRatioEntry(f)
BY DEF isStrictRatioEntry

\* run_ai.go: the model's text replaces the options of a text question only.
LEMMA AIKeeps ==
  ASSUME NEW e, SoundEntry(e), NEW num, NEW service
  PROVE  LET f == applyAITextAnswers(num, e, service)
         IN  SoundEntry(f) /\ (isStrictRatioEntry(e) => isStrictRatioEntry(f))
<1> DEFINE Kept(f) == /\ SoundEntry(f) /\ f.mode = e.mode
                      /\ isStrictRatioEntry(e) => isStrictRatioEntry(f)
<1>1. ASSUME NEW answer PROVE Kept(applyAIOptionFillTexts(e, answer))
  BY DEF applyAIOptionFillTexts, SoundEntry, isStrictRatioEntry
<1>2. ASSUME NEW f, Kept(f), NEW answers PROVE Kept(applyAITextAnswer(f, answers))
  <2> DEFINE g == applyAITextAnswer(f, answers)
  <2>1. SoundEntry(g) /\ g.mode = f.mode /\ g.options = <<1>>
    BY <1>2 DEF applyAITextAnswer, SoundEntry
  <2>2. 1 \in Positive(g.options)
    BY <2>1 DEF Positive
  <2> HIDE DEF g
  <2>3. isStrictRatioEntry(e) => isStrictRatioEntry(g)
    BY <1>2, <2>1, <2>2, StrictByOptions
  <2> QED
    BY <1>2, <2>1, <2>3 DEF g
<1>3. Kept(e)
  OBVIOUS
<1> HIDE DEF Kept
<1>4. Kept(applyAITextAnswers(num, e, service))
  BY <1>1, <1>2, <1>3 DEF applyAITextAnswers
<1> QED
  BY <1>4 DEF Kept

\* psychometrics/plan.go: the planned option is the only one left, in a table
\* that takes the place of the caller's.
LEMMA SampleKeeps ==
  ASSUME NEW q, SoundQuestion(q), NEW e, SoundEntry(e), NEW p, NEW j,
         \A key \in DOMAIN p : p[key][j] \in Int
  PROVE  LET f == applyQuestionSample(q, e, p, j)
         IN  SoundEntry(f) /\ (isStrictRatioEntry(e) => isStrictRatioEntry(f))
<1> DEFINE n == optionCount(q, e)
           rows == {r \in 1..AtLeast(1, q.rows) : <<q.num, r>> \in DOMAIN p}
           Kept(r) == IF r \in DOMAIN e.rows /\ e.rows[r] # <<>> THEN e.rows[r] ELSE e.options
           table == [r \in 1..AtLeast(1, q.rows) |->
                       IF r \in rows THEN oneHot(n, p[<<q.num, r>>][j]) ELSE Kept(r)]
           alone == [e EXCEPT !.options = oneHot(n, p[<<q.num, NoRow>>][j]),
                              !.rows = <<>>, !.custom = <<>>, !.customRows = <<>>]
           byRow == [e EXCEPT !.rows = table,
                              !.options = <<>>, !.custom = <<>>, !.customRows = <<>>]
<1>1. n \in Int
  BY CountIsNatural
<1>2. CASE <<q.num, NoRow>> \in DOMAIN p
  <2> DEFINE hot == oneHot(n, p[<<q.num, NoRow>>][j])
  <2>1. hot \in Seq(Int) /\ Positive(hot) # {}
    BY <1>1, <1>2, OneHotIsPositive
  <2> HIDE DEF hot
  <2>2. SoundEntry(alone) /\ alone.mode = e.mode /\ Positive(alone.options) # {}
    <3>1. alone = [e EXCEPT !.options = hot, !.rows = <<>>, !.custom = <<>>, !.customRows = <<>>]
      BY DEF hot
    <3> HIDE DEF alone
    <3>2. /\ DOMAIN alone = DOMAIN e
          /\ alone.options = hot /\ alone.custom = <<>> /\ alone.mode = e.mode
      BY <3>1 DEF SoundEntry
    <3> QED
      BY <2>1, <3>2 DEF SoundEntry
  <2>3. applyQuestionSample(q, e, p, j) = alone
    BY <1>2 DEF applyQuestionSample
  <2> HIDE DEF alone
  <2> QED
    BY <2>2, <2>3, StrictByOptions
<1>3. CASE <<q.num, NoRow>> \notin DOMAIN p /\ q.kind = "matrix" /\ rows # {}
  <2>1. PICK r \in rows : TRUE
    BY <1>3
  <2>2. Positive(oneHot(n, p[<<q.num, r>>][j])) # {}
    BY <1>1, <2>1, OneHotIsPositive
  <2>3. r \in DOMAIN table /\ Positive(table[r]) # {}
    BY <2>1, <2>2
  <2>4. applyQuestionSample(q, e, p, j) = byRow
    BY <1>3 DEF applyQuestionSample
  <2> HIDE DEF table
  <2>5. SoundEntry(byRow) /\ byRow.mode = e.mode /\ byRow.rows = table
    BY DEF SoundEntry
  <2>6. table[r] \in Range(byRow.rows)
    BY <2>3, <2>5 DEF Range
  <2> HIDE DEF byRow
  <2>7. isStrictRatioEntry(e) => isStrictRatioEntry(byRow)
    BY <2>3, <2>5, <2>6 DEF isStrictRatioEntry
  <2> QED
    BY <2>4, <2>5, <2>7
<1>4. CASE <<q.num, NoRow>> \notin DOMAIN p /\ ~(q.kind = "matrix" /\ rows # {})
  <2>1. applyQuestionSample(q, e, p, j) = e
    BY <1>4 DEF applyQuestionSample
  <2> QED
    BY <2>1
<1> QED
  BY <1>2, <1>3, <1>4

LEMMA AppliedKeeps ==
  ASSUME Prepared, NEW entries, Keeps(entries), NEW w, NEW service,
         NEW hook \in Range(hooks), hook # "reverse_fill",
         Job(w) \in Nat, Applicable(hook, w, service)
  PROVE  Keeps(Applied(hook, entries, w, service))
<1>1. CASE hook = "ai"
  <2>1. Applied(hook, entries, w, service) =
          [num \in DOMAIN entries |-> applyAITextAnswers(num, entries[num], service)]
    BY <1>1 DEF Applied
  <2> QED
    BY <2>1, AIKeeps DEF Keeps
<1>2. CASE hook = "psychometrics"
  <2>1. Applied(hook, entries, w, service) =
          [num \in DOMAIN entries |->
             IF \E q \in cfg.definition : q.num = num
             THEN applyQuestionSample(CHOOSE q \in cfg.definition : q.num = num,
                                      entries[num], plan, Job(w))
             ELSE entries[num]]
    BY <1>2 DEF Applied, ApplySample
  <2>2. \A key \in DOMAIN plan : plan[key][Job(w)] \in Int
    <3>1. sampleCount \in Nat
      BY DEF Prepared, sampleCount, AtLeast
    <3>2. Job(w) \in 0..(sampleCount - 1)
      BY <1>2, <3>1 DEF Applicable
    <3> QED
      BY <1>2, <3>2 DEF Prepared
  <2>3. ASSUME NEW num, \E q \in cfg.definition : q.num = num
        PROVE  LET q == CHOOSE r \in cfg.definition : r.num = num IN SoundQuestion(q)
    BY <2>3 DEF Prepared
  <2> DEFINE f == Applied(hook, entries, w, service)
  <2> SUFFICES ASSUME NEW num \in DOMAIN entries
               PROVE  /\ SoundEntry(f[num])
                      /\ isStrictRatioEntry(entries[num]) => isStrictRatioEntry(f[num])
    BY <2>1 DEF Keeps
  <2>4. SoundEntry(entries[num])
    BY DEF Keeps
  <2>5. CASE \E q \in cfg.definition : q.num = num
    <3> DEFINE q == CHOOSE r \in cfg.definition : r.num = num
    <3>1. f[num] = applyQuestionSample(q, entries[num], plan, Job(w))
      BY <2>1, <2>5
    <3>2. SoundQuestion(q)
      BY <2>3, <2>5
    <3> HIDE DEF q, f
    <3> QED
      BY <2>2, <2>4, <3>1, <3>2, SampleKeeps
  <2>6. CASE ~\E q \in cfg.definition : q.num = num
    BY <2>1, <2>4, <2>6
  <2> QED
    BY <2>5, <2>6
<1>3. CASE hook \notin {"ai", "psychometrics"}
  BY <1>3 DEF Applied
<1> QED
  BY <1>1, <1>2, <1>3

\* A function that is defined from one argument to the next exists as far as its
\* arguments go: Configured's, which applies the hooks in order.
LEMMA ConfiguredInOrder ==
  ASSUME hooks \in Seq(HookNames), NEW w, NEW service
  PROVE  \E after : /\ \A k \in 0..Len(hooks) : after[k] =
                         IF k = 0 THEN cfg.strategies
                         ELSE Applied(hooks[k], after[k - 1], w, service)
                    /\ Configured(w, service) = after[Len(hooks)]
<1> DEFINE Upto(n, f) ==
             f = [k \in 0..n |-> IF k = 0 THEN cfg.strategies
                                 ELSE Applied(hooks[k], f[k - 1], w, service)]
           missing == {n \in 0..Len(hooks) : ~\E f : Upto(n, f)}
<1>1. Len(hooks) \in Nat
  OBVIOUS
<1>2. missing = {}
  <2> SUFFICES ASSUME missing # {} PROVE FALSE
    OBVIOUS
  <2>1. PICK n \in missing : \A m \in missing : n <= m
    <3>1. missing \subseteq Nat
      BY <1>1
    <3> HIDE DEF missing
    <3> QED
      BY <3>1, LeastExists
  <2>2. n \in 0..Len(hooks) /\ ~\E f : Upto(n, f)
    BY <2>1
  <2>3. CASE n = 0
    <3>1. Upto(0, [k \in 0..0 |-> cfg.strategies])
      OBVIOUS
    <3> QED
      BY <2>2, <2>3, <3>1
  <2>4. CASE n # 0
    <3>1. n - 1 \in 0..Len(hooks) /\ n - 1 \notin missing
      BY <1>1, <2>1, <2>2, <2>4
    <3>2. PICK f : Upto(n - 1, f)
      BY <3>1
    <3> DEFINE g == [k \in 0..n |-> IF k = n THEN Applied(hooks[n], f[n - 1], w, service)
                                    ELSE f[k]]
    <3>3. ASSUME NEW k \in 0..n
          PROVE  g[k] = IF k = 0 THEN cfg.strategies
                        ELSE Applied(hooks[k], g[k - 1], w, service)
      <4>1. CASE k = n
        <5>1. g[n] = Applied(hooks[n], f[n - 1], w, service) /\ g[n - 1] = f[n - 1]
          BY <1>1, <2>2, <2>4
        <5> QED
          BY <2>4, <4>1, <5>1
      <4>2. CASE k # n
        <5>1. k \in 0..(n - 1) /\ (k # 0 => k - 1 \in 0..(n - 1))
          BY <1>1, <2>2, <4>2
        <5>2. f[k] = IF k = 0 THEN cfg.strategies
                     ELSE Applied(hooks[k], f[k - 1], w, service)
          BY <3>2, <5>1
        <5>3. g[k] = f[k] /\ (k # 0 => g[k - 1] = f[k - 1])
          BY <1>1, <2>2, <4>2, <5>1
        <5> QED
          BY <5>2, <5>3
      <4> QED
        BY <4>1, <4>2
    <3>4. DOMAIN g = 0..n /\ g = [k \in 0..n |-> g[k]]
      OBVIOUS
    <3> HIDE DEF g
    <3>5. Upto(n, g)
      BY <3>3, <3>4
    <3> QED
      BY <2>2, <3>5
  <2> QED
    BY <2>3, <2>4
<1> DEFINE after == CHOOSE f : Upto(Len(hooks), f)
<1>3. Upto(Len(hooks), after)
  <2>1. Len(hooks) \notin missing /\ Len(hooks) \in 0..Len(hooks)
    BY <1>1, <1>2
  <2>2. \E f : Upto(Len(hooks), f)
    BY <2>1
  <2> QED
    BY <2>2
<1>4. Configured(w, service) = after[Len(hooks)]
  BY Zenon DEF Configured
<1> HIDE DEF after
<1>5. \A k \in 0..Len(hooks) : after[k] =
        IF k = 0 THEN cfg.strategies ELSE Applied(hooks[k], after[k - 1], w, service)
  BY <1>3
<1> QED
  BY <1>4, <1>5

\* runtime/run.go: hook after hook, what is kept to a ratio stays so.
LEMMA HooksKeep ==
  ASSUME Prepared, samples = <<>>, NEW w, Job(w) \in Nat, NEW service,
         \A hook \in Range(hooks) : Applicable(hook, w, service)
  PROVE  \E after : /\ \A k \in 0..Len(hooks) :
                         /\ Keeps(after[k])
                         /\ after[k] = IF k = 0 THEN cfg.strategies
                                       ELSE Applied(hooks[k], after[k - 1], w, service)
                    /\ Configured(w, service) = after[Len(hooks)]
<1>1. hooks \in Seq(HookNames) /\ Len(hooks) \in Nat
  BY DEF Prepared
<1>2. PICK after : /\ \A k \in 0..Len(hooks) : after[k] =
                        IF k = 0 THEN cfg.strategies
                        ELSE Applied(hooks[k], after[k - 1], w, service)
                   /\ Configured(w, service) = after[Len(hooks)]
  BY <1>1, ConfiguredInOrder
<1> DEFINE kept == {k \in 0..Len(hooks) : Keeps(after[k])}
<1>3. 0 \in kept
  <2>1. 0 \in 0..Len(hooks) /\ after[0] = cfg.strategies
    BY <1>1, <1>2
  <2> QED
    BY <2>1 DEF Keeps, Prepared
<1>4. ASSUME NEW k \in 1..Len(hooks), k - 1 \in kept PROVE k \in kept
  <2>1. k \in 0..Len(hooks) /\ Keeps(after[k - 1])
    BY <1>1, <1>4
  <2>2. after[k] = Applied(hooks[k], after[k - 1], w, service)
    BY <1>2, <2>1
  <2>3. hooks[k] \in Range(hooks)
    BY <1>1 DEF Range
  <2>4. hooks[k] # "reverse_fill"
    BY <2>3 DEF Prepared
  <2>5. Keeps(after[k])
    BY <2>1, <2>2, <2>3, <2>4, AppliedKeeps
  <2> QED
    BY <2>1, <2>5
<1>5. \A k \in 0..Len(hooks) : k \in kept
  <2> HIDE DEF kept
  <2> QED
    BY <1>1, <1>3, <1>4, CountsUpTo
<1> QED
  BY <1>2, <1>5

LEMMA ConfiguredKeeps ==
  ASSUME Prepared, samples = <<>>, NEW w, Job(w) \in Nat, NEW service,
         \A hook \in Range(hooks) : Applicable(hook, w, service)
  PROVE  Keeps(Configured(w, service))
<1>1. Len(hooks) \in Nat
  BY DEF Prepared
<1>2. Len(hooks) \in 0..Len(hooks)
  BY <1>1
<1> QED
  BY <1>2, HooksKeep

-----------------------------------------------------------------------------
(* The invariant                                                           *)

LEMMA SubmissionsAreShaped ==
  ASSUME NEW entries, NEW answers \in Submissions(entries)
  PROVE  /\ DOMAIN answers = Numbers
         /\ \A num \in Numbers : Shaped(Question(cfg.definition, num), answers[num])
<1>1. /\ DOMAIN answers = Numbers
      /\ \A num \in Numbers :
           answers[num] \in AnswersOf(Question(cfg.definition, num), entries[num])
  BY DEF Submissions, Numbers
<1>2. ASSUME NEW q, NEW e, NEW answer \in AnswersOf(q, e) PROVE Shaped(q, answer)
  <2>1. CASE q.kind \in ChoiceKinds
    <3>1. answer \in ChoiceAnswers(q, e)
      BY <1>2, <2>1 DEF AnswersOf, ChoiceKinds
    <3>3. PICK i : answer = Picked(q, e, i)
      BY <3>1 DEF ChoiceAnswers
    <3>2. answer.kind = "choice"
      BY <3>3 DEF Picked, R!Choice
    <3> QED
      BY <2>1, <3>2 DEF Shaped, ChoiceKinds
  <2>2. CASE q.kind = "matrix"
    <3>1. q.kind \notin ChoiceKinds
      BY <2>2 DEF ChoiceKinds
    <3>2. \E f : answer = [kind |-> "matrix", indexes |-> f] /\ DOMAIN f = 1..AtLeast(1, q.rows)
      BY <1>2, <2>2, <3>1 DEF AnswersOf, MatrixAnswers
    <3> QED
      BY <3>1, <3>2 DEF Shaped
  <2>3. CASE q.kind \notin ChoiceKinds /\ q.kind # "matrix"
    BY <2>3 DEF Shaped
  <2> QED
    BY <2>1, <2>2, <2>3
<1> QED
  BY <1>1, <1>2

LEMMA InitInv == Init => RunInv
<1> SUFFICES ASSUME Init PROVE RunInv
  OBVIOUS
<1>1. Prepared
  <2>1. request \in Requests /\ stage = "reverse_fill" /\ hooks = <<>> /\ samples = <<>>
    BY DEF Init
  <2>2. /\ cfg = [definition |-> request.definition, strategies |-> request.strategies,
                  target |-> request.target]
        /\ options = [target |-> request.optionTarget, threads |-> request.threads]
    BY DEF Init
  <2>3. Range(hooks) = {} /\ hooks \in Seq(HookNames)
    BY <2>1 DEF Range
  <2> QED
    BY <2>1, <2>2, <2>3, RequestsAssumption DEF Prepared
<1>2. DOMAIN recorded = {} /\ DOMAIN stats = {}
  <2>1. recorded = <<>> /\ stats = <<>>
    BY DEF Init
  <2>2. <<>> \in Seq(Int) /\ Len(<<>>) = 0
    OBVIOUS
  <2> QED
    BY <2>1, <2>2
<1>3. Resting
  BY <1>2 DEF Init, Resting, Idle
<1>4. Placed
  BY <1>2 DEF Init, Placed, Place, Apart, Idle, Busy, Job
<1>5. Answering
  BY DEF Init, Answering, StaysStrict, Answered, Idle
<1>6. Counts
  <2>1. \A k : Taken(k) = 0
    BY <1>2, FS_EmptySet DEF Taken, Settled
  <2> QED
    BY <1>2, <2>1 DEF Counts
<1> QED
  BY <1>1, <1>3, <1>4, <1>5, <1>6 DEF RunInv

\* run_defaults.go: the strategies the engine makes up are sound.
LEMMA DefaultsAreSound ==
  ASSUME NEW definition, \A q \in definition : SoundQuestion(q)
  PROVE  LET made == buildDefaultQuestionStrategies(definition)
         IN  \A num \in DOMAIN made : SoundEntry(made[num])
<1> SUFFICES ASSUME NEW q \in definition PROVE SoundEntry(DefaultEntry(q))
  <2>1. \A num \in {q.num : q \in definition} : Question(definition, num) \in definition
    BY DEF Question
  <2> QED
    BY <2>1 DEF buildDefaultQuestionStrategies
<1> DEFINE n == AtLeast(1, q.options)
           weights == [i \in 1..n |-> IF q.kind = "score" THEN scoreMiddleWeight(i, n) ELSE 1]
<1>1. n \in Nat
  BY DEF SoundQuestion, AtLeast
<1>2. \A i \in 1..n : scoreMiddleWeight(i, n) \in Nat
  BY <1>1 DEF scoreMiddleWeight, Abs
<1>3. defaultWeights(q) \in Seq(Int)
  <2> HIDE DEF n
  <2>1. weights \in Seq(Int)
    BY <1>1, <1>2
  <2> QED
    BY <2>1 DEF defaultWeights, n
<1>4. NoWeights \in Seq(Int)
  BY DEF NoWeights
<1> HIDE DEF n, weights
<1>5. /\ DefaultEntry(q).options = defaultWeights(q)
      /\ DefaultEntry(q).custom \in {defaultWeights(q), NoWeights}
      /\ {"mode", "options", "rows", "custom", "customRows", "texts", "fills"}
           \subseteq DOMAIN DefaultEntry(q)
  BY DEF DefaultEntry
<1> QED
  BY <1>3, <1>4, <1>5 DEF SoundEntry

\* Whether the survey is parsed or given, the configuration is as sound as before.
LEMMA DefinedIsSound ==
  ASSUME Prepared
  PROVE  /\ \A q \in Defined.definition : SoundQuestion(q)
         /\ \A num \in DOMAIN Defined.strategies : SoundEntry(Defined.strategies[num])
         /\ Defined = [definition |-> Defined.definition, strategies |-> Defined.strategies,
                       target |-> cfg.target]
<1>1. \A q \in request.platform : SoundQuestion(q)
  BY RequestsAssumption DEF Prepared
<1>2. CASE cfg.definition # {}
  BY <1>2 DEF Defined, Prepared
<1>3. CASE cfg.definition = {}
  <2> DEFINE made == buildDefaultQuestionStrategies(request.platform)
  <2>1. \A num \in DOMAIN made : SoundEntry(made[num])
    BY <1>1, DefaultsAreSound
  <2> HIDE DEF made
  <2>2. Defined = [definition |-> request.platform, strategies |-> made, target |-> cfg.target]
    BY <1>3 DEF Defined, Prepared, made
  <2> QED
    BY <1>1, <2>1, <2>2
<1> QED
  BY <1>2, <1>3

LEMMA AppendedRange ==
  ASSUME NEW S, NEW s \in Seq(S), NEW x \in S
  PROVE  Append(s, x) \in Seq(S) /\ Range(Append(s, x)) = Range(s) \cup {x}
<1>1. Append(s, x) \in Seq(S) /\ Len(s) \in Nat /\ DOMAIN s = 1..Len(s)
  OBVIOUS
<1>2. Len(Append(s, x)) = Len(s) + 1 /\ Append(s, x)[Len(s) + 1] = x
  OBVIOUS
<1>3. \A i \in 1..Len(s) : Append(s, x)[i] = s[i]
  OBVIOUS
<1>4. DOMAIN Append(s, x) = 1..(Len(s) + 1)
  BY <1>1, <1>2
<1>5. PICK t : t = Append(s, x)
  OBVIOUS
<1>6. Range(t) = Range(s) \cup {x}
  <2>1. ASSUME NEW i \in DOMAIN t PROVE t[i] \in Range(s) \cup {x}
    <3>1. i \in 1..(Len(s) + 1)
      BY <1>4, <1>5
    <3>2. CASE i = Len(s) + 1
      BY <1>2, <1>5, <3>2
    <3>3. CASE i # Len(s) + 1
      <4>1. i \in DOMAIN s
        BY <1>1, <3>1, <3>3
      <4> QED
        BY <1>1, <1>3, <1>5, <4>1 DEF Range
    <3> QED
      BY <3>2, <3>3
  <2>2. ASSUME NEW i \in DOMAIN s PROVE s[i] \in Range(t)
    <3>1. i \in DOMAIN t /\ t[i] = s[i]
      BY <1>1, <1>3, <1>4, <1>5
    <3> QED
      BY <3>1 DEF Range
  <2>3. x \in Range(t)
    <3>1. Len(s) + 1 \in 1..(Len(s) + 1)
      BY <1>1
    <3>2. Len(s) + 1 \in DOMAIN t /\ t[Len(s) + 1] = x
      BY <1>2, <1>4, <1>5, <3>1, Zenon
    <3> QED
      BY <3>2 DEF Range
  <2> QED
    BY <2>1, <2>2, <2>3 DEF Range
<1> QED
  BY <1>1, <1>5, <1>6

\* A stage of the preparation leaves the workers alone, so all is as empty as
\* it was; what a stage must show is that the configuration stays sound.
LEMMA StageStep ==
  ASSUME RunInv, stage \notin {"running", "done"}, UNCHANGED <<working, cancelled>>, Prepared'
  PROVE  RunInv'
<1>1. /\ recorded' = recorded /\ stats' = stats /\ workers' = workers
      /\ pending' = pending /\ next' = next
  BY DEF working
<1>2. /\ DOMAIN recorded = {} /\ DOMAIN stats = {}
      /\ \A w \in Workers : workers[w].phase = "idle"
  BY DEF RunInv, Resting
<1>3. Resting'
  BY <1>1, <1>2 DEF Resting
<1>4. Placed'
  BY <1>1, <1>2 DEF RunInv, Placed, Place, Apart, Busy, Job
<1>5. Answering'
  BY <1>1, <1>2 DEF Answering, StaysStrict, Answered
<1>6. Counts'
  <2>1. \A k : Taken(k)' = 0
    BY <1>1, <1>2, FS_EmptySet DEF Taken, Settled
  <2> QED
    BY <1>1, <1>2, <2>1 DEF Counts
<1> QED
  BY <1>3, <1>4, <1>5, <1>6 DEF RunInv

LEMMA HookJoins ==
  ASSUME Prepared, NEW x \in HookNames, hooks' = Append(hooks, x)
  PROVE  hooks' \in Seq(HookNames) /\ Range(hooks') = Range(hooks) \cup {x}
BY AppendedRange DEF Prepared

\* Adding a hook other than these two keeps what is known of the hooks.
LEMMA HookAdded ==
  ASSUME Prepared, NEW x \in HookNames, x \notin {"reverse_fill", "psychometrics"},
         hooks' = Append(hooks, x), stage' # "reverse_fill",
         UNCHANGED <<request, samples, plan, options>>, cfg'.target = cfg.target,
         cfg' = [definition |-> cfg'.definition, strategies |-> cfg'.strategies,
                 target |-> cfg.target],
         \A q \in cfg'.definition : SoundQuestion(q),
         \A num \in DOMAIN cfg'.strategies : SoundEntry(cfg'.strategies[num])
  PROVE  Prepared'
<1>1. hooks' \in Seq(HookNames) /\ Range(hooks') = Range(hooks) \cup {x}
  BY AppendedRange DEF Prepared
<1>2. sampleCount' = sampleCount
  BY DEF sampleCount
<1> QED
  BY <1>1, <1>2 DEF Prepared

\* Without a new hook.
LEMMA HooksKept ==
  ASSUME Prepared, stage' # "reverse_fill",
         UNCHANGED <<request, samples, plan, options, hooks>>,
         cfg' = [definition |-> cfg'.definition, strategies |-> cfg'.strategies,
                 target |-> cfg.target],
         \A q \in cfg'.definition : SoundQuestion(q),
         \A num \in DOMAIN cfg'.strategies : SoundEntry(cfg'.strategies[num])
  PROVE  Prepared'
<1>1. sampleCount' = sampleCount
  BY DEF sampleCount
<1> QED
  BY <1>1 DEF Prepared

LEMMA PreparesStep ==
  ASSUME RunInv, Prepares
  PROVE  RunInv'
<1> USE DEF prepared
<1>1. Prepared
  BY DEF RunInv
<1>2. ASSUME NEW kind, Abort(kind), stage \notin {"running", "done"} PROVE RunInv'
  <2>1. Prepared'
    BY <1>1, <1>2, HooksKept DEF Abort, Prepared
  <2> QED
    BY <1>2, <2>1, StageStep DEF Abort
<1>3. CASE SkipReverseFill
  <2>1. Prepared'
    BY <1>1, <1>3, HooksKept DEF SkipReverseFill, Prepared
  <2> QED
    BY <1>3, <2>1, StageStep DEF SkipReverseFill
<1>4. CASE RefuseReverseFill
  BY <1>2, <1>4 DEF RefuseReverseFill
<1>5. CASE ParseFails
  BY <1>2, <1>5 DEF ParseFails
<1>6. CASE PrepareReverseFill
  <2>1. CASE ~Sufficient(Preview)
    BY <1>2, <1>6, <2>1 DEF PrepareReverseFill
  <2>2. CASE Sufficient(Preview)
    <3>1. /\ stage = "reverse_fill" /\ stage' = "window"
          /\ cfg' = [Defined EXCEPT !.target = Target]
          /\ options' = [target |-> Target,
                         threads |-> IF request.reverse.threads > 0
                                     THEN request.reverse.threads ELSE options.threads]
          /\ samples' = Preview.samples
          /\ hooks' = Append(hooks, "reverse_fill")
          /\ UNCHANGED <<request, outcome, cancelled, plan, working>>
      BY <1>6, <2>2 DEF PrepareReverseFill
    <3>2. Target \in Nat /\ Target >= 1
      BY <1>1 DEF Target, FirstPositive, Prepared
    <3>3. samples' # <<>>
      <4>1. Len(Preview.samples) >= Target
        BY <2>2 DEF Sufficient
      <4>2. Len(<<>>) = 0
        OBVIOUS
      <4> QED
        BY <3>1, <3>2, <4>1, <4>2
    <3>4. /\ \A q \in cfg'.definition : SoundQuestion(q)
          /\ \A num \in DOMAIN cfg'.strategies : SoundEntry(cfg'.strategies[num])
          /\ cfg' = [definition |-> cfg'.definition, strategies |-> cfg'.strategies,
                     target |-> cfg'.target]
          /\ cfg'.target = Target
      BY <1>1, <3>1, DefinedIsSound
    <3>5. hooks' \in Seq(HookNames) /\ Range(hooks') = {"reverse_fill"}
      <4>1. hooks = <<>> /\ Range(hooks) = {}
        BY <1>1, <3>1 DEF Prepared, Range
      <4>2. "reverse_fill" \in HookNames
        BY DEF HookNames
      <4> QED
        BY <1>1, <3>1, <4>1, <4>2, HookJoins
    <3>6. Prepared'
      BY <1>1, <3>1, <3>2, <3>3, <3>4, <3>5 DEF Prepared
    <3> QED
      BY <3>1, <3>6, StageStep
  <2> QED
    BY <2>1, <2>2
<1>7. CASE PrepareRuntime
  <2> DEFINE refused == /\ request.provider = "credamo"
                        /\ ~WindowSound(request.window, request.duration)
  <2>1. CASE refused
    BY <1>2, <1>7, <2>1 DEF PrepareRuntime
  <2>2. CASE ~refused
    <3>1. /\ stage = "window" /\ stage' = "ai" /\ hooks' = Append(hooks, "persona")
          /\ UNCHANGED <<request, outcome, cancelled, cfg, options, samples, plan, working>>
      BY <1>7, <2>2 DEF PrepareRuntime
    <3>2. "persona" \in HookNames
      BY DEF HookNames
    <3>3. /\ \A q \in cfg'.definition : SoundQuestion(q)
          /\ \A num \in DOMAIN cfg'.strategies : SoundEntry(cfg'.strategies[num])
          /\ cfg' = [definition |-> cfg'.definition, strategies |-> cfg'.strategies,
                     target |-> cfg.target]
      BY <1>1, <3>1 DEF Prepared
    <3>4. Prepared'
      BY <1>1, <3>1, <3>2, <3>3, HookAdded
    <3> QED
      BY <3>1, <3>4, StageStep
  <2> QED
    BY <2>1, <2>2
<1>8. CASE PrepareAI
  <2>1. /\ stage = "ai" /\ stage' = "psychometrics"
        /\ cfg' = IF AIUsed THEN Defined ELSE cfg
        /\ hooks' = IF AIUsed THEN Append(hooks, "ai") ELSE hooks
        /\ UNCHANGED <<request, outcome, cancelled, options, samples, plan, working>>
    BY <1>8 DEF PrepareAI
  <2>2. CASE AIUsed
    <3>1. "ai" \in HookNames
      BY DEF HookNames
    <3>2. cfg' = Defined /\ hooks' = Append(hooks, "ai") /\ stage' # "reverse_fill"
      BY <2>1, <2>2
    <3>3. /\ \A q \in cfg'.definition : SoundQuestion(q)
          /\ \A num \in DOMAIN cfg'.strategies : SoundEntry(cfg'.strategies[num])
          /\ cfg' = [definition |-> cfg'.definition, strategies |-> cfg'.strategies,
                     target |-> cfg.target]
      BY <1>1, <3>2, DefinedIsSound
    <3>4. Prepared'
      BY <1>1, <2>1, <3>1, <3>2, <3>3, HookAdded
    <3> QED
      BY <2>1, <3>4, StageStep
  <2>3. CASE ~AIUsed
    <3>1. Prepared'
      BY <1>1, <2>1, <2>3, HooksKept DEF Prepared
    <3> QED
      BY <2>1, <3>1, StageStep
  <2> QED
    BY <2>2, <2>3
<1>9. CASE PreparePsychometrics
  <2> DEFINE c == IF PsychometricsUsed THEN Defined ELSE cfg
             items == IF PsychometricsUsed THEN PlannedItems(c.definition, c.strategies) ELSE {}
  <2>1. /\ stage = "psychometrics" /\ stage' = "prepare" /\ cfg' = c
        /\ UNCHANGED <<request, outcome, cancelled, options, samples, working>>
        /\ items = {} => UNCHANGED <<plan, hooks>>
        /\ items # {} => plan' \in JointPlans(items, sampleCount)
                           /\ hooks' = Append(hooks, "psychometrics")
    BY <1>9 DEF PreparePsychometrics
  <2>2. /\ \A q \in c.definition : SoundQuestion(q)
        /\ \A num \in DOMAIN c.strategies : SoundEntry(c.strategies[num])
        /\ c = [definition |-> c.definition, strategies |-> c.strategies, target |-> cfg.target]
    BY <1>1, DefinedIsSound DEF Prepared
  <2> HIDE DEF c
  <2>3. CASE items = {}
    <3>1. Prepared'
      BY <1>1, <2>1, <2>2, <2>3, HooksKept
    <3> QED
      BY <2>1, <3>1, StageStep
  <2>4. CASE items # {}
    <3>1. items = PlannedItems(c.definition, c.strategies)
      BY <2>4
    <3> HIDE DEF items
    <3>2. sampleCount \in Nat /\ sampleCount' = sampleCount
      BY <1>1, <2>1, <2>2 DEF sampleCount, AtLeast, Prepared
    <3>3. \A key \in DOMAIN plan' : \A j \in 0..(sampleCount - 1) : plan'[key][j] \in Int
      BY <2>1, <2>2, <2>4, <3>1, <3>2, PlansAreInts
    <3>4. hooks' \in Seq(HookNames) /\ Range(hooks') = Range(hooks) \cup {"psychometrics"}
      <4>1. "psychometrics" \in HookNames
        BY DEF HookNames
      <4> QED
        BY <1>1, <2>1, <2>4, <4>1, HookJoins
    <3>5. Prepared'
      BY <1>1, <2>1, <2>2, <3>2, <3>3, <3>4 DEF Prepared
    <3> QED
      BY <2>1, <3>5, StageStep
  <2> QED
    BY <2>3, <2>4
<1>10. CASE Prepare
  <2>1. \A q \in request.platform : SoundQuestion(q)
    BY <1>1, RequestsAssumption DEF Prepared
  <2>2. Prepared'
    BY <1>1, <1>10, <2>1, HooksKept DEF Prepare, Prepared
  <2> QED
    BY <1>10, <2>2, StageStep DEF Prepare
<1>11. CASE PrepareFails
  BY <1>2, <1>11 DEF PrepareFails
<1> QED
  BY <1>3, <1>4, <1>5, <1>6, <1>7, <1>8, <1>9, <1>10, <1>11 DEF Prepares

-----------------------------------------------------------------------------
(* The workers                                                             *)

\* A step of one worker: the run's preparation and the other workers stay.
Only(w) ==
  /\ UNCHANGED <<request, stage, prepared>> /\ stage = "running"
  /\ DOMAIN workers' = Workers /\ DOMAIN pending' = Workers
  /\ \A v \in Workers \ {w} : workers'[v] = workers[v] /\ pending'[v] = pending[v]

LEMMA PreparedKept ==
  ASSUME Prepared, UNCHANGED <<request, stage, prepared>>
  PROVE  Prepared'
<1>1. sampleCount' = sampleCount
  BY DEF sampleCount, prepared
<1> QED
  BY <1>1 DEF Prepared, prepared

LEMMA CountsKept ==
  ASSUME Counts, UNCHANGED <<prepared, stats>>, Settled' = Settled,
         \A j \in Settled : recorded'[j] = recorded[j]
  PROVE  Counts'
<1>1. \A k : Taken(k)' = Taken(k)
  <2> SUFFICES ASSUME NEW k PROVE Taken(k)' = Taken(k)
    OBVIOUS
  <2>1. {j \in Settled : OptionOf(recorded'[j][k[1]], k[2]) = k[3]}
          = {j \in Settled : OptionOf(recorded[j][k[1]], k[2]) = k[3]}
    OBVIOUS
  <2> QED
    BY <2>1 DEF Taken
<1>2. cfg' = cfg /\ samples' = samples
  BY DEF prepared
<1>3. Numbers' = Numbers /\ \A num : Counted(num)' <=> Counted(num)
  BY <1>2 DEF Numbers, Counted
<1> QED
  BY <1>1, <1>2, <1>3 DEF Counts

LEMMA PlacedStep ==
  ASSUME Placed, NEW w \in Workers, Only(w), next' \in Nat, next' >= next,
         DOMAIN recorded' \subseteq 0..(next' - 1),
         \A j : j # Job(w)' =>
           /\ j \in DOMAIN recorded' <=> j \in DOMAIN recorded
           /\ j \in DOMAIN recorded => recorded'[j] = recorded[j],
         Place(w)',
         \A v \in Workers \ {w} :
           workers[v].phase \in Busy => Job(v) # Job(w)'
  PROVE  Placed'
<1>1. ASSUME NEW v \in Workers PROVE Place(v)'
  <2>1. CASE v # w
    <3>1. workers'[v] = workers[v] /\ Job(v)' = Job(v) /\ stage' = stage
      BY <2>1 DEF Only, Job
    <3>2. Job(v) \in 0..(next - 1) => Job(v) \in 0..(next' - 1)
      <4>1. next \in Nat
        BY DEF Placed
      <4> QED
        BY <4>1
    <3>3. Place(v)
      BY DEF Placed
    <3>4. workers[v].phase \in Busy =>
            /\ Job(v) \in DOMAIN recorded' <=> Job(v) \in DOMAIN recorded
            /\ Job(v) \in DOMAIN recorded => recorded'[Job(v)] = recorded[Job(v)]
      BY <2>1
    <3> QED
      BY <3>1, <3>2, <3>3, <3>4 DEF Place, Busy
  <2> QED
    BY <2>1
<1>2. ASSUME NEW u \in Workers, NEW v \in Workers PROVE Apart(u, v)'
  BY DEF Apart, Placed, Only, Job
<1> QED
  BY <1>1, <1>2 DEF Placed, Only

LEMMA AnsweringStep ==
  ASSUME Answering, NEW w \in Workers, Only(w),
         samples = <<>> => StaysStrict(w)' /\ Answered(w)'
  PROVE  Answering'
<1>1. cfg' = cfg /\ samples' = samples
  BY DEF Only, prepared
<1>2. Numbers' = Numbers /\ \A num : Counted(num)' <=> Counted(num)
  BY <1>1 DEF Numbers, Counted
<1>3. ASSUME NEW v \in Workers \ {w}, StaysStrict(v), Answered(v)
      PROVE  StaysStrict(v)' /\ Answered(v)'
  BY <1>1, <1>2, <1>3 DEF Only, StaysStrict, Answered
<1> QED
  BY <1>1, <1>3 DEF Answering

\* A step that neither records nor settles a job.
LEMMA AttemptStep ==
  ASSUME RunInv, NEW w \in Workers, Only(w), UNCHANGED <<recorded, stats>>,
         next' \in Nat, next' >= next,
         workers[w].phase # "settle", workers'[w].phase # "settle",
         Place(w)', samples = <<>> => StaysStrict(w)' /\ Answered(w)',
         \A v \in Workers \ {w} : workers[v].phase \in Busy => Job(v) # Job(w)'
  PROVE  RunInv'
<1>1. Prepared' /\ Resting'
  BY PreparedKept DEF RunInv, Only, Resting
<1>2. Placed'
  <2>1. DOMAIN recorded' \subseteq 0..(next' - 1)
    BY DEF RunInv, Placed
  <2> QED
    BY <2>1, PlacedStep DEF RunInv
<1>3. Answering'
  BY AnsweringStep DEF RunInv
<1>4. Settled' = Settled
  <2>1. {v \in Workers : workers'[v].phase = "settle"}
          = {v \in Workers : workers[v].phase = "settle"}
    BY DEF Only
  <2>2. \A v \in {u \in Workers : workers[u].phase = "settle"} : Job(v)' = Job(v)
    BY DEF Only, Job
  <2> QED
    BY <2>1, <2>2 DEF Settled
<1>5. Counts'
  BY <1>4, CountsKept DEF RunInv, Only
<1> QED
  BY <1>1, <1>2, <1>3, <1>5 DEF RunInv

\* Facts about the worker a step is of.
LEMMA BusyIsRunning ==
  ASSUME RunInv, NEW w \in Workers, workers[w].phase \in Busy
  PROVE  /\ stage = "running" /\ Job(w) \in 0..(next - 1) /\ Job(w) \in Nat
         /\ next \in Nat /\ DOMAIN workers = Workers /\ DOMAIN pending = Workers
         /\ \A v \in Workers \ {w} : workers[v].phase \in Busy => Job(v) # Job(w)
BY DEF RunInv, Placed, Place, Apart

LEMMA TakeJobStep ==
  ASSUME RunInv, NEW w \in Workers, TakeJob(w)
  PROVE  RunInv'
<1>1. /\ DOMAIN workers = Workers /\ DOMAIN pending = Workers /\ next \in Nat
      /\ DOMAIN recorded \subseteq 0..(next - 1)
      /\ \A v \in Workers : workers[v].phase \in Busy => Job(v) \in 0..(next - 1)
  BY DEF RunInv, Placed, Place
<1>2. /\ next' = next + 1 /\ UNCHANGED <<request, stage, prepared, pending, stats, recorded>>
      /\ stage = "running" /\ workers[w].phase = "idle"
      /\ workers' = [workers EXCEPT ![w] = [Idle EXCEPT !.phase = "configure", !.job = next,
                                                        !.attempt = 1]]
  BY DEF TakeJob, Attempt
<1>3. workers'[w] = [phase |-> "configure", job |-> next, attempt |-> 1, entries |-> <<>>,
                     answers |-> <<>>]
  BY <1>1, <1>2 DEF Idle
<1>4. Only(w)
  BY <1>1, <1>2 DEF Only
<1>5. next \notin DOMAIN recorded /\ next \in 0..(next' - 1) /\ next' \in Nat /\ next' >= next
  BY <1>1, <1>2
<1>6. Place(w)' /\ StaysStrict(w)' /\ Answered(w)'
  <2>1. Place(w)'
    <3>1. stage' = "running" /\ recorded' = recorded
      BY <1>2
    <3>2. /\ workers'[w].phase = "configure" /\ workers'[w].job = next
          /\ workers'[w] = [phase |-> workers'[w].phase, job |-> workers'[w].job,
                            attempt |-> workers'[w].attempt, entries |-> workers'[w].entries,
                            answers |-> workers'[w].answers]
      BY <1>3
    <3> QED
      BY <1>5, <3>1, <3>2 DEF Place, Busy, Job
  <2>2. StaysStrict(w)' /\ Answered(w)'
    BY <1>3 DEF StaysStrict, Answered
  <2> QED
    BY <2>1, <2>2
<1>7. \A v \in Workers \ {w} : workers[v].phase \in Busy => Job(v) # Job(w)'
  BY <1>1, <1>3 DEF Job
<1> QED
  BY <1>2, <1>3, <1>4, <1>5, <1>6, <1>7, AttemptStep

\* A worker gives its job up.
LEMMA LostStep ==
  ASSUME RunInv, NEW w \in Workers, NEW kind, Lost(w, kind),
         workers[w].phase \in Busy \ {"settle"},
         UNCHANGED <<request, stage, prepared, next, stats, recorded>>
  PROVE  RunInv'
<1>1. /\ stage = "running" /\ next \in Nat /\ Job(w) \in Nat
      /\ DOMAIN workers = Workers /\ DOMAIN pending = Workers
      /\ \A v \in Workers : workers[v].phase \in Busy => Job(v) \in Nat
  BY BusyIsRunning
<1>2. workers' = [workers EXCEPT ![w] = Idle] /\ pending' = [pending EXCEPT ![w] = {}]
  BY DEF Lost
<1>3. workers'[w] = [phase |-> "idle", job |-> -1, attempt |-> 0, entries |-> <<>>,
                     answers |-> <<>>]
  BY <1>1, <1>2 DEF Idle
<1>4. Only(w)
  BY <1>1, <1>2 DEF Only
<1>5. Place(w)' /\ StaysStrict(w)' /\ Answered(w)'
  BY <1>3 DEF Place, StaysStrict, Answered, Busy, Job
<1>6. \A v \in Workers \ {w} : workers[v].phase \in Busy => Job(v) # Job(w)'
  BY <1>1, <1>3 DEF Job
<1> QED
  BY <1>1, <1>3, <1>4, <1>5, <1>6, AttemptStep

LEMMA ConfigureStep ==
  ASSUME RunInv, NEW w \in Workers, Configure(w)
  PROVE  RunInv'
<1>1. workers[w].phase = "configure" /\ workers[w].phase \in Busy
  BY DEF Configure, Busy
<1>2. /\ stage = "running" /\ next \in Nat /\ Job(w) \in Nat
      /\ DOMAIN workers = Workers /\ DOMAIN pending = Workers
      /\ \A v \in Workers \ {w} : workers[v].phase \in Busy => Job(v) # Job(w)
  BY <1>1, BusyIsRunning
<1>3. PICK service \in request.services :
        /\ \A hook \in Range(hooks) : Applicable(hook, w, service)
        /\ workers' = [workers EXCEPT ![w].phase = "build", ![w].entries = Configured(w, service)]
  BY DEF Configure
<1>4. /\ pending' = [pending EXCEPT ![w] = {}]
      /\ UNCHANGED <<request, stage, prepared, next, stats, recorded>>
  BY DEF Configure
<1> DEFINE entries == Configured(w, service)
<1>5. samples = <<>> => Keeps(entries)
  BY <1>2, <1>3, ConfiguredKeeps DEF RunInv
<1>6. workers'[w] = [workers[w] EXCEPT !.phase = "build", !.entries = entries]
  BY <1>2, <1>3
<1> HIDE DEF entries
<1>7. Only(w)
  BY <1>2, <1>3, <1>4 DEF Only
<1>8. Place(w)
  BY DEF RunInv, Placed
<1>9. Place(w)' /\ Job(w)' = Job(w)
  BY <1>1, <1>2, <1>4, <1>6, <1>8 DEF Place, Busy, Job
<1>10. workers'[w].phase = "build" /\ workers'[w].entries = entries
  BY <1>6, <1>8 DEF Place
<1>11. samples = <<>> => StaysStrict(w)' /\ Answered(w)'
  <2>1. cfg' = cfg
    BY <1>4 DEF prepared
  <2>2. Numbers' = Numbers /\ \A num : Counted(num)' <=> Counted(num)
    BY <2>1 DEF Numbers, Counted
  <2>3. Answered(w)'
    BY <1>10 DEF Answered
  <2>4. samples = <<>> => \A num \in Numbers : Counted(num) => isStrictRatioEntry(entries[num])
    BY <1>5 DEF Keeps, Counted
  <2> QED
    BY <1>10, <2>2, <2>3, <2>4 DEF StaysStrict
<1> QED
  BY <1>1, <1>2, <1>4, <1>7, <1>9, <1>10, <1>11, AttemptStep

LEMMA BuildStep ==
  ASSUME RunInv, NEW w \in Workers, Build(w)
  PROVE  RunInv'
<1>1. workers[w].phase = "build" /\ workers[w].phase \in Busy
  BY DEF Build, Busy
<1>2. /\ stage = "running" /\ next \in Nat /\ Job(w) \in Nat
      /\ DOMAIN workers = Workers /\ DOMAIN pending = Workers
      /\ \A v \in Workers \ {w} : workers[v].phase \in Busy => Job(v) # Job(w)
  BY <1>1, BusyIsRunning
<1>3. PICK answers \in Submissions(workers[w].entries) :
        /\ workers' = [workers EXCEPT ![w].phase = "submit", ![w].answers = answers]
        /\ pending' = [pending EXCEPT ![w] = Reserved(workers[w].entries, answers)]
  BY DEF Build
<1>4. UNCHANGED <<request, stage, prepared, next, stats, recorded>>
  BY DEF Build
<1>5. /\ DOMAIN answers = Numbers
      /\ \A num \in Numbers : Shaped(Question(cfg.definition, num), answers[num])
  BY SubmissionsAreShaped
<1>6. workers'[w] = [workers[w] EXCEPT !.phase = "submit", !.answers = answers]
  BY <1>2, <1>3
<1>7. Only(w)
  BY <1>2, <1>3, <1>4 DEF Only
<1>8. Place(w)
  BY DEF RunInv, Placed
<1>9. Place(w)' /\ Job(w)' = Job(w)
  BY <1>1, <1>2, <1>4, <1>6, <1>8 DEF Place, Busy, Job
<1>10. /\ workers'[w].phase = "submit" /\ workers'[w].answers = answers
       /\ workers'[w].entries = workers[w].entries
       /\ pending'[w] = Reserved(workers[w].entries, answers)
  BY <1>2, <1>3, <1>6, <1>8 DEF Place
<1>11. samples = <<>> => StaysStrict(w)' /\ Answered(w)'
  <2>1. cfg' = cfg
    BY <1>4 DEF prepared
  <2>2. Numbers' = Numbers /\ \A num : Counted(num)' <=> Counted(num)
    BY <2>1 DEF Numbers, Counted
  <2>3. Answered(w)'
    BY <1>5, <1>10, <2>1, <2>2 DEF Answered
  <2>4. samples = <<>> => StaysStrict(w)
    BY DEF RunInv, Answering
  <2> QED
    BY <1>1, <1>10, <2>2, <2>3, <2>4 DEF StaysStrict
<1> QED
  BY <1>1, <1>2, <1>4, <1>7, <1>9, <1>10, <1>11, AttemptStep

LEMMA SubmitFailsStep ==
  ASSUME RunInv, NEW w \in Workers, SubmitFails(w)
  PROVE  RunInv'
<1>1. workers[w].phase = "submit" /\ workers[w].phase \in Busy \ {"settle"}
  BY DEF SubmitFails, Busy
<1>2. UNCHANGED <<request, stage, prepared, next, stats, recorded>>
  BY DEF SubmitFails
<1>3. CASE workers[w].attempt <= request.retries /\ ~cancelled
  <2>1. /\ stage = "running" /\ next \in Nat /\ Job(w) \in 0..(next - 1)
        /\ DOMAIN workers = Workers /\ DOMAIN pending = Workers
        /\ \A v \in Workers \ {w} : workers[v].phase \in Busy => Job(v) # Job(w)
    BY <1>1, BusyIsRunning
  <2>2. /\ workers' = [workers EXCEPT ![w] =
                         [Idle EXCEPT !.phase = "configure", !.job = Job(w),
                                      !.attempt = workers[w].attempt + 1]]
        /\ pending' = [pending EXCEPT ![w] = {}]
    BY <1>3 DEF SubmitFails, Attempt
  <2>3. workers'[w] = [phase |-> "configure", job |-> Job(w), attempt |-> workers[w].attempt + 1,
                       entries |-> <<>>, answers |-> <<>>]
    BY <2>1, <2>2 DEF Idle
  <2>4. Only(w)
    BY <1>2, <2>1, <2>2 DEF Only
  <2>5. Job(w) \notin DOMAIN recorded
    BY <1>1 DEF RunInv, Placed, Place
  <2>6. Place(w)' /\ StaysStrict(w)' /\ Answered(w)' /\ Job(w)' = Job(w)
    BY <1>2, <2>1, <2>3, <2>5 DEF Place, StaysStrict, Answered, Busy, Job
  <2> QED
    BY <1>1, <1>2, <2>1, <2>3, <2>4, <2>6, AttemptStep
<1>4. CASE ~(workers[w].attempt <= request.retries /\ ~cancelled)
  BY <1>1, <1>2, <1>4, LostStep DEF SubmitFails
<1> QED
  BY <1>3, <1>4

\* Submitting records the answers of a job nobody has recorded, and settles none.
LEMMA SubmitStep ==
  ASSUME RunInv, NEW w \in Workers, Submit(w)
  PROVE  RunInv'
<1>1. workers[w].phase = "submit" /\ workers[w].phase \in Busy
  BY DEF Submit, Busy
<1>2. /\ stage = "running" /\ next \in Nat /\ Job(w) \in 0..(next - 1)
      /\ DOMAIN workers = Workers /\ DOMAIN pending = Workers
      /\ \A v \in Workers \ {w} : workers[v].phase \in Busy => Job(v) # Job(w)
  BY <1>1, BusyIsRunning
<1>3. /\ recorded' = [j \in DOMAIN recorded \cup {Job(w)} |->
                        IF j = Job(w) THEN workers[w].answers ELSE recorded[j]]
      /\ workers' = [workers EXCEPT ![w].phase = "settle"]
      /\ UNCHANGED <<request, stage, prepared, next, pending, stats>>
  BY DEF Submit
<1>4. workers'[w] = [workers[w] EXCEPT !.phase = "settle"]
  BY <1>2, <1>3
<1>5. Only(w)
  BY <1>2, <1>3 DEF Only
<1>6. Place(w) /\ Job(w) \notin DOMAIN recorded /\ DOMAIN recorded \subseteq 0..(next - 1)
  BY <1>1 DEF RunInv, Placed, Place
<1>7. /\ DOMAIN recorded' = DOMAIN recorded \cup {Job(w)}
      /\ recorded'[Job(w)] = workers[w].answers
      /\ \A j \in DOMAIN recorded : recorded'[j] = recorded[j]
  BY <1>3, <1>6
<1>8. /\ workers'[w].phase = "settle" /\ workers'[w].job = Job(w)
      /\ workers'[w].answers = workers[w].answers /\ workers'[w].entries = workers[w].entries
  BY <1>4, <1>6 DEF Place, Job
<1>9. Job(w)' = Job(w)
  BY <1>8 DEF Job
<1>10. Prepared' /\ Resting'
  BY <1>2, <1>5, PreparedKept DEF RunInv, Only, Resting
<1>11. Placed'
  <2>1. \A j : j # Job(w)' =>
          /\ j \in DOMAIN recorded' <=> j \in DOMAIN recorded
          /\ j \in DOMAIN recorded => recorded'[j] = recorded[j]
    BY <1>7, <1>9
  <2>2. Place(w)'
    <3>1. workers'[w] = [phase |-> workers'[w].phase, job |-> workers'[w].job,
                         attempt |-> workers'[w].attempt, entries |-> workers'[w].entries,
                         answers |-> workers'[w].answers]
      BY <1>4, <1>6 DEF Place
    <3> QED
      BY <1>2, <1>3, <1>7, <1>8, <1>9, <3>1 DEF Place, Busy
  <2>3. DOMAIN recorded' \subseteq 0..(next' - 1) /\ next' \in Nat /\ next' >= next
    BY <1>2, <1>3, <1>6, <1>7
  <2> QED
    BY <1>2, <1>5, <1>9, <2>1, <2>2, <2>3, PlacedStep DEF RunInv
<1>12. Answering'
  <2>1. cfg' = cfg /\ samples' = samples /\ pending' = pending
    BY <1>3 DEF prepared
  <2>2. Numbers' = Numbers /\ \A num : Counted(num)' <=> Counted(num)
    BY <2>1 DEF Numbers, Counted
  <2>3. samples = <<>> => StaysStrict(w) /\ Answered(w)
    BY DEF RunInv, Answering
  <2>4. samples = <<>> => StaysStrict(w)' /\ Answered(w)'
    BY <1>1, <1>8, <2>1, <2>2, <2>3 DEF StaysStrict, Answered
  <2> QED
    BY <1>5, <2>4, AnsweringStep DEF RunInv
<1>13. Settled' = Settled /\ \A j \in Settled : j # Job(w)
  <2> DEFINE others == {Job(v) : v \in {u \in Workers : workers[u].phase = "settle"}}
  <2>1. \A v \in Workers : workers'[v].phase = "settle" <=> workers[v].phase = "settle" \/ v = w
    BY <1>5, <1>8 DEF Only
  <2>2. \A v \in Workers : Job(v)' = Job(v)
    BY <1>5, <1>8 DEF Only, Job
  <2>3. {Job(v) : v \in {u \in Workers : workers[u].phase = "settle"}}' = others \cup {Job(w)}
    BY <2>1, <2>2
  <2> QED
    BY <1>6, <1>7, <2>3 DEF Settled
<1>14. Counts'
  <2>1. \A j \in Settled : recorded'[j] = recorded[j]
    BY <1>7 DEF Settled
  <2> QED
    BY <1>3, <1>13, <2>1, CountsKept DEF RunInv
<1> QED
  BY <1>10, <1>11, <1>12, <1>14 DEF RunInv

\* run_answer_runtime.go: what is reserved for a question kept to a ratio is
\* what the job answers there, once.
LEMMA ReservedIsAnswered ==
  ASSUME NEW entries, NEW answers, NEW num \in DOMAIN answers,
         isStrictRatioEntry(entries[num]), NEW q, q.num = num,
         q.kind \in ChoiceKinds \cup {"matrix"}, Shaped(q, answers[num]),
         NEW k \in Places(q)
  PROVE  k \in Reserved(entries, answers) <=> OptionOf(answers[k[1]], k[2]) = k[3]
<1> DEFINE strict == {n \in DOMAIN answers : isStrictRatioEntry(entries[n])}
           chosen == {<<n, NoRow, answers[n].index>> :
                        n \in {s \in strict : answers[s].kind = "choice"}}
           rowed == UNION {{<<n, r, answers[n].indexes[r]>> : r \in DOMAIN answers[n].indexes} :
                             n \in {s \in strict : answers[s].kind = "matrix"}}
<1>1. Reserved(entries, answers) = chosen \cup rowed
  BY DEF Reserved
<1>2. num \in strict
  OBVIOUS
<1>3. PICK row, option : k = <<num, row, option>>
                         /\ row \in (IF q.kind = "matrix" THEN 1..AtLeast(1, q.rows) ELSE {NoRow})
  BY DEF Places
<1>4. k[1] = num /\ k[2] = row /\ k[3] = option
  BY <1>3
<1>5. CASE q.kind \in ChoiceKinds
  <2>1. answers[num].kind = "choice" /\ row = NoRow
    BY <1>3, <1>5 DEF Shaped, ChoiceKinds
  <2>2. k \notin rowed
    BY <1>3, <2>1
  <2>3. k \in chosen <=> option = answers[num].index
    BY <1>2, <1>3, <2>1
  <2> HIDE DEF chosen, rowed
  <2> QED
    BY <1>1, <1>4, <2>1, <2>2, <2>3 DEF OptionOf
<1>6. CASE q.kind = "matrix"
  <2>1. answers[num].kind = "matrix" /\ row \in DOMAIN answers[num].indexes
    BY <1>3, <1>6 DEF Shaped
  <2>2. row # NoRow
    BY <1>3, <1>6 DEF NoRow
  <2>3. k \notin chosen
    BY <1>3, <2>2
  <2>4. k \in rowed <=> option = answers[num].indexes[row]
    BY <1>2, <1>3, <2>1
  <2> HIDE DEF chosen, rowed
  <2> QED
    BY <1>1, <1>4, <2>2, <2>3, <2>4 DEF OptionOf
<1> QED
  BY <1>5, <1>6

\* Settling counts the job's own reservations, and the job among the settled.
LEMMA SettleStep ==
  ASSUME RunInv, NEW w \in Workers, Settle(w)
  PROVE  RunInv'
<1>1. workers[w].phase = "settle" /\ workers[w].phase \in Busy
  BY DEF Settle, Busy
<1>2. /\ stage = "running" /\ next \in Nat /\ Job(w) \in Nat
      /\ DOMAIN workers = Workers /\ DOMAIN pending = Workers
      /\ \A v \in Workers : workers[v].phase \in Busy => Job(v) \in Nat
      /\ \A v \in Workers \ {w} : workers[v].phase \in Busy => Job(v) # Job(w)
  BY <1>1, BusyIsRunning
<1>3. /\ stats' = [k \in DOMAIN stats \cup pending[w] |->
                     (IF k \in DOMAIN stats THEN stats[k] ELSE 0)
                       + (IF k \in pending[w] THEN 1 ELSE 0)]
      /\ workers' = [workers EXCEPT ![w] = Idle] /\ pending' = [pending EXCEPT ![w] = {}]
      /\ UNCHANGED <<request, stage, prepared, next, recorded>>
  BY DEF Settle, CommitPendingDistribution
<1>4. workers'[w] = [phase |-> "idle", job |-> -1, attempt |-> 0, entries |-> <<>>,
                     answers |-> <<>>]
  BY <1>2, <1>3 DEF Idle
<1>5. Only(w)
  BY <1>2, <1>3 DEF Only
<1>6. Job(w) \in DOMAIN recorded /\ recorded[Job(w)] = workers[w].answers
      /\ DOMAIN recorded \subseteq 0..(next - 1)
  BY <1>1 DEF RunInv, Placed, Place
<1>7. Prepared' /\ Resting'
  BY <1>2, <1>5, PreparedKept DEF RunInv, Only, Resting
<1>8. Place(w)' /\ StaysStrict(w)' /\ Answered(w)'
  <2>1. Place(w)'
    BY <1>4 DEF Place, Busy, Job
  <2>2. StaysStrict(w)' /\ Answered(w)'
    BY <1>4 DEF StaysStrict, Answered
  <2> QED
    BY <2>1, <2>2
<1>9. Placed'
  <2>1. \A v \in Workers \ {w} : workers[v].phase \in Busy => Job(v) # Job(w)'
    BY <1>2, <1>4 DEF Job
  <2>2. DOMAIN recorded' \subseteq 0..(next' - 1) /\ next' \in Nat /\ next' >= next
    BY <1>2, <1>3, <1>6
  <2> QED
    BY <1>3, <1>5, <1>8, <2>1, <2>2, PlacedStep DEF RunInv
<1>10. Answering'
  BY <1>5, <1>8, AnsweringStep DEF RunInv
<1>11. Settled' = Settled \cup {Job(w)} /\ Job(w) \notin Settled
  <2> DEFINE settling == {u \in Workers : workers[u].phase = "settle"}
  <2>1. settling' = settling \ {w}
    BY <1>4, <1>5 DEF Only
  <2>2. \A v \in settling \ {w} : Job(v)' = Job(v) /\ Job(v) # Job(w)
    BY <1>1, <1>2, <1>5 DEF Only, Job, Busy
  <2>3. {Job(v) : v \in settling}' = {Job(v) : v \in settling} \ {Job(w)}
    BY <1>1, <2>1, <2>2
  <2>4. Job(w) \in {Job(v) : v \in settling}
    BY <1>1
  <2> HIDE DEF settling
  <2>5. Settled = DOMAIN recorded \ {Job(v) : v \in settling}
    BY DEF Settled, settling
  <2>6. Settled' = DOMAIN recorded \ {Job(v) : v \in settling}'
    BY <1>3 DEF Settled, settling
  <2> QED
    BY <1>6, <2>3, <2>4, <2>5, <2>6
<1>12. IsFiniteSet(Settled)
  <2>1. IsFiniteSet(0..(next - 1))
    <3>1. 0 \in Int /\ next - 1 \in Int
      BY <1>2
    <3> QED
      BY <3>1, FS_Interval, ZenonT(30)
  <2>2. Settled \subseteq 0..(next - 1)
    BY <1>6 DEF Settled
  <2> QED
    BY <2>1, <2>2, FS_Subset
<1>13. ASSUME NEW k
       PROVE  /\ Taken(k) \in Nat
              /\ Taken(k)' = Taken(k) + (IF OptionOf(recorded[Job(w)][k[1]], k[2]) = k[3]
                                         THEN 1 ELSE 0)
  <2> DEFINE Holds(j) == OptionOf(recorded[j][k[1]], k[2]) = k[3]
             takers == {j \in Settled : Holds(j)}
  <2>1. IsFiniteSet(takers) /\ Cardinality(takers) \in Nat /\ Job(w) \notin takers
    BY <1>11, <1>12, FS_Subset, FS_CardinalityType
  <2>2. Taken(k) = Cardinality(takers)
    BY DEF Taken
  <2>3. Taken(k)' = Cardinality({j \in Settled \cup {Job(w)} : Holds(j)})
    BY <1>3, <1>11 DEF Taken
  <2>4. {j \in Settled \cup {Job(w)} : Holds(j)} =
          IF Holds(Job(w)) THEN takers \cup {Job(w)} ELSE takers
    OBVIOUS
  <2> HIDE DEF takers, Holds
  <2>5. Cardinality(takers \cup {Job(w)}) = Cardinality(takers) + 1
    BY <2>1, FS_AddElement
  <2>6. Taken(k) \in Nat /\ Taken(k)' = Taken(k) + (IF Holds(Job(w)) THEN 1 ELSE 0)
    BY <2>1, <2>2, <2>3, <2>4, <2>5
  <2> QED
    BY <2>6 DEF Holds
<1>14. Counts'
  <2>1. cfg' = cfg /\ samples' = samples
    BY <1>3 DEF prepared
  <2>2. Numbers' = Numbers /\ \A num : Counted(num)' <=> Counted(num)
    BY <2>1 DEF Numbers, Counted
  <2> SUFFICES ASSUME samples = <<>>, NEW num \in Numbers, Counted(num),
                      Question(cfg.definition, num).kind \in ChoiceKinds \cup {"matrix"},
                      NEW k \in Places(Question(cfg.definition, num))
               PROVE  Taken(k)' = (IF k \in DOMAIN stats' THEN stats'[k] ELSE 0)
    BY <2>1, <2>2 DEF Counts
  <2> DEFINE q == Question(cfg.definition, num)
             old == IF k \in DOMAIN stats THEN stats[k] ELSE 0
  <2>3. Taken(k) = old
    BY DEF RunInv, Counts
  <2>4. StaysStrict(w) /\ Answered(w)
    BY DEF RunInv, Answering
  <2>5. /\ pending[w] = Reserved(workers[w].entries, workers[w].answers)
        /\ num \in DOMAIN workers[w].answers /\ Shaped(q, workers[w].answers[num])
        /\ isStrictRatioEntry(workers[w].entries[num])
    BY <1>1, <2>4 DEF StaysStrict, Answered
  <2>6. q.num = num
    BY DEF Numbers, Question
  <2>7. k \in pending[w] <=> OptionOf(recorded[Job(w)][k[1]], k[2]) = k[3]
    <3> HIDE DEF q
    <3> QED
      BY <1>6, <2>5, <2>6, ReservedIsAnswered DEF q
  <2>8. old \in Nat
    BY <1>13, <2>3
  <2>9. (IF k \in DOMAIN stats' THEN stats'[k] ELSE 0) = old + (IF k \in pending[w] THEN 1 ELSE 0)
    BY <1>3, <2>8
  <2> HIDE DEF old
  <2> QED
    BY <1>13, <2>3, <2>7, <2>8, <2>9
<1> QED
  BY <1>7, <1>9, <1>10, <1>14 DEF RunInv

-----------------------------------------------------------------------------
(* The theorem                                                             *)

LEMMA WorkerStepKeeps ==
  ASSUME RunInv, NEW w \in Workers, WorkerStep(w)
  PROVE  RunInv'
<1>1. CASE TakeJob(w)
  BY <1>1, TakeJobStep
<1>2. CASE Configure(w)
  BY <1>2, ConfigureStep
<1>3. CASE ConfigureFails(w)
  BY <1>3, LostStep DEF ConfigureFails, Busy
<1>4. CASE Build(w)
  BY <1>4, BuildStep
<1>5. CASE BuildFails(w)
  BY <1>5, LostStep DEF BuildFails, Busy
<1>6. CASE Submit(w)
  BY <1>6, SubmitStep
<1>7. CASE SubmitFails(w)
  BY <1>7, SubmitFailsStep
<1>8. CASE Settle(w)
  BY <1>8, SettleStep
<1> QED
  BY <1>1, <1>2, <1>3, <1>4, <1>5, <1>6, <1>7, <1>8 DEF WorkerStep

LEMMA ReturnStep ==
  ASSUME RunInv, Return
  PROVE  RunInv'
<1>1. /\ stage = "running" /\ stage' = "done"
      /\ UNCHANGED <<request, outcome, cancelled, prepared, working>>
      /\ \A w \in Workers : workers[w].phase = "idle"
  BY DEF Return
<1>2. /\ cfg' = cfg /\ options' = options /\ hooks' = hooks /\ samples' = samples /\ plan' = plan
      /\ next' = next /\ workers' = workers /\ pending' = pending /\ stats' = stats
      /\ recorded' = recorded
  BY <1>1 DEF prepared, working
<1>3. Prepared'
  <2>1. sampleCount' = sampleCount
    BY <1>2 DEF sampleCount
  <2> QED
    BY <1>1, <1>2, <2>1 DEF RunInv, Prepared
<1>4. Placed'
  BY <1>1, <1>2 DEF RunInv, Placed, Place, Apart, Busy, Job
<1>5. Answering'
  BY <1>1, <1>2 DEF Answering, StaysStrict, Answered
<1>6. Settled' = Settled
  BY <1>2 DEF Settled, Job
<1>7. Counts'
  BY <1>1, <1>2, <1>6, CountsKept DEF RunInv
<1> QED
  BY <1>1, <1>3, <1>4, <1>5, <1>7 DEF RunInv, Resting

LEMMA StutterStep ==
  ASSUME RunInv, UNCHANGED vars
  PROVE  RunInv'
<1>1. /\ request' = request /\ stage' = stage /\ prepared' = prepared /\ next' = next
      /\ workers' = workers /\ pending' = pending /\ stats' = stats /\ recorded' = recorded
  BY DEF vars, working
<1>2. Prepared' /\ Resting'
  BY <1>1, PreparedKept DEF RunInv, Resting
<1>3. Placed'
  BY <1>1 DEF RunInv, Placed, Place, Apart, Job
<1>4. cfg' = cfg /\ samples' = samples
  BY <1>1 DEF prepared
<1>5. Numbers' = Numbers /\ \A num : Counted(num)' <=> Counted(num)
  BY <1>4 DEF Numbers, Counted
<1>6. Answering'
  BY <1>1, <1>4, <1>5 DEF RunInv, Answering, StaysStrict, Answered
<1>7. Settled' = Settled
  BY <1>1 DEF Settled, Job
<1>8. Counts'
  BY <1>1, <1>7, CountsKept DEF RunInv
<1> QED
  BY <1>2, <1>3, <1>6, <1>8 DEF RunInv

LEMMA RunInvariant == Spec => []RunInv
<1>1. Init => RunInv
  BY InitInv
<1>2. RunInv /\ [Next]_vars => RunInv'
  BY PreparesStep, ReturnStep, StutterStep, WorkerStepKeeps DEF Next
<1> QED
  BY <1>1, <1>2, PTL DEF Spec

\* run_answer_runtime.go:67: at every moment of a run without a worksheet, the
\* counters the next answers are corrected by are the numbers of submitted and
\* settled jobs that took each option: nothing of a failed attempt, and no job
\* twice, for any number of workers, jobs, failures and retries.
THEOREM CountersAreExact == Spec => []StatsAreRecorded
<1>1. RunInv => StatsAreRecorded
  BY DEF RunInv, Counts, StatsAreRecorded, Numbers
<1> QED
  BY <1>1, RunInvariant, PTL

-----------------------------------------------------------------------------
(* The arithmetic of the correction                                        *)

\* consistency_weights.go:85: the parts are added one after the other.
LEMMA PrefixSums ==
  ASSUME NEW n \in Nat, NEW w \in [1..n -> Nat]
  PROVE  \E sum \in [0..n -> Nat] :
           /\ sum[0] = 0 /\ \A k \in 1..n : sum[k] = sum[k - 1] + w[k]
           /\ positiveTotal(w) = sum[n]
<1> DEFINE Part(k) == IF w[k] > 0 THEN w[k] ELSE 0
           UpTo(m, f) == f = [k \in 0..m |-> IF k = 0 THEN 0 ELSE f[k - 1] + Part(k)]
           summed == {m \in 0..n : \E f : UpTo(m, f)}
<1>1. Len(w) = n
  OBVIOUS
<1>2. n \in summed
  <2>1. 0 \in summed
    <3>1. UpTo(0, [k \in 0..0 |-> 0])
      OBVIOUS
    <3> HIDE DEF UpTo
    <3> QED
      BY <3>1
  <2>2. ASSUME NEW m \in 1..n, m - 1 \in summed PROVE m \in summed
    <3>1. PICK f : UpTo(m - 1, f)
      BY <2>2
    <3> HIDE DEF Part
    <3> DEFINE g == [k \in 0..m |-> IF k = m THEN f[m - 1] + Part(m) ELSE f[k]]
    <3>2. ASSUME NEW k \in 0..m PROVE g[k] = IF k = 0 THEN 0 ELSE g[k - 1] + Part(k)
      <4>1. CASE k = m
        <5>1. g[m] = f[m - 1] + Part(m) /\ g[m - 1] = f[m - 1]
          OBVIOUS
        <5> QED
          BY <4>1, <5>1
      <4>2. CASE k # m
        <5>1. k \in 0..(m - 1) /\ (k # 0 => k - 1 \in 0..(m - 1))
          BY <4>2
        <5>2. f[k] = IF k = 0 THEN 0 ELSE f[k - 1] + Part(k)
          BY <3>1, <5>1
        <5>3. g[k] = f[k] /\ (k # 0 => g[k - 1] = f[k - 1])
          BY <4>2, <5>1
        <5> QED
          BY <5>2, <5>3
      <4> QED
        BY <4>1, <4>2
    <3>3. DOMAIN g = 0..m /\ g = [k \in 0..m |-> g[k]]
      OBVIOUS
    <3> HIDE DEF g
    <3>4. UpTo(m, g)
      BY <3>2, <3>3
    <3>5. m \in 0..n
      OBVIOUS
    <3> HIDE DEF UpTo
    <3> QED
      BY <3>4, <3>5
  <2> HIDE DEF summed
  <2> QED
    BY <2>1, <2>2, CountsUpTo
<1> DEFINE sum == CHOOSE f : UpTo(n, f)
<1>3. UpTo(n, sum)
  BY <1>2
<1>4. positiveTotal(w) = sum[n]
  BY <1>1 DEF positiveTotal
<1> HIDE DEF sum
<1>5. sum[0] = 0 /\ \A k \in 1..n : sum[k] = sum[k - 1] + w[k]
  <2>1. \A k \in 0..n : sum[k] = IF k = 0 THEN 0 ELSE sum[k - 1] + Part(k)
    BY <1>3
  <2>2. \A k \in 1..n : Part(k) = w[k]
    OBVIOUS
  <2> QED
    BY <2>1, <2>2
<1>6. \A k \in 0..n : sum[k] \in Nat
  <2> DEFINE natural == {k \in 0..n : sum[k] \in Nat}
  <2>1. 0 \in natural /\ \A k \in 1..n : k - 1 \in natural => k \in natural
    BY <1>5
  <2> HIDE DEF natural
  <2>2. \A k \in 0..n : k \in natural
    BY <2>1, CountsUpTo
  <2> QED
    BY <2>2 DEF natural
<1>7. DOMAIN sum = 0..n /\ sum = [k \in 0..n |-> sum[k]]
  BY <1>3
<1>8. sum \in [0..n -> Nat]
  BY <1>6, <1>7
<1> QED
  BY <1>4, <1>5, <1>8

\* A sum of natural numbers is one, no part is larger, and it is zero when every
\* part is.
LEMMA TotalIsNatural ==
  ASSUME NEW n \in Nat, NEW w \in [1..n -> Nat]
  PROVE  /\ positiveTotal(w) \in Nat
         /\ \A i \in 1..n : w[i] <= positiveTotal(w)
         /\ (\A i \in 1..n : w[i] = 0) => positiveTotal(w) = 0
<1>1. PICK sum \in [0..n -> Nat] :
        /\ sum[0] = 0 /\ \A k \in 1..n : sum[k] = sum[k - 1] + w[k]
        /\ positiveTotal(w) = sum[n]
  BY PrefixSums
<1>2. \A i \in 1..n : w[i] <= sum[n]
  <2> DEFINE fine == {k \in 0..n : \A i \in 1..k : w[i] <= sum[k]}
  <2>1. 0 \in fine
    OBVIOUS
  <2>2. ASSUME NEW k \in 1..n, k - 1 \in fine PROVE k \in fine
    <3> SUFFICES ASSUME NEW i \in 1..k PROVE w[i] <= sum[k]
      OBVIOUS
    <3>1. w[i] \in Nat /\ w[k] \in Nat /\ sum[k - 1] \in Nat /\ sum[k] = sum[k - 1] + w[k]
      BY <1>1
    <3>2. i = k \/ (i \in 1..(k - 1) /\ w[i] <= sum[k - 1])
      BY <2>2
    <3> QED
      BY <3>1, <3>2
  <2> HIDE DEF fine
  <2>3. n \in fine
    BY <2>1, <2>2, CountsUpTo
  <2> QED
    BY <2>3 DEF fine
<1>3. ASSUME \A i \in 1..n : w[i] = 0 PROVE sum[n] = 0
  <2> DEFINE empty == {k \in 0..n : sum[k] = 0}
  <2>1. 0 \in empty /\ \A k \in 1..n : k - 1 \in empty => k \in empty
    BY <1>1, <1>3
  <2> HIDE DEF empty
  <2>2. n \in empty
    BY <2>1, CountsUpTo
  <2> QED
    BY <2>2 DEF empty
<1> QED
  BY <1>1, <1>2, <1>3

\* Division rounds down, and a larger fraction is not rounded below a smaller.
LEMMA DivisionGrows ==
  ASSUME NEW a \in Int, NEW b \in Int, NEW c \in Int, NEW d \in Int,
         b > 0, d > 0, a * d <= c * b
  PROVE  a \div b \in Int /\ a \div b <= c \div d
<1> DEFINE q == a \div b
           p == c \div d
<1>1. q \in Int /\ b * q <= a
  OBVIOUS
<1>2. p \in Int /\ c < d * (p + 1)
  OBVIOUS
<1> HIDE DEF q, p
<1>3. ASSUME q > p PROVE FALSE
  <2>1. d * (p + 1) <= d * q
    BY <1>1, <1>2, <1>3
  <2>2. c < d * q
    BY <1>1, <1>2, <2>1
  <2>3. c * b < (d * q) * b
    BY <1>1, <2>2
  <2>4. (d * q) * b = d * (b * q)
    BY <1>1
  <2>5. d * (b * q) <= d * a
    BY <1>1
  <2> QED
    BY <1>1, <2>3, <2>4, <2>5
<1> QED
  BY <1>1, <1>2, <1>3 DEF q, p

LEMMA ExpGrows ==
  ASSUME NEW x \in Int, NEW y \in Int, 0 - 1800 <= x, x <= y, y <= 1800
  PROVE  Exp(x) \in Int /\ Exp(y) \in Int /\ Exp(x) <= Exp(y)
<1>1. (1000 * (2000 + x)) * (2000 - y) <= (1000 * (2000 + y)) * (2000 - x)
  OBVIOUS
<1>2. (1000 * (2000 + y)) * (2000 - x) <= (1000 * (2000 + y)) * (2000 - x)
  OBVIOUS
<1>3. /\ 2000 - x > 0 /\ 2000 - x \in Int /\ 2000 - y > 0 /\ 2000 - y \in Int
      /\ 1000 * (2000 + x) \in Int /\ 1000 * (2000 + y) \in Int
  OBVIOUS
<1>4. (1000 * (2000 + x)) \div (2000 - x) \in Int
      /\ (1000 * (2000 + x)) \div (2000 - x) <= (1000 * (2000 + y)) \div (2000 - y)
  BY <1>1, <1>3, DivisionGrows
<1>5. (1000 * (2000 + y)) \div (2000 - y) \in Int
  BY <1>3
<1> QED
  BY <1>4, <1>5 DEF Exp

\* distribution_runtime.go:48: the exponent grows with the gap, within bounds.
LEMMA ExponentGrows ==
  ASSUME NEW g \in Int, NEW h \in Int, g <= h, NEW total \in Nat, NEW p \in {Standard, Priority}
  PROVE  /\ Exponent(g, total, p) \in Int
         /\ 0 - 1800 <= Exponent(g, total, p) /\ Exponent(g, total, p) <= 1800
         /\ Exponent(g, total, p) <= Exponent(h, total, p)
<1> DEFINE warm == IF total < p.warmup THEN total ELSE p.warmup
           Limited(x) == Clamp(x, 0 - p.limit, p.limit)
<1>1. /\ p.warmup \in 1..14 /\ p.gain \in Nat /\ p.limit \in Nat
      /\ p.least \in Nat \ {0} /\ p.most \in Nat /\ p.least <= p.most
      /\ p.gain * p.limit <= 1800000
  BY DEF Standard, Priority
<1>2. warm \in 0..p.warmup
  BY <1>1
<1>3. \A x \in Int : Limited(x) \in (0 - p.limit)..p.limit
  BY <1>1 DEF Clamp
<1>4. Limited(g) <= Limited(h)
  BY <1>1 DEF Clamp
<1> HIDE DEF warm, Limited
<1>5. ASSUME NEW l \in Int, NEW m \in Int, l <= m
      PROVE  (p.gain * warm * l) \div (1000 * p.warmup) \in Int
             /\ (p.gain * warm * l) \div (1000 * p.warmup)
                  <= (p.gain * warm * m) \div (1000 * p.warmup)
  <2> DEFINE s == p.gain * warm
             b == 1000 * p.warmup
  <2>1. s \in Nat /\ b \in Nat /\ b > 0
    BY <1>1, <1>2
  <2> HIDE DEF s, b
  <2>2. s * l <= s * m /\ s * l \in Int /\ s * m \in Int
    BY <1>5, <2>1
  <2>3. (s * l) * b <= (s * m) * b
    BY <2>1, <2>2
  <2> QED
    BY <2>1, <2>2, <2>3, DivisionGrows DEF s, b
<1>6. \A x \in Int : Exponent(x, total, p) =
                        (p.gain * warm * Limited(x)) \div (1000 * p.warmup)
  BY DEF Exponent, warm, Limited
<1>7. Exponent(g, total, p) <= Exponent(h, total, p) /\ Exponent(g, total, p) \in Int
  BY <1>3, <1>4, <1>5, <1>6
<1>8. /\ (p.gain * warm * (0 - p.limit)) \div (1000 * p.warmup) <= Exponent(g, total, p)
      /\ Exponent(g, total, p) <= (p.gain * warm * p.limit) \div (1000 * p.warmup)
  <2> DEFINE l == Limited(g)
             m == 0 - p.limit
  <2>1. l \in Int /\ m \in Int /\ p.limit \in Int /\ m <= l /\ l <= p.limit
    BY <1>1, <1>3
  <2>2. Exponent(g, total, p) = (p.gain * warm * l) \div (1000 * p.warmup)
    BY <1>6
  <2> HIDE DEF l, m
  <2>3. (p.gain * warm * m) \div (1000 * p.warmup) <= (p.gain * warm * l) \div (1000 * p.warmup)
    BY <1>5, <2>1
  <2>4. (p.gain * warm * l) \div (1000 * p.warmup)
          <= (p.gain * warm * p.limit) \div (1000 * p.warmup)
    BY <1>5, <2>1
  <2> QED
    BY <2>2, <2>3, <2>4 DEF m
<1> DEFINE b == 1000 * p.warmup
           top == p.gain * warm * p.limit
           low == p.gain * warm * (0 - p.limit)
           high == top \div b
           least == low \div b
<1>9. top <= 1800 * b /\ top \in Nat /\ low = 0 - top
  <2>1. top = (p.gain * p.limit) * warm
    BY <1>1, <1>2
  <2>2. (p.gain * p.limit) * warm <= 1800000 * warm
    BY <1>1, <1>2
  <2>3. 1800000 * warm <= 1800 * b
    BY <1>1, <1>2
  <2>4. top \in Nat /\ low = 0 - top
    BY <1>1, <1>2
  <2> QED
    BY <1>1, <1>2, <2>1, <2>2, <2>3, <2>4
<1>10. b \in Nat /\ b > 0
  BY <1>1
<1>11. least <= Exponent(g, total, p) /\ Exponent(g, total, p) <= high
  BY <1>8
<1> HIDE DEF b, top, low
<1>12. high \in Int /\ high <= 1800
  <2>1. top * 1 <= 1800 * b
    BY <1>9
  <2>2. high \in Int /\ high <= 1800 \div 1
    BY <1>9, <1>10, <2>1, DivisionGrows
  <2> QED
    BY <2>2
<1>13. least \in Int /\ 0 - 1800 <= least
  <2>1. (0 - 1800) * b <= low * 1
    BY <1>9, <1>10
  <2>2. (0 - 1800) \div 1 <= least
    BY <1>9, <1>10, <2>1, DivisionGrows
  <2>3. (0 - 1800) \div 1 = 0 - 1800 /\ least \in Int
    BY <1>9, <1>10
  <2> QED
    BY <2>2, <2>3
<1> HIDE DEF high, least
<1> DEFINE e == Exponent(g, total, p)
<1>14. e \in Int /\ least <= e /\ e <= high
  BY <1>7, <1>11
<1> HIDE DEF e
<1>15. 0 - 1800 <= e /\ e <= 1800
  BY <1>12, <1>13, <1>14
<1> QED
  BY <1>7, <1>15 DEF e

\* distribution_runtime.go:49: so does the factor, which is never zero.
LEMMA FactorGrows ==
  ASSUME NEW g \in Int, NEW h \in Int, g <= h, NEW total \in Nat, NEW p \in {Standard, Priority}
  PROVE  Factor(g, total, p) \in Nat \ {0} /\ Factor(g, total, p) <= Factor(h, total, p)
<1>1. p.least \in Nat \ {0} /\ p.most \in Nat /\ p.least <= p.most
  BY DEF Standard, Priority
<1> DEFINE x == Exponent(g, total, p)
           y == Exponent(h, total, p)
<1>2. x \in Int /\ 0 - 1800 <= x /\ x <= y
  BY ExponentGrows
<1>3. y \in Int /\ y <= 1800
  BY ExponentGrows
<1> HIDE DEF x, y
<1>4. Exp(x) \in Int /\ Exp(y) \in Int /\ Exp(x) <= Exp(y)
  BY <1>2, <1>3, ExpGrows
<1>5. Clamp(Exp(x), p.least, p.most) \in Nat \ {0}
      /\ Clamp(Exp(x), p.least, p.most) <= Clamp(Exp(y), p.least, p.most)
  BY <1>1, <1>4 DEF Clamp
<1> QED
  BY <1>5 DEF Factor, x, y

-----------------------------------------------------------------------------
(* Every stage keeps a natural weight per option                           *)

LEMMA FittedIsWeighted ==
  ASSUME NEW n \in Nat \ {0}, NEW w, \A i \in DOMAIN w : w[i] \in Int
  PROVE  /\ fitProbabilityCount(w, n) \in [1..n -> Int]
         /\ Positive(fitProbabilityCount(w, n)) # {}
         /\ DOMAIN w = 1..n /\ w = [i \in 1..n |-> w[i]] /\ Positive(w) # {}
              => fitProbabilityCount(w, n) = w
         /\ DOMAIN w = 1..n /\ Positive(w) = {}
              => fitProbabilityCount(w, n) = [i \in 1..n |-> 1]
<1> DEFINE cut == [i \in 1..n |-> IF i \in DOMAIN w THEN w[i] ELSE 0]
           ones == [i \in 1..n |-> 1]
<1>1. cut \in [1..n -> Int] /\ ones \in [1..n -> Int]
  OBVIOUS
<1>2. 1 \in Positive(ones)
  BY DEF Positive
<1>3. DOMAIN w = 1..n => Positive(cut) = Positive(w)
  BY DEF Positive
<1>4. DOMAIN w = 1..n /\ w = [i \in 1..n |-> w[i]] => cut = w
  <2> SUFFICES ASSUME DOMAIN w = 1..n, w = [i \in 1..n |-> w[i]] PROVE cut = w
    OBVIOUS
  <2>1. cut = [i \in 1..n |-> w[i]]
    OBVIOUS
  <2> QED
    BY <2>1
<1>5. fitProbabilityCount(w, n) = IF Positive(cut) = {} THEN ones ELSE cut
  BY DEF fitProbabilityCount
<1> HIDE DEF cut, ones
<1>6. CASE Positive(cut) = {}
  <2>1. fitProbabilityCount(w, n) = ones
    BY <1>5, <1>6
  <2> QED
    BY <2>1, <1>1, <1>2, <1>3, <1>6 DEF ones
<1>7. CASE Positive(cut) # {}
  <2>1. fitProbabilityCount(w, n) = cut
    BY <1>5, <1>7
  <2> QED
    BY <2>1, <1>1, <1>3, <1>4, <1>7
<1> QED
  BY <1>6, <1>7

\* distribution_runtime.go:61: the target has the weights that are positive, or
\* an even one when none is.
LEMMA TargetIsWeighted ==
  ASSUME NEW n \in Nat \ {0}, NEW w \in [1..n -> Int]
  PROVE  LET t == normalizeDistributionTarget(w, n)
         IN  /\ t \in [1..n -> Nat]
             /\ Positive(w) # {} => \A i \in 1..n : t[i] = IF w[i] > 0 THEN w[i] ELSE 0
             /\ Positive(w) = {} => \A i \in 1..n : t[i] = 1
<1> DEFINE fitted == fitProbabilityCount(w, n)
           t == [i \in 1..n |-> IF fitted[i] > 0 THEN fitted[i] ELSE 0]
<1>1. /\ DOMAIN w = 1..n /\ w = [i \in 1..n |-> w[i]]
      /\ \A i \in DOMAIN w : w[i] \in Int
  OBVIOUS
<1>2. /\ fitted \in [1..n -> Int]
      /\ Positive(w) # {} => fitted = w
      /\ Positive(w) = {} => fitted = [i \in 1..n |-> 1]
  BY <1>1, FittedIsWeighted
<1>3. normalizeDistributionTarget(w, n) = t
  BY DEF normalizeDistributionTarget
<1> HIDE DEF fitted
<1>4. \A i \in 1..n : fitted[i] \in Int
  BY <1>2
<1> QED
  BY <1>2, <1>3, <1>4

\* distribution.go:54: the first table with a weight, if there is one.
LEMMA FirstIsTable ==
  ASSUME NEW m \in Nat, NEW tables \in [1..m -> Seq(Int)]
  PROVE  FirstWeighted(tables) \in Seq(Int)
<1> DEFINE usable == {k \in DOMAIN tables : Positive(tables[k]) # {}}
<1>1. CASE usable = {}
  BY <1>1 DEF FirstWeighted, NoWeights
<1>2. CASE usable # {}
  <2>1. usable \subseteq 1..m /\ usable \subseteq Nat
    OBVIOUS
  <2> HIDE DEF usable
  <2>2. Min(usable) \in 1..m
    BY <1>2, <2>1, MinIsLeast
  <2>3. FirstWeighted(tables) = tables[Min(usable)]
    BY <1>2 DEF FirstWeighted, usable
  <2> QED
    BY <2>2, <2>3
<1> QED
  BY <1>1, <1>2

LEMMA PairsJoined ==
  ASSUME NEW S, NEW a \in Seq(S), NEW b \in Seq(S), Len(a) = 2, Len(b) = 2
  PROVE  a \o b \in [1..4 -> S]
<1> DEFINE s == a \o b
<1>1. s \in Seq(S) /\ Len(s) = Len(a) + Len(b)
  BY ConcatProperties, Zenon
<1> HIDE DEF s
<1>2. s \in [1..Len(s) -> S]
  BY <1>1, LenProperties
<1>3. Len(s) = 4
  BY <1>1
<1> QED
  BY <1>2, <1>3 DEF s

LEMMA EffectiveIsWeighted ==
  ASSUME NEW e, SoundTables(e), NEW row, NEW n \in Nat \ {0}
  PROVE  effectiveProbabilityValues(e, row, n) \in [1..n -> Int]
<1> DEFINE Row(table) == IF row \in DOMAIN table THEN table[row] ELSE NoWeights
           rows    == Preferred(e, Row(e.customRows), Row(e.rows))
           asked   == Preferred(e, e.custom, e.options)
           tables  == rows \o asked
<1>1. Row(e.customRows) \in Seq(Int) /\ Row(e.rows) \in Seq(Int)
  BY DEF SoundTables, NoWeights
<1> HIDE DEF Row
<1>2. rows \in Seq(Seq(Int)) /\ Len(rows) = 2
  BY <1>1 DEF Preferred
<1>3. asked \in Seq(Seq(Int)) /\ Len(asked) = 2
  BY DEF Preferred, SoundTables
<1> HIDE DEF rows, asked
<1>4. tables \in [1..4 -> Seq(Int)]
  BY <1>2, <1>3, PairsJoined
<1> HIDE DEF tables
<1>5. FirstWeighted(tables) \in Seq(Int)
  BY <1>4, FirstIsTable
<1>6. \A i \in DOMAIN FirstWeighted(tables) : FirstWeighted(tables)[i] \in Int
  BY <1>5
<1>7. effectiveProbabilityValues(e, row, n) = fitProbabilityCount(FirstWeighted(tables), n)
  BY DEF effectiveProbabilityValues, tables, rows, asked, Row
<1> QED
  BY <1>6, <1>7, FittedIsWeighted

LEMMA TendedIsWeighted ==
  ASSUME NEW n \in Nat \ {0}, NEW w \in [1..n -> Int], NEW base \in Nat
  PROVE  applyDimensionTendency(w, n, base) \in [1..n -> Int]
<1> DEFINE fitted == fitProbabilityCount(w, n)
           Distance(i) == IF i > base THEN i - base ELSE base - i
<1>1. fitted \in [1..n -> Int]
  BY FittedIsWeighted
<1>2. ASSUME NEW i \in 1..n
      PROVE  tendencyDecay(Distance(i), tendencyWindow(n)) \in {1000, 775, 550, 250}
  BY DEF tendencyDecay, tendencyWindow
<1> HIDE DEF fitted, Distance
<1>3. ASSUME NEW i \in 1..n
      PROVE  fitted[i] * tendencyDecay(Distance(i), tendencyWindow(n)) \in Int
  <2>1. fitted[i] \in Int
    BY <1>1
  <2> QED
    BY <2>1, <1>2
<1> QED
  BY <1>3 DEF applyDimensionTendency, fitted, Distance

-----------------------------------------------------------------------------
(* The correction leans and never overrules                                *)

\* What the correction keeps of a target t and owes to the counts c.
Leaning(n, t, c, r) ==
  /\ r \in [1..n -> Nat]
  /\ \A i \in 1..n : r[i] > 0 <=> t[i] > 0
  /\ \A i, j \in 1..n : t[i] = t[j] /\ c[i] < c[j] => r[i] >= r[j]

\* distribution_runtime.go:27: the corrected weights, whatever was counted.
LEMMA ResolvedIsSound ==
  ASSUME NEW n \in Nat \ {0}, NEW t \in [1..n -> Nat], NEW c \in [1..n -> Nat],
         NEW total \in Nat, NEW p \in {Standard, Priority},
         NEW r, r = resolveDistributionProbabilitiesWithPriority(t, c, total, p)
  PROVE  Leaning(n, t, c, r)
<1>1. CASE total <= 0
  <2>1. r = t
    BY <1>1 DEF resolveDistributionProbabilitiesWithPriority
  <2> QED
    BY <2>1 DEF Leaning
<1>2. CASE total > 0
  <2> DEFINE T == positiveTotal(t)
             Gap(i) == Share(t[i], T) - Share(c[i], total)
             F(i) == Factor(Gap(i), total, p)
  <2>1. T \in Nat /\ \A i \in 1..n : t[i] <= T
    BY TotalIsNatural
  <2> HIDE DEF T
  <2>2. ASSUME NEW i \in 1..n, NEW j \in 1..n, t[i] = t[j], t[i] > 0, c[i] <= c[j]
        PROVE  Gap(i) \in Int /\ Gap(j) \in Int /\ Gap(j) <= Gap(i)
    <3>1. T > 0 /\ t[i] \in Nat /\ c[i] \in Nat /\ c[j] \in Nat
      BY <2>1, <2>2
    <3>2. Share(t[i], T) \in Int /\ Share(t[j], T) = Share(t[i], T)
      BY <3>1, <2>1, <2>2 DEF Share
    <3> DEFINE x == 1000 * c[i]
               y == 1000 * c[j]
    <3>3. x \in Int /\ y \in Int /\ x <= y
      BY <3>1, <2>2
    <3>4. x \div total \in Int /\ x \div total <= y \div total
      <4> HIDE DEF x, y
      <4>1. x * total <= y * total /\ total \in Int /\ total > 0
        BY <3>3, <1>2
      <4> QED
        BY <3>3, <4>1, DivisionGrows
    <3>5. y \div total \in Int
      BY <3>3, <1>2
    <3>6. Share(c[i], total) \in Int /\ Share(c[j], total) \in Int
          /\ Share(c[i], total) <= Share(c[j], total)
      BY <3>4, <3>5 DEF Share
    <3> QED
      BY <3>2, <3>6
  <2> HIDE DEF Gap
  <2>3. ASSUME NEW i \in 1..n, t[i] > 0 PROVE F(i) \in Nat \ {0}
    <3>1. c[i] \in Nat /\ c[i] <= c[i]
      OBVIOUS
    <3>2. Gap(i) \in Int /\ Gap(i) <= Gap(i)
      BY <2>2, <2>3, <3>1
    <3> QED
      BY <3>2, FactorGrows
  <2>4. ASSUME NEW i \in 1..n, NEW j \in 1..n, t[i] = t[j], t[i] > 0, c[i] < c[j]
        PROVE  F(j) <= F(i)
    <3>1. Gap(i) \in Int /\ Gap(j) \in Int /\ Gap(j) <= Gap(i)
      BY <2>2, <2>4
    <3> QED
      BY <3>1, FactorGrows
  <2>5. r = [i \in 1..n |-> IF t[i] <= 0 THEN 0 ELSE t[i] * F(i)]
    BY <1>2 DEF resolveDistributionProbabilitiesWithPriority, Gap, T
  <2> HIDE DEF F
  <2>6. ASSUME NEW i \in 1..n
        PROVE  /\ t[i] \in Nat
               /\ t[i] > 0 => r[i] = t[i] * F(i) /\ r[i] \in Nat /\ r[i] > 0
               /\ ~(t[i] > 0) => r[i] = 0
    <3>1. t[i] \in Nat
      OBVIOUS
    <3>2. CASE t[i] > 0
      <4>1. r[i] = t[i] * F(i) /\ F(i) \in Nat /\ F(i) > 0
        BY <2>3, <2>5, <3>1, <3>2
      <4>2. t[i] * F(i) \in Nat /\ t[i] * F(i) > 0
        BY <3>1, <3>2, <4>1
      <4> QED
        BY <3>1, <3>2, <4>1, <4>2
    <3>3. CASE ~(t[i] > 0)
      BY <2>5, <3>1, <3>3
    <3> QED
      BY <3>2, <3>3
  <2>7. r \in [1..n -> Nat]
    <3>1. \A i \in 1..n : r[i] \in Nat
      BY <2>6
    <3> QED
      BY <2>5, <3>1
  <2>8. \A i \in 1..n : r[i] > 0 <=> t[i] > 0
    BY <2>6
  <2>9. ASSUME NEW i \in 1..n, NEW j \in 1..n, t[i] = t[j], c[i] < c[j] PROVE r[i] >= r[j]
    <3>1. CASE t[i] > 0
      <4>1. F(j) <= F(i) /\ F(i) \in Nat /\ F(j) \in Nat
        BY <2>3, <2>4, <2>9, <3>1
      <4>2. r[i] = t[i] * F(i) /\ r[j] = t[i] * F(j) /\ t[i] \in Nat
        BY <2>6, <2>9, <3>1
      <4>3. t[i] * F(j) <= t[i] * F(i)
        BY <4>1, <4>2
      <4> QED
        BY <4>1, <4>2, <4>3
    <3>2. CASE ~(t[i] > 0)
      BY <2>6, <2>9, <3>2
    <3> QED
      BY <3>1, <3>2
  <2> QED
    BY <2>7, <2>8, <2>9 DEF Leaning
<1> QED
  BY <1>1, <1>2

\* What enforcing the order of a target t keeps of weights r.
Ranked(n, t, r, w) ==
  /\ w \in [1..n -> Nat]
  /\ \A i \in 1..n : w[i] > 0 <=> t[i] > 0
  /\ \A i, j \in 1..n : t[i] = t[j] /\ r[i] >= r[j] => w[i] >= w[j]
  /\ \A i, j \in 1..n : t[i] < t[j] => w[i] <= w[j]
  /\ r = t => w = t

\* distribution_runtime.go:85: enforcing the order of the target keeps what the
\* correction kept, and lets no less wanted option overtake.
LEMMA RankedIsSound ==
  ASSUME NEW n \in Nat \ {0}, NEW t \in [1..n -> Nat], NEW r \in [1..n -> Nat],
         \A i \in 1..n : r[i] > 0 <=> t[i] > 0,
         NEW reference \in [1..n -> Int],
         \A i \in 1..n : t[i] = IF reference[i] > 0 THEN reference[i] ELSE 0,
         NEW w, w = enforceReferenceRankOrder(r, reference)
  PROVE  Ranked(n, t, r, w)
<1> DEFINE Rivals(i) == {r[i]} \cup {r[j] : j \in {k \in DOMAIN r : reference[k] > reference[i]}}
           Lowest(i) == Min(Rivals(i))
<1>1. ASSUME NEW i \in 1..n
      PROVE  /\ Lowest(i) \in Rivals(i) /\ \A x \in Rivals(i) : Lowest(i) <= x
             /\ Lowest(i) \in Nat
  <2>1. Rivals(i) \subseteq Nat /\ Rivals(i) # {}
    OBVIOUS
  <2> HIDE DEF Rivals
  <2> QED
    BY <2>1, MinIsLeast
<1>2. ASSUME NEW i \in 1..n, t[i] > 0, NEW x
      PROVE  x \in Rivals(i) <=> x = r[i] \/ \E k \in 1..n : t[k] > t[i] /\ x = r[k]
  <2>1. \A k \in 1..n : reference[k] > reference[i] <=> t[k] > t[i]
    BY <1>2
  <2>2. x \in Rivals(i) <=> x = r[i] \/ \E k \in 1..n : reference[k] > reference[i] /\ x = r[k]
    OBVIOUS
  <2> HIDE DEF Rivals
  <2> QED
    BY <2>1, <2>2
<1>3. w = [i \in 1..n |-> IF i \notin Positive(reference) THEN r[i] ELSE Lowest(i)]
  BY DEF enforceReferenceRankOrder
<1>4. \A i \in 1..n : i \in Positive(reference) <=> t[i] > 0
  BY DEF Positive
<1> HIDE DEF Rivals, Lowest
<1>5. \A i \in 1..n : t[i] \in Nat /\ r[i] \in Nat
  OBVIOUS
<1>6. ASSUME NEW i \in 1..n
      PROVE  w[i] = IF t[i] > 0 THEN Lowest(i) ELSE 0
  <2>1. w[i] = IF t[i] > 0 THEN Lowest(i) ELSE r[i]
    BY <1>3, <1>4
  <2>2. ~(t[i] > 0) => r[i] = 0
    BY <1>5
  <2> QED
    BY <2>1, <2>2
<1>7. w \in [1..n -> Nat]
  BY <1>1, <1>3
<1>8. ASSUME NEW i \in 1..n PROVE w[i] > 0 <=> t[i] > 0
  <2>1. CASE t[i] > 0
    <3>1. Lowest(i) = r[i] \/ \E k \in 1..n : t[k] > t[i] /\ Lowest(i) = r[k]
      BY <1>1, <1>2, <2>1
    <3>2. PICK k \in 1..n : Lowest(i) = r[k] /\ t[k] >= t[i]
      BY <1>5, <3>1
    <3>3. t[k] > 0 /\ r[k] > 0
      BY <1>5, <2>1, <3>2
    <3> QED
      BY <1>6, <2>1, <3>2, <3>3
  <2>2. CASE ~(t[i] > 0)
    BY <1>6, <2>2
  <2> QED
    BY <2>1, <2>2
<1>9. ASSUME NEW i \in 1..n, NEW j \in 1..n, t[i] = t[j], r[i] >= r[j] PROVE w[i] >= w[j]
  <2>1. CASE t[i] > 0
    <3>1. Lowest(j) <= Lowest(i)
      <4>1. CASE Lowest(i) = r[i]
        <5>1. Lowest(j) <= r[j]
          BY <1>1, <1>2, <1>9, <2>1
        <5> QED
          BY <1>1, <1>5, <1>9, <4>1, <5>1
      <4>2. CASE \E k \in 1..n : t[k] > t[i] /\ Lowest(i) = r[k]
        <5>1. PICK k \in 1..n : t[k] > t[j] /\ Lowest(i) = r[k]
          BY <1>9, <4>2
        <5>2. r[k] \in Rivals(j)
          BY <1>2, <1>9, <2>1, <5>1
        <5> QED
          BY <1>1, <5>1, <5>2
      <4> QED
        BY <1>1, <1>2, <2>1, <4>1, <4>2
    <3> QED
      BY <1>1, <1>6, <1>9, <2>1, <3>1
  <2>2. CASE ~(t[i] > 0)
    BY <1>6, <1>9, <2>2
  <2> QED
    BY <2>1, <2>2
<1>10. ASSUME NEW i \in 1..n, NEW j \in 1..n, t[i] < t[j] PROVE w[i] <= w[j]
  <2>1. t[j] > 0 /\ w[j] = Lowest(j)
    BY <1>5, <1>6, <1>10
  <2>2. CASE t[i] > 0
    <3>1. Lowest(j) \in Rivals(i)
      <4>1. CASE Lowest(j) = r[j]
        BY <1>2, <1>10, <2>2, <4>1
      <4>2. CASE \E k \in 1..n : t[k] > t[j] /\ Lowest(j) = r[k]
        <5>1. PICK k \in 1..n : t[k] > t[j] /\ Lowest(j) = r[k]
          BY <4>2
        <5>2. t[i] \in Nat /\ t[j] \in Nat /\ t[k] \in Nat
          BY <1>5
        <5>3. t[k] > t[i]
          BY <1>10, <5>1, <5>2
        <5> QED
          BY <1>2, <2>2, <5>1, <5>3
      <4> QED
        BY <1>1, <1>2, <2>1, <4>1, <4>2
    <3> QED
      BY <1>1, <1>6, <2>1, <2>2, <3>1
  <2>3. CASE ~(t[i] > 0)
    <3>1. w[i] = 0 /\ Lowest(j) \in Nat
      BY <1>1, <1>6, <2>3
    <3> QED
      BY <2>1, <3>1
  <2> QED
    BY <2>2, <2>3
<1>11. ASSUME r = t PROVE w = t
  <2>1. ASSUME NEW i \in 1..n PROVE w[i] = t[i]
    <3>1. CASE t[i] > 0
      <4>1. PICK k \in 1..n : Lowest(i) = t[k] /\ t[k] >= t[i]
        BY <1>1, <1>2, <1>5, <1>11, <3>1
      <4>2. Lowest(i) <= t[i]
        BY <1>1, <1>2, <1>11, <3>1
      <4> QED
        BY <1>5, <1>6, <3>1, <4>1, <4>2
    <3>2. CASE ~(t[i] > 0)
      BY <1>5, <1>6, <3>2
    <3> QED
      BY <3>1, <3>2
  <2> QED
    BY <1>3, <2>1
<1> QED
  BY <1>7, <1>8, <1>9, <1>10, <1>11 DEF Ranked

-----------------------------------------------------------------------------
(* The question, over every history of draws                               *)

CountsInv == entry \in Cases /\ counts \in [1..Options -> Nat]

LEMMA CountsAreNatural == CorrectionSpec => []CountsInv
<1>1. CorrectionInit => CountsInv
  BY DEF CorrectionInit, CountsInv, NoCounts
<1>2. CountsInv /\ [Draw]_question => CountsInv'
  <2> SUFFICES ASSUME CountsInv, Draw PROVE CountsInv'
    BY DEF CountsInv, question
  <2>1. PICK i : counts' = [counts EXCEPT ![i] = @ + 1]
    BY DEF Draw
  <2>2. counts' = [k \in 1..Options |-> IF k = i THEN counts[k] + 1 ELSE counts[k]]
    BY <2>1 DEF CountsInv
  <2>3. \A k \in 1..Options : counts[k] \in Nat
    BY DEF CountsInv
  <2>4. counts' \in [1..Options -> Nat]
    BY <2>2, <2>3
  <2> QED
    BY <2>4 DEF CountsInv, Draw
<1> QED
  BY <1>1, <1>2, PTL DEF CorrectionSpec

\* run_answer_runtime.go:65: whatever has been counted, the weights of the next
\* draw are sound.
LEMMA WeightsAreSound == CountsInv => CorrectionSound
<1> SUFFICES ASSUME CountsInv PROVE CorrectionSound
  OBVIOUS
<1> DEFINE n == Options
           values  == effectiveProbabilityValues(entry.e, entry.row, n)
           strict  == isStrictRatioEntry(entry.e)
           boosted == IF strict THEN values ELSE applyPersonaBoost(values, entry.named)
           tended  == IF entry.base = 0 THEN boosted
                      ELSE applyDimensionTendency(boosted, n, entry.base)
           target  == normalizeDistributionTarget(tended, n)
           p == IF entry.base = 0 THEN Standard ELSE Priority
           Resolved(c) == resolveDistributionProbabilitiesWithPriority(
                            target, c, positiveTotal(c), p)
           corrected == strict \/ entry.base # 0
<1>1. n \in Nat \ {0} /\ SoundTables(entry.e) /\ entry.base \in Nat
  BY CorrectionAssumption DEF CountsInv
<1>2. ASSUME NEW c
      PROVE  WeightsAfter(c) = IF ~corrected THEN tended
                               ELSE IF strict THEN enforceReferenceRankOrder(Resolved(c), tended)
                               ELSE Resolved(c)
  BY DEF WeightsAfter, selectionEntry
<1>3. values \in [1..n -> Int]
  BY <1>1, EffectiveIsWeighted
<1> HIDE DEF values
<1>4. boosted \in [1..n -> Int]
  <2>1. \A i \in 1..n : values[i] \in Int /\ personaBoostFactor * values[i] \in Int
    BY <1>3 DEF personaBoostFactor
  <2> QED
    BY <1>3, <2>1 DEF applyPersonaBoost
<1> HIDE DEF boosted
<1>5. tended \in [1..n -> Int]
  BY <1>1, <1>4, TendedIsWeighted
<1> HIDE DEF tended
<1>6. /\ target \in [1..n -> Nat]
      /\ Positive(tended) # {} =>
           \A i \in 1..n : target[i] = IF tended[i] > 0 THEN tended[i] ELSE 0
      /\ Positive(tended) = {} => \A i \in 1..n : target[i] = 1
  BY <1>1, <1>5, TargetIsWeighted
<1> HIDE DEF target
<1>7. p \in {Standard, Priority}
  OBVIOUS
<1> HIDE DEF p, strict
<1>8. ASSUME NEW c \in [1..n -> Nat]
      PROVE  /\ Resolved(c) \in [1..n -> Nat]
             /\ \A i \in 1..n : Resolved(c)[i] > 0 <=> target[i] > 0
             /\ \A i, j \in 1..n : target[i] = target[j] /\ c[i] < c[j]
                                     => Resolved(c)[i] >= Resolved(c)[j]
  <2>1. positiveTotal(c) \in Nat
    BY <1>1, TotalIsNatural
  <2>2. target \in [1..n -> Nat]
    BY <1>6
  <2>3. Leaning(n, target, c, Resolved(c))
    BY <1>1, <1>7, <2>1, <2>2, ResolvedIsSound
  <2> QED
    BY <2>3 DEF Leaning
<1>9. NoCounts \in [1..n -> Nat] /\ Resolved(NoCounts) = target
  <2>1. NoCounts \in [1..n -> Nat] /\ \A i \in 1..n : NoCounts[i] = 0
    BY DEF NoCounts
  <2>2. positiveTotal(NoCounts) = 0
    BY <1>1, <2>1, TotalIsNatural
  <2> QED
    BY <2>1, <2>2 DEF resolveDistributionProbabilitiesWithPriority
<1> HIDE DEF Resolved
<1>10. counts \in [1..n -> Nat]
  BY DEF CountsInv
<1> DEFINE r == Resolved(counts)
<1>11. CASE ~corrected
  <2>1. Weights = tended /\ Wanted = tended /\ ~strict
    BY <1>2, <1>11 DEF Weights, Wanted
  <2>2. \A i, j \in 1..n : tended[i] = tended[j] => tended[i] >= tended[j]
    BY <1>5
  <2> QED
    BY <2>1, <2>2 DEF CorrectionSound, strict
<1>12. CASE corrected /\ ~strict
  <2>1. Weights = r /\ Wanted = target
    BY <1>2, <1>9, <1>12 DEF Weights, Wanted
  <2>2. Positive(r) = Positive(target)
    BY <1>6, <1>8, <1>10 DEF Positive
  <2> QED
    BY <1>8, <1>10, <1>12, <2>1, <2>2 DEF CorrectionSound, strict
<1>13. CASE strict /\ Positive(tended) = {}
  <2>1. ASSUME NEW w \in [1..n -> Nat] PROVE enforceReferenceRankOrder(w, tended) = w
    <3>1. enforceReferenceRankOrder(w, tended) = [i \in 1..n |-> w[i]]
      BY <1>13 DEF enforceReferenceRankOrder
    <3> QED
      BY <3>1
  <2>2. Weights = r /\ Wanted = target
    BY <1>2, <1>6, <1>8, <1>9, <1>10, <1>13, <2>1 DEF Weights, Wanted
  <2>3. Positive(r) = Positive(target)
    BY <1>6, <1>8, <1>10 DEF Positive
  <2>4. \A i, j \in 1..n : target[i] = 1 /\ target[j] = 1
    BY <1>6, <1>13
  <2>5. \A i, j \in 1..n : ~(target[i] < target[j])
    BY <2>4
  <2> QED
    BY <1>8, <1>10, <2>2, <2>3, <2>5 DEF CorrectionSound
<1>14. CASE strict /\ Positive(tended) # {}
  <2>1. \A i \in 1..n : target[i] = IF tended[i] > 0 THEN tended[i] ELSE 0
    BY <1>6, <1>14
  <2> DEFINE w == enforceReferenceRankOrder(r, tended)
  <2>2. r \in [1..n -> Nat] /\ \A i \in 1..n : r[i] > 0 <=> target[i] > 0
    BY <1>8, <1>10
  <2> HIDE DEF r
  <2>3. Ranked(n, target, r, w)
    BY <1>1, <1>5, <1>6, <2>1, <2>2, RankedIsSound
  <2>4. enforceReferenceRankOrder(target, tended) = target
    <3>1. Ranked(n, target, target, enforceReferenceRankOrder(target, tended))
      BY <1>1, <1>5, <1>6, <2>1, RankedIsSound
    <3> QED
      BY <3>1 DEF Ranked
  <2>5. Weights = w /\ Wanted = target
    BY <1>2, <1>9, <1>14, <2>4 DEF Weights, Wanted, r
  <2>6. \A i, j \in 1..n : target[i] = target[j] /\ counts[i] < counts[j] => r[i] >= r[j]
    BY <1>8, <1>10 DEF r
  <2> HIDE DEF w
  <2>7. Positive(w) = Positive(target)
    BY <1>6, <2>3 DEF Ranked, Positive
  <2> QED
    BY <2>3, <2>5, <2>6, <2>7 DEF CorrectionSound, Ranked
<1> QED
  BY <1>11, <1>12, <1>13, <1>14

\* distribution_runtime.go:27: whatever was drawn before, the correction leans
\* towards the target and never overrules it.
THEOREM CorrectionNeverOverrules == CorrectionSpec => []CorrectionSound
BY CountsAreNatural, WeightsAreSound, PTL

-----------------------------------------------------------------------------
(* The quotas of a plan                                                    *)

\* A number is the quotient times the divisor and a smaller rest.
LEMMA QuotientAndRest ==
  ASSUME NEW a \in Nat, NEW b \in Nat, b > 0
  PROVE  /\ a \div b \in Nat /\ a % b \in Nat
         /\ a = (a \div b) * b + (a % b) /\ a % b < b
<1> DEFINE q == a \div b
           rest == a % b
<1>1. q \in Int /\ b * q <= a /\ a < b * (q + 1)
  OBVIOUS
<1>2. rest \in Int /\ a = b * q + rest
  OBVIOUS
<1> HIDE DEF q, rest
<1>3. b * (q + 1) = b * q + b /\ b * q = q * b /\ b * q \in Int
  BY <1>1
<1>4. rest \in Nat /\ rest < b
  BY <1>1, <1>2, <1>3
<1>5. q \in Nat
  <2>1. ASSUME q < 0 PROVE FALSE
    <3>1. q + 1 <= 0
      BY <1>1, <2>1
    <3>2. b * (q + 1) <= 0
      BY <1>1, <3>1
    <3> QED
      BY <1>1, <3>2
  <2> QED
    BY <1>1, <2>1
<1> QED
  <2>1. q \in Nat /\ rest \in Nat /\ a = q * b + rest /\ rest < b
    BY <1>2, <1>3, <1>4, <1>5
  <2> QED
    BY <2>1 DEF q, rest

\* Bounds of two parts add up to one of the whole.
LEMMA BoundsAdd ==
  ASSUME NEW n \in Nat, NEW whole \in Nat,
         NEW a \in Nat, NEW low \in Nat, NEW count \in Nat, a * n <= (low + count) * whole,
         NEW b \in Nat, NEW more \in Nat, NEW one \in Nat, b * n <= (more + one) * whole
  PROVE  (a + b) * n <= ((low + more) + (count + one)) * whole
<1> DEFINE x == low + count
           y == more + one
<1>1. x \in Nat /\ y \in Nat /\ (low + more) + (count + one) = x + y
  OBVIOUS
<1>2. a * n <= x * whole /\ b * n <= y * whole
  OBVIOUS
<1> HIDE DEF x, y
<1>3. (a + b) * n = a * n + b * n /\ (x + y) * whole = x * whole + y * whole
  BY <1>1
<1>4. a * n \in Int /\ b * n \in Int /\ x * whole \in Int /\ y * whole \in Int
  BY <1>1
<1>5. (a + b) * n <= (x + y) * whole
  BY <1>2, <1>3, <1>4
<1> QED
  BY <1>1, <1>5

\* A part, its rest rounded up.
LEMMA RoundedUp ==
  ASSUME NEW a \in Nat, NEW low \in Nat, NEW rest \in Nat, NEW whole \in Nat,
         a = low * whole + rest, rest < whole
  PROVE  a <= (low + (IF rest > 0 THEN 1 ELSE 0)) * whole
<1>1. (low + 1) * whole = low * whole + whole /\ low * whole \in Int
  OBVIOUS
<1>2. (low + 0) * whole = low * whole
  OBVIOUS
<1> QED
  BY <1>1, <1>2

\* What is not more than as many wholes is not more.
LEMMA WholesCancel ==
  ASSUME NEW n \in Nat, NEW x \in Nat, NEW whole \in Nat, whole > 0, whole * n <= x * whole
  PROVE  n <= x
<1>1. ASSUME n > x PROVE FALSE
  <2>1. whole * n >= whole * (x + 1) /\ whole * (x + 1) = x * whole + whole
    BY <1>1
  <2>2. x * whole \in Int
    OBVIOUS
  <2> QED
    BY <2>1, <2>2
<1> QED
  BY <1>1

LEMMA IntervalGrows ==
  ASSUME NEW k \in Nat, k > 0
  PROVE  1..k = (1..(k - 1)) \cup {k} /\ k \notin 1..(k - 1)
OBVIOUS

\* The options whose share is not whole.
Broken(m, rest) == {i \in 1..m : rest[i] > 0}

\* The shares, each as a number of wholes and a smaller rest.
Divided(m, w, n, whole, low, rest) ==
  \A i \in 1..m : w[i] * n = low[i] * whole + rest[i] /\ rest[i] < whole

\* sampling.go:86: what the rounding leaves is less than one sample for each
\* option whose share was not whole.
LEMMA RestIsSmall ==
  ASSUME NEW m \in Nat, NEW w \in [1..m -> Nat], NEW n \in Nat,
         NEW low \in [1..m -> Nat], NEW rest \in [1..m -> Nat], positiveTotal(w) > 0,
         Divided(m, w, n, positiveTotal(w), low, rest)
  PROVE  /\ IsFiniteSet(Broken(m, rest)) /\ Cardinality(Broken(m, rest)) \in Nat
         /\ positiveTotal(low) \in Nat
         /\ n - positiveTotal(low) <= Cardinality(Broken(m, rest))
<1> DEFINE broken == Broken(m, rest)
           whole == positiveTotal(w)
<1>1. whole \in Nat /\ whole > 0 /\ Divided(m, w, n, whole, low, rest)
  BY TotalIsNatural
<1> HIDE DEF whole
<1>2. PICK sum \in [0..m -> Nat] :
        /\ sum[0] = 0 /\ \A k \in 1..m : sum[k] = sum[k - 1] + w[k]
        /\ whole = sum[m]
  BY PrefixSums DEF whole
<1>3. PICK lows \in [0..m -> Nat] :
        /\ lows[0] = 0 /\ \A k \in 1..m : lows[k] = lows[k - 1] + low[k]
        /\ positiveTotal(low) = lows[m]
  BY PrefixSums
<1> DEFINE upTo(k) == {i \in 1..k : rest[i] > 0}
<1>4. \A k \in 0..m : IsFiniteSet(upTo(k)) /\ Cardinality(upTo(k)) \in Nat
  <2> SUFFICES ASSUME NEW k \in 0..m PROVE IsFiniteSet(upTo(k)) /\ Cardinality(upTo(k)) \in Nat
    OBVIOUS
  <2>1. IsFiniteSet(1..k)
    BY FS_Interval
  <2> QED
    BY <2>1, FS_Subset, FS_CardinalityType
<1> DEFINE Bounded(k) == sum[k] * n <= (lows[k] + Cardinality(upTo(k))) * whole
           bounded == {k \in 0..m : Bounded(k)}
<1>5. 0 \in bounded
  <2> DEFINE none == Cardinality(upTo(0))
  <2>1. none \in Nat
    <3>1. 0 \in 0..m
      OBVIOUS
    <3> HIDE DEF upTo
    <3> QED
      BY <1>4, <3>1
  <2> HIDE DEF none
  <2>2. sum[0] * n <= (lows[0] + none) * whole
    <3>1. 0 * n = 0 /\ none * whole >= 0
      BY <1>1, <2>1
    <3>2. lows[0] + none = none
      BY <1>3, <2>1
    <3> QED
      BY <1>2, <3>1, <3>2
  <2> QED
    BY <2>2 DEF none
<1>6. ASSUME NEW k \in 1..m, k - 1 \in bounded PROVE k \in bounded
  <2> DEFINE before == Cardinality(upTo(k - 1))
             now == Cardinality(upTo(k))
             more == IF rest[k] > 0 THEN 1 ELSE 0
  <2>1. before \in Nat /\ IsFiniteSet(upTo(k - 1)) /\ now \in Nat
    <3>1. k \in 0..m /\ k - 1 \in 0..m
      OBVIOUS
    <3> HIDE DEF upTo
    <3> QED
      BY <1>4, <3>1
  <2>2. now = before + more
    <3>1. CASE rest[k] > 0
      <4>1. 1..k = (1..(k - 1)) \cup {k} /\ k \notin 1..(k - 1)
        BY IntervalGrows
      <4>2. upTo(k) = upTo(k - 1) \cup {k} /\ k \notin upTo(k - 1)
        BY <3>1, <4>1
      <4> HIDE DEF upTo
      <4> QED
        BY <2>1, <3>1, <4>2, FS_AddElement
    <3>2. CASE ~(rest[k] > 0)
      <4>1. 1..k = (1..(k - 1)) \cup {k}
        BY IntervalGrows
      <4>2. upTo(k) = upTo(k - 1)
        BY <3>2, <4>1
      <4> HIDE DEF upTo
      <4> QED
        BY <2>1, <3>2, <4>2
    <3> QED
      BY <3>1, <3>2
  <2> HIDE DEF upTo
  <2>3. sum[k - 1] * n <= (lows[k - 1] + before) * whole
    BY <1>6
  <2> HIDE DEF before, now
  <2>4. w[k] * n <= (low[k] + more) * whole
    <3> DEFINE a == w[k] * n
    <3>1. a \in Nat /\ rest[k] \in Nat /\ low[k] \in Nat
      OBVIOUS
    <3>2. a = low[k] * whole + rest[k] /\ rest[k] < whole
      BY <1>1 DEF Divided
    <3> HIDE DEF a
    <3>3. a <= (low[k] + (IF rest[k] > 0 THEN 1 ELSE 0)) * whole
      BY <1>1, <3>1, <3>2, RoundedUp
    <3> QED
      BY <3>3 DEF a
  <2>5. /\ sum[k - 1] \in Nat /\ lows[k - 1] \in Nat /\ w[k] \in Nat /\ low[k] \in Nat
        /\ sum[k] = sum[k - 1] + w[k] /\ lows[k] = lows[k - 1] + low[k]
    <3>1. k - 1 \in 0..m
      OBVIOUS
    <3> QED
      BY <1>2, <1>3, <3>1
  <2>6. more \in Nat
    OBVIOUS
  <2> HIDE DEF more
  <2>7. (sum[k - 1] + w[k]) * n <= ((lows[k - 1] + low[k]) + (before + more)) * whole
    <3>1. before \in Nat
      BY <2>1
    <3> QED
      BY <1>1, <2>3, <2>4, <2>5, <2>6, <3>1, BoundsAdd, ZenonT(30)
  <2>8. sum[k] * n <= (lows[k] + now) * whole
    BY <2>2, <2>5, <2>7
  <2> QED
    BY <2>8 DEF now
<1>7. m \in bounded
  <2> HIDE DEF bounded
  <2> QED
    BY <1>5, <1>6, CountsUpTo
<1>8. upTo(m) = broken
  BY DEF Broken
<1> HIDE DEF upTo, broken
<1>9. whole * n <= (lows[m] + Cardinality(broken)) * whole
  BY <1>2, <1>7, <1>8
<1>10. IsFiniteSet(broken) /\ Cardinality(broken) \in Nat
  <2>1. m \in 0..m
    OBVIOUS
  <2> QED
    BY <1>4, <1>8, <2>1
<1>11. lows[m] \in Nat
  BY <1>3
<1>12. n <= lows[m] + Cardinality(broken)
  <2>1. lows[m] + Cardinality(broken) \in Nat
    BY <1>10, <1>11
  <2> QED
    BY <1>1, <1>9, <2>1, WholesCancel
<1> QED
  <2>1. n - lows[m] <= Cardinality(broken)
    BY <1>10, <1>11, <1>12
  <2> QED
    BY <1>3, <1>10, <1>11, <2>1 DEF broken

\* Less than one whole is off, up or down.
LEMMA OffByLessThanOne ==
  ASSUME NEW share \in Nat, NEW low \in Nat, NEW rest \in Nat, NEW whole \in Nat, NEW up \in {0, 1},
         share = low * whole + rest, rest < whole, rest = 0 => up = 0
  PROVE  Abs((low + up) * whole - share) < whole
<1>1. (low + 1) * whole = low * whole + whole /\ (low + 0) * whole = low * whole
  OBVIOUS
<1>2. low * whole \in Int
  OBVIOUS
<1>3. CASE up = 0
  <2>1. (low + up) * whole - share = 0 - rest
    BY <1>1, <1>2, <1>3
  <2> QED
    BY <2>1 DEF Abs
<1>4. CASE up = 1
  <2>1. (low + up) * whole - share = whole - rest
    BY <1>1, <1>2, <1>4
  <2> QED
    BY <1>4, <2>1 DEF Abs
<1> QED
  BY <1>3, <1>4

\* sampling.go:86: an option is asked for as often as its weight says, less
\* than one answer off: what the rounding leaves goes to broken shares only.
LEMMA QuotasAreFair ==
  ASSUME NEW m \in Nat, NEW w \in [1..m -> Nat], NEW n \in Nat, positiveTotal(w) > 0,
         NEW i \in 1..m
  PROVE  LET quota == integerQuotas(w, n)[i]
         IN  /\ quota \in Nat
             /\ Abs(quota * positiveTotal(w) - w[i] * n) < positiveTotal(w)
<1> DEFINE whole == positiveTotal(w)
           rest == [k \in 1..m |-> (w[k] * n) % whole]
           low == [k \in 1..m |-> (w[k] * n) \div whole]
           broken == Broken(m, rest)
           Ahead(j, k) == \/ rest[j] > rest[k]
                          \/ rest[j] = rest[k] /\ w[j] > w[k]
                          \/ rest[j] = rest[k] /\ w[j] = w[k] /\ j < k
           ahead == {j \in 1..m : Ahead(j, i)}
           left == n - positiveTotal(low)
           up == IF Cardinality(ahead) < left THEN 1 ELSE 0
<1>1. whole \in Nat /\ whole > 0
  BY TotalIsNatural
<1>2. integerQuotas(w, n)[i] = low[i] + up
  <2>1. DOMAIN w = 1..m
    OBVIOUS
  <2>2. low = [k \in DOMAIN w |-> (w[k] * n) \div positiveTotal(w)]
    BY <2>1
  <2>3. ahead = {j \in DOMAIN w :
                   \/ (w[j] * n) % positiveTotal(w) > (w[i] * n) % positiveTotal(w)
                   \/ /\ (w[j] * n) % positiveTotal(w) = (w[i] * n) % positiveTotal(w)
                      /\ w[j] > w[i]
                   \/ /\ (w[j] * n) % positiveTotal(w) = (w[i] * n) % positiveTotal(w)
                      /\ w[j] = w[i] /\ j < i}
    BY <2>1
  <2>4. i \in DOMAIN w /\ low[i] = (w[i] * n) \div positiveTotal(w)
    BY <2>1
  <2> HIDE DEF low, ahead
  <2> QED
    BY <2>2, <2>3, <2>4 DEF integerQuotas
<1>3. ASSUME NEW k \in 1..m
      PROVE  /\ low[k] \in Nat /\ rest[k] \in Nat
             /\ w[k] * n = low[k] * whole + rest[k] /\ rest[k] < whole
  <2> DEFINE a == w[k] * n
  <2>1. a \in Nat
    OBVIOUS
  <2>2. low[k] = a \div whole /\ rest[k] = a % whole
    OBVIOUS
  <2> HIDE DEF a, whole, low, rest
  <2>3. /\ low[k] \in Nat /\ rest[k] \in Nat
        /\ a = low[k] * whole + rest[k] /\ rest[k] < whole
    BY <1>1, <2>1, <2>2, QuotientAndRest
  <2> QED
    BY <2>3 DEF a
<1>4. low \in [1..m -> Nat] /\ rest \in [1..m -> Nat]
  BY <1>3
<1>5. /\ IsFiniteSet(broken) /\ Cardinality(broken) \in Nat
      /\ left \in Int /\ left <= Cardinality(broken)
  <2>1. Divided(m, w, n, positiveTotal(w), low, rest)
    BY <1>3 DEF Divided
  <2> HIDE DEF low, rest
  <2>2. /\ IsFiniteSet(broken) /\ Cardinality(broken) \in Nat
        /\ positiveTotal(low) \in Nat
        /\ n - positiveTotal(low) <= Cardinality(broken)
    BY <1>1, <1>4, <2>1, RestIsSmall
  <2>3. n \in Nat
    OBVIOUS
  <2> HIDE DEF broken
  <2> QED
    BY <2>2, <2>3 DEF left
<1> HIDE DEF whole, low, rest, left
<1>6. IsFiniteSet(ahead) /\ Cardinality(ahead) \in Nat
  <2>1. IsFiniteSet(1..m)
    BY FS_Interval
  <2> HIDE DEF Ahead
  <2> QED
    BY <2>1, FS_Subset, FS_CardinalityType
<1>7. rest[i] = 0 => up = 0
  <2> SUFFICES ASSUME rest[i] = 0 PROVE ~(Cardinality(ahead) < left)
    OBVIOUS
  <2>1. broken \subseteq ahead
    BY DEF Broken
  <2> HIDE DEF broken, ahead
  <2>2. Cardinality(broken) <= Cardinality(ahead)
    BY <1>6, <2>1, FS_Subset
  <2> QED
    BY <1>5, <1>6, <2>2
<1>8. up \in {0, 1}
  OBVIOUS
<1> HIDE DEF up
<1>9. Abs((low[i] + up) * whole - w[i] * n) < whole
  <2> DEFINE share == w[i] * n
  <2>1. share \in Nat
    OBVIOUS
  <2>2. low[i] \in Nat /\ rest[i] \in Nat /\ share = low[i] * whole + rest[i] /\ rest[i] < whole
    BY <1>3
  <2> HIDE DEF share
  <2>3. Abs((low[i] + up) * whole - share) < whole
    BY <1>1, <1>7, <1>8, <2>1, <2>2, OffByLessThanOne
  <2> QED
    BY <2>3 DEF share
<1>10. low[i] + up \in Nat
  BY <1>3, <1>8
<1> QED
  BY <1>2, <1>9, <1>10 DEF whole

-----------------------------------------------------------------------------
(* Only the planned option has a weight                                    *)

Hot(n, choice) == [i \in 1..n |-> IF i = choice + 1 THEN 1 ELSE 0]

\* probability.go:63: a choice in range is the one that gets the weight.
LEMMA OneHotIsHot ==
  ASSUME NEW n \in Nat, n >= 1, NEW choice \in 0..(n - 1)
  PROVE  oneHot(n, choice) = Hot(n, choice)
<1>1. AtLeast(1, n) = n /\ Clamp(choice, 0, n - 1) = choice
  BY DEF AtLeast, Clamp
<1> QED
  BY <1>1 DEF oneHot, Hot

LEMMA HotIsAlone ==
  ASSUME NEW n \in Nat, NEW choice \in 0..(n - 1)
  PROVE  /\ Hot(n, choice) \in [1..n -> Nat] /\ Hot(n, choice) \in Seq(Int)
         /\ Positive(Hot(n, choice)) = {choice + 1}
<1>1. /\ DOMAIN Hot(n, choice) = 1..n /\ choice + 1 \in 1..n
      /\ \A i \in 1..n : Hot(n, choice)[i] = IF i = choice + 1 THEN 1 ELSE 0
  BY DEF Hot
<1>2. Hot(n, choice) \in [1..n -> Nat] /\ Hot(n, choice) \in [1..n -> Int]
  BY DEF Hot
<1>3. Hot(n, choice) \in Seq(Int)
  BY <1>2
<1>4. Positive(Hot(n, choice)) = {choice + 1}
  BY <1>1 DEF Positive
<1> QED
  BY <1>2, <1>3, <1>4

\* The tables of an entry leave one choice for the answer of a row.
Steered(e, row, n, choice) ==
  /\ e.custom = <<>> /\ e.customRows = <<>>
  /\ IF row = NoRow THEN e.rows = <<>> /\ e.options = Hot(n, choice)
     ELSE e.options = <<>> /\ row \in DOMAIN e.rows /\ e.rows[row] = Hot(n, choice)

\* distribution.go:54: the only table that is not empty is the one that counts.
LEMMA OnlyTableCounts ==
  ASSUME NEW tables, NEW m \in Nat, DOMAIN tables = 1..m, NEW hot, Positive(hot) # {},
         \A k \in 1..m : tables[k] \in {hot, <<>>}, \E k \in 1..m : tables[k] = hot
  PROVE  FirstWeighted(tables) = hot
<1> DEFINE usable == {k \in DOMAIN tables : Positive(tables[k]) # {}}
<1>1. Positive(<<>>) = {}
  BY DEF Positive
<1>2. \A k \in usable : tables[k] = hot
  BY <1>1
<1>3. usable # {} /\ usable \subseteq Nat
  OBVIOUS
<1>4. FirstWeighted(tables) = tables[Min(usable)]
  BY <1>3 DEF FirstWeighted
<1> HIDE DEF usable
<1> QED
  BY <1>2, <1>3, <1>4, MinIsLeast

\* The four tables of a question in the order they are asked for.
LEMMA PairsInOrder ==
  ASSUME NEW S, NEW a \in Seq(S), NEW b \in Seq(S), Len(a) = 2, Len(b) = 2
  PROVE  /\ a \o b \in [1..4 -> S]
         /\ \A k \in 1..2 : (a \o b)[k] = a[k] /\ (a \o b)[k + 2] = b[k]
<1> DEFINE s == a \o b
<1>1. \A i \in 1..Len(a) + Len(b) : s[i] = IF i <= Len(a) THEN a[i] ELSE b[i - Len(a)]
  BY ConcatProperties, Zenon
<1> HIDE DEF s
<1>2. ASSUME NEW k \in 1..2 PROVE s[k] = a[k] /\ s[k + 2] = b[k]
  <2>1. /\ k \in 1..(2 + 2) /\ k + 2 \in 1..(2 + 2)
        /\ k <= 2 /\ ~(k + 2 <= 2) /\ (k + 2) - 2 = k
    OBVIOUS
  <2> QED
    BY <1>1, <2>1
<1> QED
  BY <1>2, PairsJoined DEF s

LEMMA PreferredPair ==
  ASSUME NEW e, NEW S, NEW a \in S, NEW b \in S
  PROVE  LET p == Preferred(e, a, b)
         IN  p \in Seq(S) /\ Len(p) = 2 /\ \A x \in {a, b} : \E k \in 1..2 : p[k] = x
BY DEF Preferred

\* distribution.go:54: of an entry with one table that table is read.
LEMMA SteeredIsEffective ==
  ASSUME NEW e, NEW row, NEW n \in Nat \ {0}, NEW choice \in 0..(n - 1),
         Steered(e, row, n, choice)
  PROVE  effectiveProbabilityValues(e, row, n) = Hot(n, choice)
<1> DEFINE hot == Hot(n, choice)
           Row(table) == IF row \in DOMAIN table THEN table[row] ELSE NoWeights
           rows    == Preferred(e, Row(e.customRows), Row(e.rows))
           asked   == Preferred(e, e.custom, e.options)
           tables  == rows \o asked
<1>1. hot \in Seq(Int) /\ Positive(hot) # {} /\ hot \in [1..n -> Nat]
  <2>1. n \in Nat /\ choice + 1 \in {choice + 1}
    OBVIOUS
  <2> QED
    BY <2>1, HotIsAlone
<1>2. \A r : r \notin DOMAIN <<>>
  OBVIOUS
<1>3. /\ Row(e.customRows) = <<>> /\ e.custom = <<>>
      /\ {Row(e.rows), e.options} = {hot, <<>>}
      /\ Row(e.rows) = hot \/ e.options = hot
  BY <1>2 DEF Steered, NoWeights
<1>4. effectiveProbabilityValues(e, row, n) = fitProbabilityCount(FirstWeighted(tables), n)
  BY DEF effectiveProbabilityValues
<1> DEFINE S == {hot, <<>>}
<1> HIDE DEF Row, hot
<1>5. /\ rows \in Seq(S) /\ Len(rows) = 2 /\ asked \in Seq(S) /\ Len(asked) = 2
      /\ \E k \in 1..2 : rows[k] = hot \/ asked[k] = hot
  <2>1. Row(e.rows) \in S /\ Row(e.customRows) \in S /\ e.options \in S /\ e.custom \in S
    BY <1>3
  <2> HIDE DEF S
  <2> QED
    BY <1>3, <2>1, PreferredPair
<1> HIDE DEF rows, asked, S
<1>6. /\ DOMAIN tables = 1..4
      /\ \A k \in 1..4 : tables[k] \in {hot, <<>>}
      /\ \E k \in 1..4 : tables[k] = hot
  <2>1. /\ tables \in [1..4 -> S]
        /\ \A k \in 1..2 : tables[k] = rows[k] /\ tables[k + 2] = asked[k]
    BY <1>5, PairsInOrder
  <2>2. \E k \in 1..4 : tables[k] = hot
    <3>1. \A k \in 1..2 : k \in 1..4 /\ k + 2 \in 1..4
      OBVIOUS
    <3> HIDE DEF tables
    <3> QED
      BY <1>5, <2>1, <3>1
  <2> QED
    BY <2>1, <2>2 DEF S
<1> HIDE DEF tables
<1>7. FirstWeighted(tables) = hot
  BY <1>1, <1>6, OnlyTableCounts
<1>8. fitProbabilityCount(hot, n) = hot
  <2>1. \A i \in DOMAIN hot : hot[i] \in Int
    BY <1>1
  <2>2. DOMAIN hot = 1..n /\ hot = [i \in 1..n |-> hot[i]]
    BY <1>1
  <2> QED
    BY <1>1, <2>1, <2>2, FittedIsWeighted
<1> QED
  BY <1>4, <1>7, <1>8 DEF hot

\* run_answer_runtime.go: whatever was counted before, the answer is the one
\* option that is left.
LEMMA SteeredIsDrawn ==
  ASSUME NEW e, NEW row, NEW n \in Nat \ {0}, NEW choice \in 0..(n - 1),
         Steered(e, row, n, choice), NEW c \in [1..n -> Nat], NEW total \in Nat
  PROVE  SelectedIndex(effectiveSelectionValues(e, selectionEntry(e, row, n, {}, 0, c, total)), n)
           = {choice + 1}
<1> DEFINE hot == Hot(n, choice)
           r == resolveDistributionProbabilitiesWithPriority(hot, c, total, Standard)
           w == selectionEntry(e, row, n, {}, 0, c, total)
           strict == isStrictRatioEntry(e)
<1>1. hot \in [1..n -> Nat] /\ Positive(hot) = {choice + 1} /\ DOMAIN hot = 1..n
  BY HotIsAlone
<1>2. effectiveProbabilityValues(e, row, n) = hot
  BY SteeredIsEffective
<1>3. \A i \in 1..n : hot[i] = IF i = choice + 1 THEN 1 ELSE 0
  BY DEF Hot
<1> HIDE DEF hot
<1>4. applyPersonaBoost(hot, {}) = hot
  <2>1. applyPersonaBoost(hot, {}) = [i \in 1..n |-> hot[i]]
    BY <1>1 DEF applyPersonaBoost
  <2> QED
    BY <1>1, <2>1
<1>5. normalizeDistributionTarget(hot, n) = hot
  <2>1. \A i \in DOMAIN hot : hot[i] \in Int
    BY <1>1
  <2>2. hot = [i \in 1..n |-> hot[i]] /\ Positive(hot) # {}
    BY <1>1
  <2>3. fitProbabilityCount(hot, n) = hot
    BY <1>1, <2>1, <2>2, FittedIsWeighted
  <2>4. \A i \in 1..n : (IF hot[i] > 0 THEN hot[i] ELSE 0) = hot[i]
    BY <1>1
  <2>5. normalizeDistributionTarget(hot, n) = [i \in 1..n |-> hot[i]]
    BY <2>3, <2>4 DEF normalizeDistributionTarget
  <2> QED
    BY <1>1, <2>5
<1>6. w = IF strict THEN enforceReferenceRankOrder(r, hot) ELSE hot
  BY <1>2, <1>4, <1>5 DEF selectionEntry
<1>7. r \in [1..n -> Nat] /\ \A i \in 1..n : r[i] > 0 <=> hot[i] > 0
  <2>1. Leaning(n, hot, c, r)
    BY <1>1, ResolvedIsSound
  <2> QED
    BY <2>1 DEF Leaning
<1>8. Positive(w) = {choice + 1}
  <2>1. CASE ~strict
    BY <1>1, <1>6, <2>1
  <2>2. CASE strict
    <3> HIDE DEF r, strict
    <3>1. w = enforceReferenceRankOrder(r, hot)
      BY <1>6, <2>2
    <3>2. hot \in [1..n -> Int] /\ \A i \in 1..n : hot[i] = IF hot[i] > 0 THEN hot[i] ELSE 0
      BY <1>1
    <3> HIDE DEF w
    <3>3. Ranked(n, hot, r, w)
      BY <1>1, <1>7, <3>1, <3>2, RankedIsSound
    <3>4. DOMAIN w = 1..n /\ \A i \in 1..n : w[i] > 0 <=> hot[i] > 0
      BY <3>3 DEF Ranked
    <3>5. Positive(w) = Positive(hot)
      BY <1>1, <3>4 DEF Positive
    <3> QED
      BY <1>1, <3>5
  <2> QED
    BY <2>1, <2>2
<1> HIDE DEF w
<1>9. effectiveSelectionValues(e, w) = w
  <2>1. Positive(e.custom) = {}
    BY DEF Steered, Positive
  <2> QED
    BY <2>1 DEF effectiveSelectionValues
<1>10. SelectedIndex(w, n) = {choice + 1}
  BY <1>8 DEF SelectedIndex
<1> QED
  BY <1>9, <1>10 DEF w

-----------------------------------------------------------------------------
(* What an item of the plan is made of                                     *)

\* probability.go:5: a bias makes weights, one of them positive.
LEMMA BiasIsWeighted ==
  ASSUME NEW n \in Nat, n >= 2, NEW bias \in {"left", "center", "right"}
  PROVE  LET w == buildBiasTargetProbabilities(n, bias)
         IN  w \in [1..n -> Nat] /\ Positive(w) # {}
<1> DEFINE falling == [i \in 1..n |-> Eighth(n - i)]
           rising == [i \in 1..n |-> Eighth(i - 1)]
           hill == [i \in 1..n |-> Cubed(n - 1 - Abs(2 * i - n - 1))]
           w == buildBiasTargetProbabilities(n, bias)
<1>1. ASSUME NEW x \in Nat
      PROVE  /\ Cubed(x) \in Nat /\ (x > 0 => Cubed(x) > 0)
             /\ Eighth(x) \in Nat /\ (x > 0 => Eighth(x) > 0)
  <2>1. ASSUME NEW a \in Nat, NEW b \in Nat PROVE a * b \in Nat /\ (a > 0 /\ b > 0 => a * b > 0)
    OBVIOUS
  <2>2. x * x \in Nat /\ (x > 0 => x * x > 0)
    BY <2>1
  <2>3. Cubed(x) \in Nat /\ (x > 0 => Cubed(x) > 0)
    BY <2>1, <2>2 DEF Cubed
  <2>4. Cubed(x) * Cubed(x) \in Nat /\ (x > 0 => Cubed(x) * Cubed(x) > 0)
    BY <2>1, <2>3
  <2>5. Cubed(x) * Cubed(x) * x \in Nat /\ (x > 0 => Cubed(x) * Cubed(x) * x > 0)
    BY <2>1, <2>4
  <2>6. Eighth(x) \in Nat /\ (x > 0 => Eighth(x) > 0)
    BY <2>1, <2>5 DEF Eighth
  <2> QED
    BY <2>3, <2>6
<1>2. CASE n = 2
  <2>1. w \in {<<3, 1>>, <<1, 3>>, <<1, 1>>}
    BY <1>2 DEF buildBiasTargetProbabilities
  <2>2. \A v \in {<<3, 1>>, <<1, 3>>, <<1, 1>>} : v \in [1..2 -> Nat] /\ 1 \in Positive(v)
    BY DEF Positive
  <2> HIDE DEF w
  <2>3. w \in [1..2 -> Nat] /\ 1 \in Positive(w)
    BY <2>1, <2>2, Zenon
  <2> QED
    BY <1>2, <2>3 DEF w
<1>3. CASE n > 2 /\ bias = "left"
  <2>1. w = falling
    BY <1>3 DEF buildBiasTargetProbabilities
  <2>2. \A i \in 1..n : n - i \in Nat
    OBVIOUS
  <2>3. falling \in [1..n -> Nat]
    BY <1>1, <2>2
  <2>4. 1 \in 1..n /\ n - 1 \in Nat /\ n - 1 > 0
    OBVIOUS
  <2>5. falling[1] > 0
    BY <1>1, <2>4
  <2>6. 1 \in Positive(falling)
    BY <2>3, <2>4, <2>5 DEF Positive
  <2> QED
    BY <2>1, <2>3, <2>6
<1>4. CASE n > 2 /\ bias = "right"
  <2>1. w = rising
    BY <1>4 DEF buildBiasTargetProbabilities
  <2>2. \A i \in 1..n : i - 1 \in Nat
    OBVIOUS
  <2>3. rising \in [1..n -> Nat]
    BY <1>1, <2>2
  <2>4. n \in 1..n /\ n - 1 \in Nat /\ n - 1 > 0
    OBVIOUS
  <2>5. rising[n] > 0
    BY <1>1, <2>4
  <2>6. n \in Positive(rising)
    BY <2>3, <2>4, <2>5 DEF Positive
  <2> QED
    BY <2>1, <2>3, <2>6
<1>5. CASE n > 2 /\ bias = "center"
  <2>1. w = hill
    BY <1>5 DEF buildBiasTargetProbabilities
  <2>2. \A i \in 1..n : n - 1 - Abs(2 * i - n - 1) \in Nat
    BY DEF Abs
  <2>3. hill \in [1..n -> Nat]
    BY <1>1, <2>2
  <2>4. 2 \in 1..n /\ n - 1 - Abs(2 * 2 - n - 1) > 0
    BY <1>5 DEF Abs
  <2>5. hill[2] > 0
    BY <1>1, <2>2, <2>4
  <2>6. 2 \in Positive(hill)
    BY <2>3, <2>4, <2>5 DEF Positive
  <2> QED
    BY <2>1, <2>3, <2>6
<1> QED
  BY <1>2, <1>3, <1>4, <1>5

\* psychometrics/probability.go: a table that has a weight, without what is negative.
LEMMA GivenIsWeighted ==
  ASSUME NEW e, SoundEntry(e), SoundRows(e), NEW row, NEW n \in Nat \ {0}
  PROVE  LET w == probabilitiesForEntry(e, row, n)
         IN  w # NoWeights => w \in [1..n -> Nat] /\ Positive(w) # {}
<1> DEFINE Row(table) == IF row \in DOMAIN table THEN table[row] ELSE NoWeights
           front == IF e.mode = "custom" THEN <<Row(e.customRows)>> ELSE <<>>
           middle == IF e.mode = "custom" THEN <<e.custom>> ELSE <<>>
           tables == front \o <<Row(e.rows)>> \o middle \o <<e.options, e.custom>>
           found == FirstWeighted(tables)
           cut == [i \in 1..n |-> IF i \in DOMAIN found THEN found[i] ELSE 0]
           w == normalizeProbabilityList(cut)
<1>1. /\ Row(e.customRows) \in Seq(Int) /\ Row(e.rows) \in Seq(Int)
      /\ e.options \in Seq(Int) /\ e.custom \in Seq(Int)
  BY DEF SoundEntry, SoundRows, NoWeights, Range
<1> HIDE DEF Row
<1>2. front \in Seq(Seq(Int)) /\ middle \in Seq(Seq(Int)) /\ <<Row(e.rows)>> \in Seq(Seq(Int))
      /\ <<e.options, e.custom>> \in Seq(Seq(Int))
  BY <1>1
<1> HIDE DEF front, middle
<1>3. tables \in Seq(Seq(Int))
  <2>1. front \o <<Row(e.rows)>> \in Seq(Seq(Int))
    BY <1>2, ConcatProperties, Zenon
  <2>2. front \o <<Row(e.rows)>> \o middle \in Seq(Seq(Int))
    BY <1>2, <2>1, ConcatProperties, Zenon
  <2> QED
    BY <1>2, <2>2, ConcatProperties, Zenon
<1>4. tables \in [1..Len(tables) -> Seq(Int)] /\ Len(tables) \in Nat
  <2> HIDE DEF tables
  <2> QED
    BY <1>3
<1>5. probabilitiesForEntry(e, row, n) = IF Positive(cut) = {} THEN NoWeights ELSE w
  BY DEF probabilitiesForEntry, front, middle, Row
<1> HIDE DEF tables
<1>6. found \in Seq(Int)
  BY <1>4, FirstIsTable
<1> HIDE DEF found
<1>7. \A i \in 1..n : cut[i] \in Int
  BY <1>6
<1>8. /\ w \in [1..n -> Nat] /\ \A i \in 1..n : w[i] = IF cut[i] < 0 THEN 0 ELSE cut[i]
  BY <1>7 DEF normalizeProbabilityList
<1>9. Positive(w) = Positive(cut)
  <2>1. DOMAIN cut = 1..n
    OBVIOUS
  <2> HIDE DEF cut, w
  <2> QED
    BY <1>7, <1>8, <2>1 DEF Positive
<1> HIDE DEF cut, w
<1> QED
  BY <1>5, <1>8, <1>9

\* A question, its entry and a row make an item whose weights can be followed.
LEMMA ItemIsWeighted ==
  ASSUME NEW q, SoundQuestion(q), NEW e, SoundEntry(e), SoundRows(e), NEW row
  PROVE  LET item == newItem(q, e, row)
         IN  /\ item.num = q.num /\ item.row = row /\ item.count = optionCount(q, e)
             /\ item.weights \in [1..item.count -> Nat] /\ positiveTotal(item.weights) \in Nat
             /\ positiveTotal(item.weights) > 0
             /\ item.scores = IF q.kind = "single" THEN q.scores ELSE <<>>
<1> DEFINE n == optionCount(q, e)
           given == probabilitiesForEntry(e, row, n)
           bias == resolveBias(e, given, n)
           w == IF given = NoWeights THEN buildBiasTargetProbabilities(n, bias) ELSE given
           item == newItem(q, e, row)
<1>1. n \in Nat /\ n >= 2
  BY CountIsNatural
<1>2. /\ item.num = q.num /\ item.row = row /\ item.count = n /\ item.weights = w
      /\ item.scores = IF q.kind = "single" THEN q.scores ELSE <<>>
  BY DEF newItem
<1>3. bias \in {"left", "center", "right"}
  <2> HIDE DEF given
  <2> QED
    BY DEF resolveBias
<1> HIDE DEF n, item
<1>4. w \in [1..n -> Nat] /\ Positive(w) # {}
  <2>1. CASE given = NoWeights
    <3> HIDE DEF bias, given
    <3> QED
      BY <1>1, <1>3, <2>1, BiasIsWeighted
  <2>2. CASE given # NoWeights
    <3>1. n \in Nat \ {0}
      BY <1>1
    <3>2. given \in [1..n -> Nat] /\ Positive(given) # {}
      BY <2>2, <3>1, GivenIsWeighted
    <3> QED
      BY <2>2, <3>2
  <2> QED
    BY <2>1, <2>2
<1> HIDE DEF w
<1>5. positiveTotal(w) \in Nat /\ positiveTotal(w) > 0
  <2>1. PICK i \in 1..n : w[i] > 0
    BY <1>4 DEF Positive
  <2>2. positiveTotal(w) \in Nat /\ w[i] <= positiveTotal(w)
    BY <1>1, <1>4, TotalIsNatural
  <2>3. w[i] \in Nat
    BY <1>4
  <2> QED
    BY <2>1, <2>2, <2>3
<1> QED
  BY <1>2, <1>4, <1>5 DEF item, n

\* The row an answer to a question is looked up by.
Asks(q, row) ==
  \/ q.kind \in ChoiceKinds /\ row = NoRow
  \/ q.kind = "matrix" /\ row \in 1..AtLeast(1, q.rows)

\* What the plan makes of a question.
ItemOf(item, q) ==
  /\ item.num = q.num /\ Asks(q, item.row)
  /\ item.count = q.options /\ q.options \in Nat /\ q.options >= 2
  /\ item.weights \in [1..item.count -> Nat]
  /\ positiveTotal(item.weights) \in Nat /\ positiveTotal(item.weights) > 0
  /\ \A s \in 0..(item.count - 1) : choiceIndexForScore(item, s) = s

\* Scores that follow the options stand for them.
LEMMA ScoreIsOption ==
  ASSUME NEW item, item.count \in Nat, item.scores \in Seq(Int),
         \A c \in DOMAIN item.scores : item.scores[c] = c - 1,
         NEW s \in 0..(item.count - 1)
  PROVE  choiceIndexForScore(item, s) = s
<1> DEFINE hits == {c \in DOMAIN item.scores : item.scores[c] = s}
           chosen == IF hits = {} THEN s ELSE Min(hits) - 1
<1>1. choiceIndexForScore(item, s) = Clamp(chosen, 0, item.count - 1)
  BY DEF choiceIndexForScore
<1>2. \A c \in hits : c \in Nat /\ c = s + 1
  OBVIOUS
<1> HIDE DEF hits
<1>3. hits # {} => Min(hits) = s + 1
  <2>1. hits \subseteq Nat
    BY <1>2
  <2> QED
    BY <1>2, <2>1, MinIsLeast
<1>4. chosen = s
  BY <1>3
<1> HIDE DEF chosen
<1> QED
  BY <1>1, <1>4 DEF Clamp

\* blueprint.go: an item of the plan is of one question, and its quotas can be
\* followed option by option.
LEMMA ItemIsOfQuestion ==
  ASSUME NEW questions, Graded(questions), \A q \in questions : SoundQuestion(q),
         NEW entries,
         \A num \in DOMAIN entries : SoundEntry(entries[num]) /\ SoundRows(entries[num]),
         NEW item \in PlannedItems(questions, entries)
  PROVE  \E q \in questions : /\ ItemOf(item, q) /\ q.num \in DOMAIN entries
                              /\ Question(questions, q.num) = q
<1>1. PICK q \in questions : q.num \in DOMAIN entries
                             /\ item \in blueprintItems(q, entries[q.num])
  BY DEF PlannedItems, buildBlueprint
<1> DEFINE e == entries[q.num]
<1>2. PICK row : item = newItem(q, e, row) /\ Asks(q, row)
  <2>1. CASE q.kind \in {"scale", "score", "dropdown"}
    BY <1>1, <2>1 DEF blueprintItems, Asks, ChoiceKinds
  <2>2. CASE q.kind = "single"
    BY <1>1, <2>2 DEF blueprintItems, Asks, ChoiceKinds
  <2>3. CASE q.kind = "matrix"
    BY <1>1, <2>3 DEF blueprintItems, Asks
  <2>4. CASE q.kind \notin {"scale", "score", "dropdown", "single", "matrix"}
    BY <1>1, <2>4 DEF blueprintItems
  <2> QED
    BY <2>1, <2>2, <2>3, <2>4
<1>3. SoundQuestion(q) /\ SoundEntry(e) /\ SoundRows(e)
  BY <1>1
<1>4. /\ q.options \in Nat /\ q.options >= 2 /\ q.scores \in Seq(Int)
      /\ \A c \in DOMAIN q.scores : q.scores[c] = c - 1
  BY <1>2, <1>3 DEF Graded, SoundQuestion, Asks
<1>5. optionCount(q, e) = q.options
  BY <1>4 DEF optionCount, AtLeast
<1>6. /\ item.num = q.num /\ item.row = row /\ item.count = q.options
      /\ item.weights \in [1..item.count -> Nat] /\ positiveTotal(item.weights) \in Nat
      /\ positiveTotal(item.weights) > 0
      /\ item.scores = IF q.kind = "single" THEN q.scores ELSE <<>>
  BY <1>2, <1>3, <1>5, ItemIsWeighted
<1> HIDE DEF e
<1>7. \A s \in 0..(item.count - 1) : choiceIndexForScore(item, s) = s
  <2>1. item.scores \in Seq(Int) /\ \A c \in DOMAIN item.scores : item.scores[c] = c - 1
    BY <1>4, <1>6
  <2> QED
    BY <1>4, <1>6, <2>1, ScoreIsOption
<1>8. ItemOf(item, q)
  BY <1>2, <1>4, <1>6, <1>7 DEF ItemOf
<1>9. Question(questions, q.num) = q
  BY DEF Graded, Question
<1> QED
  BY <1>1, <1>8, <1>9

\* sampling.go:86: a plan takes every option of an item as often as its weight
\* asks, less than one answer off.
LEMMA PlanIsFair ==
  ASSUME NEW n \in Nat, NEW items, NEW p \in JointPlans(items, n),
         NEW item \in items, NEW q, ItemOf(item, q)
  PROVE  /\ p[Key(item)] \in [0..(n - 1) -> 0..(item.count - 1)]
         /\ \A i \in 1..item.count :
              LET taken == Cardinality({j \in 0..(n - 1) : p[Key(item)][j] = i - 1})
                  whole == positiveTotal(item.weights)
              IN  Abs(taken * whole - item.weights[i] * n) < whole
<1> DEFINE quotas == integerQuotas(item.weights, n)
<1>1. p[Key(item)] \in Arrangements(item, n)
  BY DEF JointPlans
<1>2. PICK f \in [0..(n - 1) -> 0..(item.count - 1)] :
        /\ p[Key(item)] = [j \in 0..(n - 1) |-> choiceIndexForScore(item, f[j])]
        /\ \A s \in 0..(item.count - 1) :
             Cardinality({j \in DOMAIN f : f[j] = s}) = quotas[s + 1]
  BY <1>1 DEF Arrangements
<1> HIDE DEF quotas
<1>3. p[Key(item)] = f
  <2>1. \A j \in 0..(n - 1) : choiceIndexForScore(item, f[j]) = f[j]
    BY DEF ItemOf
  <2>2. f = [j \in 0..(n - 1) |-> f[j]]
    OBVIOUS
  <2> QED
    BY <1>2, <2>1, <2>2
<1>4. ASSUME NEW i \in 1..item.count
      PROVE  LET taken == Cardinality({j \in 0..(n - 1) : p[Key(item)][j] = i - 1})
                 whole == positiveTotal(item.weights)
             IN  Abs(taken * whole - item.weights[i] * n) < whole
  <2>1. item.count \in Nat /\ i - 1 \in 0..(item.count - 1) /\ (i - 1) + 1 = i
    BY DEF ItemOf
  <2>2. Cardinality({j \in 0..(n - 1) : f[j] = i - 1}) = quotas[i]
    <3>1. DOMAIN f = 0..(n - 1)
      OBVIOUS
    <3> QED
      BY <1>2, <2>1, <3>1
  <2>3. Abs(quotas[i] * positiveTotal(item.weights) - item.weights[i] * n)
          < positiveTotal(item.weights)
    BY <2>1, QuotasAreFair DEF ItemOf, quotas
  <2> QED
    BY <1>3, <2>2, <2>3
<1> QED
  BY <1>3, <1>4

\* plan.go: the sample of a job leaves the planned option to every item.
LEMMA SampleSteers ==
  ASSUME NEW q, NEW e, SoundEntry(e), NEW p, NEW j, NEW row, Asks(q, row),
         q.options \in Nat, q.options >= 2,
         <<q.num, row>> \in DOMAIN p, q.kind = "matrix" => <<q.num, NoRow>> \notin DOMAIN p,
         p[<<q.num, row>>][j] \in 0..(q.options - 1)
  PROVE  Steered(applyQuestionSample(q, e, p, j), row, q.options, p[<<q.num, row>>][j])
<1> DEFINE n == optionCount(q, e)
           rows == {r \in 1..AtLeast(1, q.rows) : <<q.num, r>> \in DOMAIN p}
           Kept(r) == IF r \in DOMAIN e.rows /\ e.rows[r] # <<>> THEN e.rows[r] ELSE e.options
           table == [r \in 1..AtLeast(1, q.rows) |->
                       IF r \in rows THEN oneHot(n, p[<<q.num, r>>][j]) ELSE Kept(r)]
           choice == p[<<q.num, row>>][j]
           f == applyQuestionSample(q, e, p, j)
<1>1. n = q.options
  BY DEF optionCount, AtLeast
<1>2. oneHot(q.options, choice) = Hot(q.options, choice)
  BY OneHotIsHot
<1>3. CASE row = NoRow
  <2>1. f = [e EXCEPT !.options = oneHot(n, choice),
                      !.rows = <<>>, !.custom = <<>>, !.customRows = <<>>]
    BY <1>3 DEF applyQuestionSample
  <2> HIDE DEF f, choice, n
  <2>2. f.options = oneHot(n, choice) /\ f.rows = <<>> /\ f.custom = <<>> /\ f.customRows = <<>>
    BY <2>1 DEF SoundEntry
  <2> QED
    BY <1>1, <1>2, <1>3, <2>2 DEF Steered, f, choice
<1>4. CASE row # NoRow
  <2>1. q.kind = "matrix" /\ row \in rows
    BY <1>4 DEF Asks
  <2>2. f = [e EXCEPT !.rows = table, !.options = <<>>, !.custom = <<>>, !.customRows = <<>>]
    BY <2>1 DEF applyQuestionSample
  <2>3. row \in DOMAIN table /\ table[row] = oneHot(n, choice)
    BY <2>1
  <2> HIDE DEF f, choice, n, table
  <2>4. f.options = <<>> /\ f.rows = table /\ f.custom = <<>> /\ f.customRows = <<>>
    BY <2>2 DEF SoundEntry
  <2> QED
    BY <1>1, <1>2, <1>4, <2>3, <2>4 DEF Steered, f, choice
<1> QED
  BY <1>3, <1>4

\* run_answer_runtime.go: an entry that leaves one option gets it for an answer.
LEMMA SteeredIsAnswered ==
  ASSUME NEW q, NEW e, NEW row, Asks(q, row), q.options \in Nat, q.options >= 2,
         NEW choice \in 0..(q.options - 1), Steered(e, row, q.options, choice),
         \A k \in DOMAIN stats : stats[k] \in Nat,
         NEW answer \in AnswersOf(q, e)
  PROVE  OptionOf(answer, row) = choice
<1> DEFINE n == AtLeast(1, q.options)
           c == Snapshot(q.num, row, n)
<1>1. n = q.options
  BY DEF AtLeast
<1>2. c \in [1..n -> Nat]
  BY <1>1 DEF Snapshot
<1>3. positiveTotal(c) \in Nat
  BY <1>1, <1>2, TotalIsNatural
<1>4. ChoicesOf(q, e, row) = {choice}
  <2> DEFINE w == effectiveSelectionValues(e, selectionEntry(e, row, n, {}, 0, c, positiveTotal(c)))
             drawn == SelectedIndex(w, n)
  <2>1. ChoicesOf(q, e, row) = {i - 1 : i \in drawn}
    BY DEF ChoicesOf, DrawnWeights
  <2> HIDE DEF c
  <2>2. drawn = {choice + 1}
    <3>1. n \in Nat \ {0}
      BY <1>1
    <3> QED
      BY <1>1, <1>2, <1>3, <3>1, SteeredIsDrawn
  <2> HIDE DEF drawn
  <2>3. {i - 1 : i \in {choice + 1}} = {choice}
    OBVIOUS
  <2> QED
    BY <2>1, <2>2, <2>3
<1>5. CASE q.kind \in ChoiceKinds /\ row = NoRow
  <2>1. answer \in ChoiceAnswers(q, e)
    BY <1>5 DEF AnswersOf, ChoiceKinds
  <2>2. answer = Picked(q, e, choice)
    BY <1>4, <1>5, <2>1 DEF ChoiceAnswers
  <2>3. answer.index = choice
    BY <2>2 DEF Picked, R!Choice
  <2> QED
    BY <1>5, <2>3 DEF OptionOf
<1>6. CASE q.kind = "matrix" /\ row \in 1..AtLeast(1, q.rows)
  <2>1. answer \in MatrixAnswers(q, e)
    BY <1>6 DEF AnswersOf, ChoiceKinds
  <2>2. answer.indexes[row] \in ChoicesOf(q, e, row)
    BY <1>6, <2>1 DEF MatrixAnswers
  <2>3. row # NoRow
    BY <1>6 DEF NoRow
  <2> QED
    BY <1>4, <2>2, <2>3 DEF OptionOf
<1> QED
  BY <1>5, <1>6 DEF Asks

-----------------------------------------------------------------------------
(* A plan is followed job by job                                           *)

Planned == PlannedItems(cfg.definition, cfg.strategies)

PlanMade == "psychometrics" \in Range(hooks)

PlannedOption(item, j) == plan[Key(item)][j]

Steering(entries, j) ==
  \A item \in Planned :
    Steered(entries[item.num], item.row, item.count, PlannedOption(item, j))

Following(answers, j) ==
  \A item \in Planned : OptionOf(answers[item.num], item.row) = PlannedOption(item, j)

Follows(w) ==
  /\ workers[w].phase \in {"build", "submit", "settle"} =>
       Job(w) \in 0..(sampleCount - 1) /\ Steering(workers[w].entries, Job(w))
  /\ workers[w].phase \in {"submit", "settle"} => Following(workers[w].answers, Job(w))

\* What the plan is made of, and that it is the last thing the preparation makes.
PlanSound ==
  /\ Graded(cfg.definition)
  /\ \A num \in DOMAIN cfg.strategies : SoundRows(cfg.strategies[num])
  /\ samples # <<>> => request.reverse.enabled
  /\ PlanMade =>
       /\ ~request.reverse.enabled /\ cfg.definition # {}
       /\ stage \notin {"reverse_fill", "window", "ai", "psychometrics"}
       /\ hooks[Len(hooks)] = "psychometrics"
       /\ plan \in JointPlans(Planned, sampleCount)

PlanFollowed ==
  /\ \A k \in DOMAIN stats : stats[k] \in Nat
  /\ PlanMade =>
       /\ \A w \in Workers : Follows(w)
       /\ \A j \in DOMAIN recorded : j \in 0..(sampleCount - 1) /\ Following(recorded[j], j)

PlanInv == PlanSound /\ PlanFollowed

\* The invariant says so for each job; counting them gives the quotas.
LEMMA PlanIsRealised == ASSUME RunInv, PlanInv PROVE QuotasRealised
<1> SUFFICES ASSUME PlanMade, DOMAIN recorded = 0..(sampleCount - 1),
                    NEW item \in Planned, NEW i \in DOMAIN item.weights
             PROVE  LET taken == Cardinality({j \in DOMAIN recorded :
                                    OptionOf(recorded[j][item.num], item.row) = i - 1})
                        whole == positiveTotal(item.weights)
                    IN  Abs(taken * whole - item.weights[i] * sampleCount) < whole
  BY DEF QuotasRealised, Planned, PlanMade
<1>1. PICK q \in cfg.definition : ItemOf(item, q)
  BY ItemIsOfQuestion DEF RunInv, Prepared, PlanInv, PlanSound, Planned
<1>2. sampleCount \in Nat
  BY DEF RunInv, Prepared, sampleCount, AtLeast
<1>3. plan \in JointPlans(Planned, sampleCount)
  BY DEF PlanInv, PlanSound
<1>4. i \in 1..item.count
  BY <1>1 DEF ItemOf
<1>5. \A j \in DOMAIN recorded : OptionOf(recorded[j][item.num], item.row) = plan[Key(item)][j]
  BY DEF PlanInv, PlanFollowed, Following, PlannedOption
<1>6. {j \in DOMAIN recorded : OptionOf(recorded[j][item.num], item.row) = i - 1}
        = {j \in 0..(sampleCount - 1) : plan[Key(item)][j] = i - 1}
  BY <1>5
<1> QED
  BY <1>1, <1>2, <1>3, <1>4, <1>6, PlanIsFair

\* run_psychometrics.go: once every hook has changed the entries of a job, the
\* plan's is the one that is left.
LEMMA ConfiguredSteers ==
  ASSUME RunInv, PlanInv, PlanMade, NEW w \in Workers, Job(w) \in Nat, NEW service,
         \A hook \in Range(hooks) : Applicable(hook, w, service)
  PROVE  Job(w) \in 0..(sampleCount - 1) /\ Steering(Configured(w, service), Job(w))
<1> DEFINE j == Job(w)
           n == Len(hooks)
<1>1. Prepared /\ samples = <<>> /\ sampleCount \in Nat
  BY DEF RunInv, PlanInv, PlanSound, Prepared, sampleCount, AtLeast
<1>2. hooks \in Seq(HookNames) /\ n \in Nat /\ n - 1 \in 0..n /\ n \in 0..n /\ n # 0
  <2>1. hooks \in Seq(HookNames) /\ n \in Nat
    BY <1>1 DEF Prepared
  <2>2. n # 0
    BY <2>1 DEF PlanMade, Range
  <2> QED
    BY <2>1, <2>2
<1>3. hooks[n] = "psychometrics"
  BY DEF PlanInv, PlanSound
<1>4. j \in 0..(sampleCount - 1)
  BY <1>1 DEF PlanMade, Applicable
<1>5. PICK after : /\ \A k \in 0..n :
                         /\ Keeps(after[k])
                         /\ after[k] = IF k = 0 THEN cfg.strategies
                                       ELSE Applied(hooks[k], after[k - 1], w, service)
                    /\ Configured(w, service) = after[n]
  BY <1>1, HooksKeep
<1> DEFINE before == after[n - 1]
<1>6. Keeps(before) /\ Configured(w, service) = Applied("psychometrics", before, w, service)
  BY <1>2, <1>3, <1>5
<1> HIDE DEF before, n
<1>7. Configured(w, service) = ApplySample(cfg.definition, before, plan, j)
  BY <1>6 DEF Applied
<1>8. plan \in JointPlans(Planned, sampleCount)
  BY DEF PlanInv, PlanSound
<1> HIDE DEF j
<1>9. ASSUME NEW item \in Planned
      PROVE  Steered(Configured(w, service)[item.num], item.row, item.count,
                     PlannedOption(item, j))
  <2>1. PICK q \in cfg.definition : /\ ItemOf(item, q) /\ q.num \in DOMAIN cfg.strategies
                                    /\ Question(cfg.definition, q.num) = q
    BY <1>1, ItemIsOfQuestion DEF Prepared, PlanInv, PlanSound, Planned
  <2>2. q.num \in DOMAIN before /\ SoundEntry(before[q.num])
    BY <1>6, <2>1 DEF Keeps
  <2>3. Configured(w, service)[q.num] = applyQuestionSample(q, before[q.num], plan, j)
    BY <1>7, <2>1, <2>2 DEF ApplySample, Question
  <2>4. Key(item) = <<q.num, item.row>> /\ Key(item) \in DOMAIN plan
    BY <1>8, <2>1 DEF Key, ItemOf, JointPlans
  <2>5. ASSUME q.kind = "matrix" PROVE <<q.num, NoRow>> \notin DOMAIN plan
    <3> SUFFICES ASSUME <<q.num, NoRow>> \in DOMAIN plan PROVE FALSE
      OBVIOUS
    <3>1. PICK other \in Planned : other.num = q.num /\ other.row = NoRow
      BY <1>8 DEF Key, JointPlans
    <3>2. PICK p \in cfg.definition : ItemOf(other, p)
      BY <1>1, ItemIsOfQuestion DEF Prepared, PlanInv, PlanSound, Planned
    <3>3. p = q
      BY <3>1, <3>2 DEF ItemOf, PlanInv, PlanSound, Graded
    <3> QED
      BY <2>5, <3>1, <3>2, <3>3 DEF ItemOf, Asks, ChoiceKinds, NoRow
  <2>6. plan[<<q.num, item.row>>][j] \in 0..(q.options - 1)
    <3>1. plan[Key(item)] \in [0..(sampleCount - 1) -> 0..(item.count - 1)]
      BY <1>1, <1>8, <2>1, PlanIsFair
    <3> QED
      BY <1>4, <2>1, <2>4, <3>1 DEF ItemOf
  <2>7. Steered(applyQuestionSample(q, before[q.num], plan, j), item.row, q.options,
                plan[<<q.num, item.row>>][j])
    BY <2>1, <2>2, <2>4, <2>5, <2>6, SampleSteers DEF ItemOf
  <2> QED
    BY <2>1, <2>3, <2>4, <2>7 DEF ItemOf, PlannedOption
<1> QED
  BY <1>4, <1>9 DEF Steering, j

\* What a job was configured for is what it answers.
LEMMA SubmissionFollows ==
  ASSUME RunInv, PlanInv, PlanMade, NEW entries, NEW j \in 0..(sampleCount - 1),
         Steering(entries, j), NEW answers \in Submissions(entries)
  PROVE  Following(answers, j)
<1> SUFFICES ASSUME NEW item \in Planned
             PROVE  OptionOf(answers[item.num], item.row) = PlannedOption(item, j)
  BY DEF Following
<1>1. PICK q \in cfg.definition : ItemOf(item, q) /\ Question(cfg.definition, q.num) = q
  BY ItemIsOfQuestion DEF RunInv, Prepared, PlanInv, PlanSound, Planned
<1>2. answers[q.num] \in AnswersOf(q, entries[q.num])
  BY <1>1 DEF Submissions
<1>3. Steered(entries[q.num], item.row, q.options, PlannedOption(item, j))
  BY <1>1 DEF Steering, ItemOf
<1>4. PlannedOption(item, j) \in 0..(q.options - 1)
  <2>1. sampleCount \in Nat /\ plan \in JointPlans(Planned, sampleCount)
    BY DEF RunInv, Prepared, PlanInv, PlanSound, sampleCount, AtLeast
  <2> QED
    BY <1>1, <2>1, PlanIsFair DEF ItemOf, PlannedOption
<1>5. \A k \in DOMAIN stats : stats[k] \in Nat
  BY DEF PlanInv, PlanFollowed
<1> QED
  BY <1>1, <1>2, <1>3, <1>4, <1>5, SteeredIsAnswered DEF ItemOf

\* What a worker has followed it still follows.
LEMMA PlannedKept ==
  ASSUME UNCHANGED <<cfg, plan>>
  PROVE  /\ Planned' = Planned /\ sampleCount' = sampleCount
         /\ \A v : v \in Workers /\ workers'[v] = workers[v] => (Follows(v)' <=> Follows(v))
         /\ \A j : recorded'[j] = recorded[j] =>
              (Following(recorded[j], j)' <=> Following(recorded[j], j))
<1>1. Planned' = Planned /\ sampleCount' = sampleCount
  BY DEF Planned, sampleCount
<1>2. \A item, j : PlannedOption(item, j)' = PlannedOption(item, j)
  BY DEF PlannedOption
<1>3. ASSUME NEW v \in Workers, workers'[v] = workers[v] PROVE Follows(v)' <=> Follows(v)
  BY <1>1, <1>2, <1>3 DEF Follows, Following, Steering, Job, PlannedOption
<1>4. ASSUME NEW j, recorded'[j] = recorded[j]
      PROVE  Following(recorded[j], j)' <=> Following(recorded[j], j)
  BY <1>1, <1>2, <1>4 DEF Following, PlannedOption
<1> QED
  BY <1>1, <1>3, <1>4

\* A stage of the preparation finds no answers and leaves none.
LEMMA PlanStageStep ==
  ASSUME RunInv, PlanInv, stage \notin {"running", "done"}, UNCHANGED working, PlanSound'
  PROVE  PlanInv'
<1>1. /\ DOMAIN recorded = {} /\ DOMAIN stats = {}
      /\ \A w \in Workers : workers[w].phase = "idle"
  BY DEF RunInv, Resting
<1>2. recorded' = recorded /\ stats' = stats /\ workers' = workers
  BY DEF working
<1>3. PlanFollowed'
  BY <1>1, <1>2 DEF PlanFollowed, Follows
<1> QED
  BY <1>3 DEF PlanInv

\* Nothing the plan is made of changes.
LEMMA PlanSoundKept ==
  ASSUME PlanSound, UNCHANGED <<request, cfg, hooks, samples, plan>>,
         stage' \notin {"reverse_fill", "window", "ai", "psychometrics"} \/ stage' = stage
  PROVE  PlanSound'
<1>1. Planned' = Planned /\ sampleCount' = sampleCount /\ (PlanMade' <=> PlanMade)
  BY DEF Planned, sampleCount, PlanMade
<1> QED
  BY <1>1 DEF PlanSound

\* A stage before the last adds another hook, or changes what is configured.
LEMMA NoPlanYet ==
  ASSUME ~PlanMade', Graded(cfg'.definition),
         \A num \in DOMAIN cfg'.strategies : SoundRows(cfg'.strategies[num]),
         samples' # <<>> => request'.reverse.enabled
  PROVE  PlanSound'
BY DEF PlanSound

\* Parsed or given, the questions are ones whose plan can be followed.
LEMMA DefinedIsGraded ==
  ASSUME RequestsGraded, RunInv, PlanSound
  PROVE  /\ Graded(Defined.definition)
         /\ \A num \in DOMAIN Defined.strategies : SoundRows(Defined.strategies[num])
<1>1. request \in Requests
  BY DEF RunInv, Prepared
<1>2. CASE cfg.definition # {}
  BY <1>2 DEF Defined, PlanSound
<1>3. CASE cfg.definition = {}
  <2> DEFINE made == buildDefaultQuestionStrategies(request.platform)
  <2>1. Defined.definition = request.platform /\ Defined.strategies = made
    <3>1. cfg = [definition |-> cfg.definition, strategies |-> cfg.strategies,
                 target |-> cfg.target]
      BY DEF RunInv, Prepared
    <3> HIDE DEF made
    <3> QED
      BY <1>3, <3>1 DEF Defined, made
  <2>2. ASSUME NEW q PROVE SoundRows(DefaultEntry(q))
    <3>1. DefaultEntry(q).rows = <<>> /\ DefaultEntry(q).customRows = <<>>
      BY DEF DefaultEntry
    <3> QED
      BY <3>1 DEF SoundRows
  <2>3. \A num \in DOMAIN made : SoundRows(made[num])
    BY <2>2 DEF buildDefaultQuestionStrategies
  <2> HIDE DEF made
  <2> QED
    BY <1>1, <2>1, <2>3 DEF RequestsGraded
<1> QED
  BY <1>2, <1>3

LEMMA PlanInit ==
  ASSUME RequestsGraded, Init
  PROVE  PlanInv
<1>1. /\ request \in Requests /\ hooks = <<>> /\ samples = <<>>
      /\ cfg.definition = request.definition /\ cfg.strategies = request.strategies
  BY DEF Init
<1>2. ~PlanMade
  BY <1>1 DEF PlanMade, Range
<1>3. DOMAIN stats = {}
  <2>1. stats = <<>>
    BY DEF Init
  <2>2. <<>> \in Seq(Int) /\ Len(<<>>) = 0
    OBVIOUS
  <2> QED
    BY <2>1, <2>2
<1> QED
  BY <1>1, <1>2, <1>3, RequestsAssumption DEF RequestsGraded, PlanInv, PlanSound, PlanFollowed

\* runtime/run.go: the plan is the last stage's, of the questions and entries
\* that the stages before it left.
LEMMA PlanPreparesStep ==
  ASSUME RequestsGraded, RunInv, PlanInv, Prepares
  PROVE  PlanInv'
<1> USE DEF prepared
<1>1. Prepared /\ PlanSound /\ request \in Requests /\ hooks \in Seq(HookNames)
      /\ cfg = [definition |-> cfg.definition, strategies |-> cfg.strategies,
                target |-> cfg.target]
  BY DEF RunInv, Prepared, PlanInv
<1>2. /\ Graded(cfg.definition)
      /\ \A num \in DOMAIN cfg.strategies : SoundRows(cfg.strategies[num])
      /\ Graded(Defined.definition)
      /\ \A num \in DOMAIN Defined.strategies : SoundRows(Defined.strategies[num])
      /\ samples # <<>> => request.reverse.enabled
      /\ stage \in {"reverse_fill", "window", "ai", "psychometrics"} => ~PlanMade
  BY <1>1, DefinedIsGraded DEF PlanSound
<1>3. ASSUME NEW kind, Abort(kind), stage \notin {"running", "done"} PROVE PlanInv'
  <2>1. PlanSound'
    BY <1>1, <1>3, PlanSoundKept DEF Abort
  <2> QED
    BY <1>3, <2>1, PlanStageStep DEF Abort
<1>4. ASSUME NEW x \in HookNames \ {"psychometrics"}, hooks' = Append(hooks, x), ~PlanMade
      PROVE  ~PlanMade'
  BY <1>1, <1>4, HookJoins DEF PlanMade
<1>5. CASE SkipReverseFill
  <2>1. PlanSound'
    BY <1>2, <1>5, NoPlanYet DEF SkipReverseFill, PlanMade
  <2> QED
    BY <1>5, <2>1, PlanStageStep DEF SkipReverseFill
<1>6. CASE RefuseReverseFill
  BY <1>3, <1>6 DEF RefuseReverseFill
<1>7. CASE ParseFails
  BY <1>3, <1>7 DEF ParseFails
<1>8. CASE PrepareReverseFill
  <2>1. CASE ~Sufficient(Preview)
    BY <1>3, <1>8, <2>1 DEF PrepareReverseFill
  <2>2. CASE Sufficient(Preview)
    <3>1. /\ stage = "reverse_fill" /\ request.reverse.enabled
          /\ cfg' = [Defined EXCEPT !.target = Target]
          /\ hooks' = Append(hooks, "reverse_fill") /\ UNCHANGED <<request, working>>
      BY <1>8, <2>2 DEF PrepareReverseFill, ReverseUsed
    <3>2. ~PlanMade'
      BY <1>2, <1>4, <3>1 DEF HookNames
    <3>3. cfg'.definition = Defined.definition /\ cfg'.strategies = Defined.strategies
      BY <1>1, <3>1, DefinedIsSound
    <3>4. PlanSound'
      BY <1>2, <3>1, <3>2, <3>3, NoPlanYet
    <3> QED
      BY <3>1, <3>4, PlanStageStep
  <2> QED
    BY <2>1, <2>2
<1>9. CASE PrepareRuntime
  <2> DEFINE refused == /\ request.provider = "credamo"
                        /\ ~WindowSound(request.window, request.duration)
  <2>1. CASE refused
    BY <1>3, <1>9, <2>1 DEF PrepareRuntime
  <2>2. CASE ~refused
    <3>1. /\ stage = "window" /\ hooks' = Append(hooks, "persona")
          /\ UNCHANGED <<request, cfg, samples, working>>
      BY <1>9, <2>2 DEF PrepareRuntime
    <3>2. ~PlanMade'
      BY <1>2, <1>4, <3>1 DEF HookNames
    <3>3. PlanSound'
      BY <1>2, <3>1, <3>2, NoPlanYet
    <3> QED
      BY <3>1, <3>3, PlanStageStep
  <2> QED
    BY <2>1, <2>2
<1>10. CASE PrepareAI
  <2>1. /\ stage = "ai" /\ cfg' \in {cfg, Defined}
        /\ hooks' = hooks \/ hooks' = Append(hooks, "ai")
        /\ UNCHANGED <<request, samples, working>>
    BY <1>10 DEF PrepareAI
  <2>2. ~PlanMade'
    BY <1>2, <1>4, <2>1 DEF HookNames, PlanMade
  <2>3. PlanSound'
    BY <1>2, <2>1, <2>2, NoPlanYet
  <2> QED
    BY <2>1, <2>3, PlanStageStep
<1>11. CASE PreparePsychometrics
  <2> DEFINE c == IF PsychometricsUsed THEN Defined ELSE cfg
             items == IF PsychometricsUsed THEN PlannedItems(c.definition, c.strategies) ELSE {}
  <2>1. /\ stage = "psychometrics" /\ stage' = "prepare" /\ cfg' = c
        /\ UNCHANGED <<request, options, samples, working>>
        /\ items = {} => UNCHANGED <<plan, hooks>>
        /\ items # {} => plan' \in JointPlans(items, sampleCount)
                           /\ hooks' = Append(hooks, "psychometrics")
    BY <1>11 DEF PreparePsychometrics
  <2>2. /\ Graded(c.definition)
        /\ \A num \in DOMAIN c.strategies : SoundRows(c.strategies[num])
        /\ c.target = cfg.target
    BY <1>1, <1>2, DefinedIsSound
  <2>3. CASE items = {}
    <3>1. ~PlanMade'
      BY <1>2, <2>1, <2>3 DEF PlanMade
    <3> HIDE DEF c
    <3>2. PlanSound'
      BY <1>2, <2>1, <2>2, <3>1, NoPlanYet
    <3> QED
      BY <2>1, <3>2, PlanStageStep
  <2>4. CASE items # {}
    <3>1. PsychometricsUsed /\ items = PlannedItems(c.definition, c.strategies)
      BY <2>4
    <3>2. ~request.reverse.enabled
      BY <3>1 DEF PsychometricsUsed
    <3> HIDE DEF c, items
    <3>3. sampleCount' = sampleCount /\ Planned' = items
      BY <2>1, <2>2, <3>1 DEF sampleCount, Planned
    <3>4. c.definition # {}
      <4> SUFFICES ASSUME c.definition = {} PROVE items = {}
        BY <2>4
      <4> QED
        BY <3>1 DEF PlannedItems, buildBlueprint
    <3>5. hooks'[Len(hooks')] = "psychometrics"
      <4>1. Len(hooks') = Len(hooks) + 1 /\ hooks'[Len(hooks) + 1] = "psychometrics"
        BY <1>1, <2>1, <2>4
      <4> QED
        BY <4>1
    <3>6. PlanSound'
      BY <1>2, <2>1, <2>2, <2>4, <3>2, <3>3, <3>4, <3>5 DEF PlanSound
    <3> QED
      BY <2>1, <3>6, PlanStageStep
  <2> QED
    BY <2>3, <2>4
<1>12. CASE Prepare
  <2>1. /\ stage = "prepare" /\ stage' = "running"
        /\ cfg' = [cfg EXCEPT !.definition = IF cfg.definition = {} THEN request.platform
                                             ELSE cfg.definition]
        /\ UNCHANGED <<request, hooks, samples, plan, working>>
    BY <1>12 DEF Prepare
  <2>2. CASE PlanMade
    <3>1. cfg' = cfg
      BY <1>1, <2>1, <2>2 DEF PlanSound
    <3>2. PlanSound'
      BY <1>1, <2>1, <3>1, PlanSoundKept
    <3> QED
      BY <2>1, <3>2, PlanStageStep
  <2>3. CASE ~PlanMade
    <3>1. ~PlanMade' /\ Graded(cfg'.definition) /\ cfg'.strategies = cfg.strategies
      BY <1>1, <1>2, <2>1, <2>3 DEF PlanMade, RequestsGraded
    <3>2. PlanSound'
      BY <1>2, <2>1, <3>1, NoPlanYet
    <3> QED
      BY <2>1, <3>2, PlanStageStep
  <2> QED
    BY <2>2, <2>3
<1>13. CASE PrepareFails
  BY <1>3, <1>13 DEF PrepareFails
<1> QED
  BY <1>5, <1>6, <1>7, <1>8, <1>9, <1>10, <1>11, <1>12, <1>13 DEF Prepares

\* A step of one worker: the others follow the plan as they did.
LEMMA FollowedStep ==
  ASSUME RunInv, PlanInv, NEW w \in Workers, Only(w),
         \A k \in DOMAIN stats' : stats'[k] \in Nat,
         PlanMade => /\ Follows(w)'
                     /\ \A j \in DOMAIN recorded' :
                          \/ j \in DOMAIN recorded /\ recorded'[j] = recorded[j]
                          \/ j \in 0..(sampleCount - 1) /\ Following(recorded[j], j)'
  PROVE  PlanInv'
<1>1. UNCHANGED <<request, stage, cfg, hooks, samples, plan>>
  BY DEF Only, prepared
<1>2. PlanSound'
  BY <1>1, PlanSoundKept DEF PlanInv
<1>3. (PlanMade' <=> PlanMade) /\ sampleCount' = sampleCount
  BY <1>1, PlannedKept DEF PlanMade
<1>4. ASSUME PlanMade PROVE \A v \in Workers : Follows(v)'
  BY <1>1, <1>4, PlannedKept DEF Only, PlanInv, PlanFollowed
<1>5. ASSUME PlanMade, NEW j \in DOMAIN recorded'
      PROVE  j \in 0..(sampleCount - 1) /\ Following(recorded[j], j)'
  BY <1>1, <1>5, PlannedKept DEF PlanInv, PlanFollowed
<1> QED
  BY <1>2, <1>3, <1>4, <1>5 DEF PlanInv, PlanFollowed

\* A worker follows the plan from the configuration of its job on.
LEMMA PlanWorkerStep ==
  ASSUME RunInv, PlanInv, NEW w \in Workers, WorkerStep(w)
  PROVE  PlanInv'
<1>1. /\ DOMAIN workers = Workers /\ DOMAIN pending = Workers
      /\ UNCHANGED <<request, stage, prepared>>
      /\ \A k \in DOMAIN stats : stats[k] \in Nat
  BY DEF RunInv, Placed, PlanInv, PlanFollowed, WorkerStep, TakeJob, Configure, ConfigureFails,
         Build, BuildFails, Submit, SubmitFails, Settle
<1>2. cfg' = cfg /\ plan' = plan /\ Planned' = Planned /\ sampleCount' = sampleCount
  BY <1>1, PlannedKept DEF prepared
<1>3. ASSUME Only(w), UNCHANGED <<recorded, stats>>, PlanMade => Follows(w)' PROVE PlanInv'
  BY <1>1, <1>3, FollowedStep
<1>4. ASSUME workers'[w].phase \in {"idle", "configure"} PROVE Follows(w)'
  BY <1>4 DEF Follows
<1>5. ASSUME workers[w].phase \in Busy PROVE stage = "running" /\ Job(w) \in Nat
  BY <1>5, BusyIsRunning
<1>6. CASE TakeJob(w)
  <2>1. /\ workers' = [workers EXCEPT ![w] = [Idle EXCEPT !.phase = "configure", !.job = next,
                                                          !.attempt = 1]]
        /\ stage = "running" /\ UNCHANGED <<pending, recorded, stats>>
    BY <1>6 DEF TakeJob, Attempt
  <2>2. workers'[w].phase = "configure"
    BY <1>1, <2>1 DEF Idle
  <2> QED
    BY <1>1, <1>3, <1>4, <2>1, <2>2 DEF Only
<1>7. ASSUME NEW kind, Lost(w, kind), workers[w].phase \in Busy, UNCHANGED <<recorded, stats>>
      PROVE  PlanInv'
  <2>1. workers'[w].phase = "idle"
    BY <1>1, <1>7 DEF Lost, Idle
  <2> QED
    BY <1>1, <1>3, <1>4, <1>5, <1>7, <2>1 DEF Lost, Only
<1>8. CASE Configure(w)
  <2>1. PICK service \in request.services :
          /\ \A hook \in Range(hooks) : Applicable(hook, w, service)
          /\ workers' = [workers EXCEPT ![w].phase = "build",
                                        ![w].entries = Configured(w, service)]
    BY <1>8 DEF Configure
  <2>2. /\ workers[w].phase = "configure" /\ pending' = [pending EXCEPT ![w] = {}]
        /\ UNCHANGED <<recorded, stats>>
    BY <1>8 DEF Configure
  <2> DEFINE entries == Configured(w, service)
  <2>3. PlanMade => Job(w) \in 0..(sampleCount - 1) /\ Steering(entries, Job(w))
    BY <1>5, <2>1, <2>2, ConfiguredSteers DEF Busy
  <2> HIDE DEF entries
  <2>4. workers'[w].phase = "build" /\ workers'[w].entries = entries /\ workers'[w].job = Job(w)
    <3>1. workers'[w] = [workers[w] EXCEPT !.phase = "build", !.entries = entries]
      BY <1>1, <2>1 DEF entries
    <3> QED
      BY <3>1 DEF RunInv, Placed, Place, Job
  <2>5. PlanMade => Follows(w)'
    BY <1>2, <2>3, <2>4 DEF Follows, Job, Steering, PlannedOption
  <2>6. Only(w)
    BY <1>1, <1>5, <2>1, <2>2 DEF Only, Busy
  <2> QED
    BY <1>3, <2>2, <2>5, <2>6
<1>9. CASE ConfigureFails(w)
  BY <1>7, <1>9 DEF ConfigureFails, Busy
<1>10. CASE Build(w)
  <2>1. PICK answers \in Submissions(workers[w].entries) :
          /\ workers' = [workers EXCEPT ![w].phase = "submit", ![w].answers = answers]
          /\ pending' = [pending EXCEPT ![w] = Reserved(workers[w].entries, answers)]
    BY <1>10 DEF Build
  <2>2. workers[w].phase = "build" /\ UNCHANGED <<recorded, stats>>
    BY <1>10 DEF Build
  <2>3. PlanMade => /\ Job(w) \in 0..(sampleCount - 1) /\ Steering(workers[w].entries, Job(w))
                    /\ Following(answers, Job(w))
    <3>1. PlanMade => /\ Job(w) \in 0..(sampleCount - 1)
                      /\ Steering(workers[w].entries, Job(w))
      BY <2>2 DEF PlanInv, PlanFollowed, Follows
    <3> QED
      BY <2>1, <3>1, SubmissionFollows
  <2>4. /\ workers'[w].phase = "submit" /\ workers'[w].entries = workers[w].entries
        /\ workers'[w].answers = answers /\ workers'[w].job = Job(w)
    <3>1. workers'[w] = [workers[w] EXCEPT !.phase = "submit", !.answers = answers]
      BY <1>1, <2>1
    <3> QED
      BY <3>1 DEF RunInv, Placed, Place, Job
  <2>5. PlanMade => Follows(w)'
    BY <1>2, <2>3, <2>4 DEF Follows, Job, Steering, Following, PlannedOption
  <2>6. Only(w)
    BY <1>1, <1>5, <2>1, <2>2 DEF Only, Busy
  <2> QED
    BY <1>3, <2>2, <2>5, <2>6
<1>11. CASE BuildFails(w)
  BY <1>7, <1>11 DEF BuildFails, Busy
<1>12. CASE Submit(w)
  <2>1. /\ recorded' = [j \in DOMAIN recorded \cup {Job(w)} |->
                          IF j = Job(w) THEN workers[w].answers ELSE recorded[j]]
        /\ workers' = [workers EXCEPT ![w].phase = "settle"]
        /\ workers[w].phase = "submit" /\ UNCHANGED <<pending, stats>>
    BY <1>12 DEF Submit
  <2>2. PlanMade => /\ Job(w) \in 0..(sampleCount - 1) /\ Steering(workers[w].entries, Job(w))
                    /\ Following(workers[w].answers, Job(w))
    BY <2>1 DEF PlanInv, PlanFollowed, Follows
  <2>3. /\ workers'[w].phase = "settle" /\ workers'[w].entries = workers[w].entries
        /\ workers'[w].answers = workers[w].answers /\ workers'[w].job = Job(w)
    <3>1. workers'[w] = [workers[w] EXCEPT !.phase = "settle"]
      BY <1>1, <2>1
    <3> QED
      BY <3>1 DEF RunInv, Placed, Place, Job
  <2>4. PlanMade => Follows(w)'
    BY <1>2, <2>2, <2>3 DEF Follows, Job, Steering, Following, PlannedOption
  <2>5. Only(w)
    BY <1>1, <1>5, <2>1 DEF Only, Busy
  <2>6. ASSUME PlanMade, NEW j \in DOMAIN recorded'
        PROVE  \/ j \in DOMAIN recorded /\ recorded'[j] = recorded[j]
               \/ j \in 0..(sampleCount - 1) /\ Following(recorded[j], j)'
    <3>1. CASE j = Job(w)
      <4>1. recorded'[j] = workers[w].answers
        BY <2>1, <3>1
      <4> QED
        BY <1>2, <2>2, <2>6, <3>1, <4>1 DEF Following, PlannedOption
    <3>2. CASE j # Job(w)
      BY <2>1, <3>2
    <3> QED
      BY <3>1, <3>2
  <2> QED
    BY <1>1, <2>1, <2>4, <2>5, <2>6, FollowedStep
<1>13. CASE SubmitFails(w)
  <2>1. workers[w].phase = "submit" /\ UNCHANGED <<recorded, stats>>
    BY <1>13 DEF SubmitFails
  <2>2. CASE workers[w].attempt <= request.retries /\ ~cancelled
    <3>1. /\ workers' = [workers EXCEPT ![w] =
                           [Idle EXCEPT !.phase = "configure", !.job = Job(w),
                                        !.attempt = workers[w].attempt + 1]]
          /\ pending' = [pending EXCEPT ![w] = {}]
      BY <1>13, <2>2 DEF SubmitFails, Attempt
    <3>2. workers'[w].phase = "configure"
      BY <1>1, <3>1 DEF Idle
    <3> QED
      BY <1>1, <1>3, <1>4, <1>5, <2>1, <3>1, <3>2 DEF Only, Busy
  <2>3. CASE ~(workers[w].attempt <= request.retries /\ ~cancelled)
    BY <1>7, <1>13, <2>1, <2>3 DEF SubmitFails, Busy
  <2> QED
    BY <2>2, <2>3
<1>14. CASE Settle(w)
  <2>1. /\ stats' = [k \in DOMAIN stats \cup pending[w] |->
                       (IF k \in DOMAIN stats THEN stats[k] ELSE 0)
                         + (IF k \in pending[w] THEN 1 ELSE 0)]
        /\ workers' = [workers EXCEPT ![w] = Idle] /\ pending' = [pending EXCEPT ![w] = {}]
        /\ workers[w].phase = "settle" /\ UNCHANGED recorded
    BY <1>14 DEF Settle, CommitPendingDistribution
  <2>2. \A k \in DOMAIN stats' : stats'[k] \in Nat
    BY <1>1, <2>1
  <2>3. Follows(w)'
    BY <1>1, <1>4, <2>1 DEF Idle
  <2>4. Only(w)
    BY <1>1, <1>5, <2>1 DEF Only, Busy
  <2> QED
    BY <2>1, <2>2, <2>3, <2>4, FollowedStep
<1> QED
  BY <1>6, <1>8, <1>9, <1>10, <1>11, <1>12, <1>13, <1>14 DEF WorkerStep

LEMMA PlanStep ==
  ASSUME RequestsGraded, RunInv, PlanInv, [Next]_vars
  PROVE  PlanInv'
<1>1. CASE Prepares
  BY <1>1, PlanPreparesStep
<1>2. ASSUME UNCHANGED <<request, prepared, stats, recorded, workers>>,
             stage' \notin {"reverse_fill", "window", "ai", "psychometrics"} \/ stage' = stage
      PROVE  PlanInv'
  <2>1. UNCHANGED <<cfg, hooks, samples, plan>>
    BY <1>2 DEF prepared
  <2>2. PlanSound'
    BY <1>2, <2>1, PlanSoundKept DEF PlanInv
  <2>3. PlanFollowed'
    BY <1>2, <2>1, PlannedKept DEF PlanInv, PlanFollowed, PlanMade
  <2> QED
    BY <2>2, <2>3 DEF PlanInv
<1>3. CASE Return
  BY <1>2, <1>3 DEF Return, working
<1>4. CASE \E w \in Workers : WorkerStep(w)
  BY <1>4, PlanWorkerStep
<1>5. CASE UNCHANGED vars
  BY <1>2, <1>5 DEF vars, working
<1> QED
  BY <1>1, <1>3, <1>4, <1>5 DEF Next

\* internal/psychometrics/sampling.go:86: the planned options are taken as often
\* as their weights ask, less than one answer off, for any number of jobs,
\* workers, failures and retries, whatever hooks changed the entries before, of
\* questions whose plan can be followed.
THEOREM QuotasAreRealised ==
  ASSUME RequestsGraded
  PROVE  Spec => []QuotasRealised
<1>1. Init => RunInv /\ PlanInv
  BY InitInv, PlanInit
<1>2. RunInv /\ PlanInv /\ [Next]_vars => RunInv' /\ PlanInv'
  <2> SUFFICES ASSUME RunInv, PlanInv, [Next]_vars PROVE RunInv' /\ PlanInv'
    OBVIOUS
  <2>1. RunInv'
    BY PreparesStep, ReturnStep, StutterStep, WorkerStepKeeps DEF Next
  <2> QED
    BY <2>1, PlanStep
<1>3. RunInv /\ PlanInv => QuotasRealised
  BY PlanIsRealised
<1> QED
  BY <1>1, <1>2, <1>3, PTL DEF Spec

-----------------------------------------------------------------------------
(* What may be drawn with nothing counted may be drawn later               *)

\* What answers are drawn from as long as nothing was counted.
FirstDrawn(e, row, n) ==
  SelectedIndex(effectiveSelectionValues(e, effectiveProbabilityValues(e, row, n)), n)

\* distribution.go:54: an option always has a weight.
LEMMA FittedIsPositive ==
  ASSUME NEW w, NEW n \in Nat \ {0}
  PROVE  Positive(fitProbabilityCount(w, n)) # {}
<1> DEFINE ones == [i \in 1..n |-> 1]
<1>1. 1 \in Positive(ones)
  BY DEF Positive
<1> HIDE DEF ones
<1>2. \/ fitProbabilityCount(w, n) = ones
      \/ Positive(fitProbabilityCount(w, n)) # {}
  BY DEF fitProbabilityCount, ones
<1> QED
  BY <1>1, <1>2

\* distribution_runtime.go:27: the correction draws no option that could not be
\* drawn before, and leaves every one that could.
LEMMA DrawnAsFirst ==
  ASSUME NEW e, SoundTables(e), NEW row, NEW n \in Nat \ {0},
         NEW c \in [1..n -> Nat], NEW total \in Nat
  PROVE  SelectedIndex(effectiveSelectionValues(e, selectionEntry(e, row, n, {}, 0, c, total)), n)
           = FirstDrawn(e, row, n)
<1> DEFINE v == effectiveProbabilityValues(e, row, n)
           t == normalizeDistributionTarget(v, n)
           r == resolveDistributionProbabilitiesWithPriority(t, c, total, Standard)
           w == selectionEntry(e, row, n, {}, 0, c, total)
           strict == isStrictRatioEntry(e)
           ofCustom == e.mode = "custom" /\ Positive(e.custom) # {}
<1>1. v \in [1..n -> Int] /\ Positive(v) # {} /\ DOMAIN v = 1..n
  BY EffectiveIsWeighted, FittedIsPositive DEF effectiveProbabilityValues
<1>2. CASE ofCustom
  BY <1>2 DEF FirstDrawn, effectiveSelectionValues
<1>3. CASE ~ofCustom
  <2>1. /\ FirstDrawn(e, row, n) = SelectedIndex(v, n)
        /\ effectiveSelectionValues(e, w) = w
    BY <1>3 DEF FirstDrawn, effectiveSelectionValues
  <2> HIDE DEF v
  <2>4. applyPersonaBoost(v, {}) = v
    <3>1. applyPersonaBoost(v, {}) = [i \in 1..n |-> v[i]]
      BY <1>1 DEF applyPersonaBoost
    <3> QED
      BY <1>1, <3>1
  <2>5. w = IF strict THEN enforceReferenceRankOrder(r, v) ELSE v
    BY <2>4 DEF selectionEntry, v
  <2>6. /\ t \in [1..n -> Nat]
        /\ \A i \in 1..n : t[i] = IF v[i] > 0 THEN v[i] ELSE 0
    BY <1>1, TargetIsWeighted
  <2> HIDE DEF t
  <2>7. r \in [1..n -> Nat] /\ \A i \in 1..n : r[i] > 0 <=> t[i] > 0
    <3>1. Leaning(n, t, c, r)
      BY <2>6, ResolvedIsSound
    <3> QED
      BY <3>1 DEF Leaning
  <2> HIDE DEF r, w, strict
  <2>8. Positive(w) = Positive(v)
    <3>1. CASE ~strict
      BY <2>5, <3>1
    <3>2. CASE strict
      <4>1. w = enforceReferenceRankOrder(r, v)
        BY <2>5, <3>2
      <4>2. Ranked(n, t, r, w)
        BY <1>1, <2>6, <2>7, <4>1, RankedIsSound
      <4>3. DOMAIN w = 1..n /\ \A i \in 1..n : w[i] > 0 <=> t[i] > 0
        BY <4>2 DEF Ranked
      <4>4. \A i \in 1..n : v[i] \in Int /\ (t[i] > 0 <=> v[i] > 0)
        BY <1>1, <2>6
      <4> QED
        BY <1>1, <4>3, <4>4 DEF Positive
    <3> QED
      BY <3>1, <3>2
  <2>9. SelectedIndex(w, n) = SelectedIndex(v, n)
    BY <2>8 DEF SelectedIndex
  <2> QED
    BY <2>1, <2>9 DEF w
<1> QED
  BY <1>2, <1>3

\* run_answer_runtime.go: what is chosen could have been chosen first, whatever
\* was counted.
LEMMA ChosenAsFirst ==
  ASSUME NEW q, q.options \in Nat, q.options >= 2, NEW e, SoundTables(e), NEW row,
         \A k \in DOMAIN stats : stats[k] \in Nat
  PROVE  ChoicesOf(q, e, row) = {i - 1 : i \in FirstDrawn(e, row, q.options)}
<1> DEFINE n == AtLeast(1, q.options)
           c == Snapshot(q.num, row, n)
           w == effectiveSelectionValues(e, selectionEntry(e, row, n, {}, 0, c, positiveTotal(c)))
           drawn == SelectedIndex(w, n)
<1>1. n = q.options /\ n \in Nat \ {0}
  BY DEF AtLeast
<1>2. c \in [1..n -> Nat]
  BY <1>1 DEF Snapshot
<1>3. positiveTotal(c) \in Nat
  BY <1>1, <1>2, TotalIsNatural
<1>4. ChoicesOf(q, e, row) = {i - 1 : i \in drawn}
  BY DEF ChoicesOf, DrawnWeights
<1>5. drawn = FirstDrawn(e, row, n)
  <2> HIDE DEF c, n, w
  <2>1. PICK total \in Nat : total = positiveTotal(c)
    BY <1>3
  <2>2. SelectedIndex(effectiveSelectionValues(e, selectionEntry(e, row, n, {}, 0, c, total)), n)
          = FirstDrawn(e, row, n)
    BY <1>1, <1>2, DrawnAsFirst, SMTT(60)
  <2> QED
    BY <2>1, <2>2 DEF w
<1> HIDE DEF drawn, n
<1> QED
  BY <1>1, <1>4, <1>5

\* selection.go: an option of the question is drawn.
LEMMA SelectedIsOption ==
  ASSUME NEW w, DOMAIN w \subseteq Nat \ {0}, NEW n \in Nat \ {0}
  PROVE  SelectedIndex(w, n) \subseteq 1..n
BY DEF SelectedIndex, Positive

LEMMA DrawnIsOption ==
  ASSUME NEW e, SoundTables(e), NEW row, NEW n \in Nat \ {0}
  PROVE  FirstDrawn(e, row, n) \subseteq 1..n
<1> DEFINE v == effectiveProbabilityValues(e, row, n)
           w == effectiveSelectionValues(e, v)
<1>1. v \in [1..n -> Int]
  BY EffectiveIsWeighted
<1> HIDE DEF v
<1>2. DOMAIN w \subseteq Nat \ {0}
  BY <1>1 DEF effectiveSelectionValues, SoundTables
<1> HIDE DEF w
<1> QED
  BY <1>2, SelectedIsOption DEF FirstDrawn, v, w

\* distribution.go:54: cut or padded, a table that has a weight within the options
\* keeps these weights and gets no other.
LEMMA FittedKeeps ==
  ASSUME NEW w \in Seq(Int), NEW n \in Nat \ {0}, NEW i \in Positive(w), i <= n
  PROVE  Positive(fitProbabilityCount(w, n)) \subseteq Positive(w)
<1> DEFINE cut == [k \in 1..n |-> IF k \in DOMAIN w THEN w[k] ELSE 0]
<1>1. i \in 1..n /\ i \in DOMAIN w /\ w[i] > 0
  BY DEF Positive
<1>2. i \in Positive(cut)
  BY <1>1 DEF Positive
<1>3. fitProbabilityCount(w, n) = cut
  BY <1>2 DEF fitProbabilityCount
<1>4. Positive(cut) \subseteq Positive(w)
  BY DEF Positive
<1> QED
  BY <1>3, <1>4

\* distribution.go:54: whichever table is read first is one of the strategy's, and
\* has a weight if any of them has.
LEMMA FirstIsWeighted ==
  ASSUME NEW e, SoundTables(e), NEW row, NEW n,
         NEW given \in Tables(e, row), Positive(given) # {}
  PROVE  \E first \in Tables(e, row) :
           /\ Positive(first) # {}
           /\ effectiveProbabilityValues(e, row, n) = fitProbabilityCount(first, n)
<1> DEFINE Row(table) == IF row \in DOMAIN table THEN table[row] ELSE NoWeights
           rows   == Preferred(e, Row(e.customRows), Row(e.rows))
           asked  == Preferred(e, e.custom, e.options)
           tables == rows \o asked
           S      == Tables(e, row) \cup {NoWeights}
<1>1. effectiveProbabilityValues(e, row, n) = fitProbabilityCount(FirstWeighted(tables), n)
  BY DEF effectiveProbabilityValues
<1>2. /\ {Row(e.customRows), Row(e.rows), e.custom, e.options} \subseteq S
      /\ Tables(e, row) \subseteq {Row(e.customRows), Row(e.rows), e.custom, e.options}
  BY DEF Tables
<1> HIDE DEF Row, S
<1>3. /\ rows \in Seq(S) /\ Len(rows) = 2 /\ asked \in Seq(S) /\ Len(asked) = 2
      /\ {rows[1], rows[2]} = {Row(e.customRows), Row(e.rows)}
      /\ {asked[1], asked[2]} = {e.custom, e.options}
  BY <1>2 DEF Preferred
<1> HIDE DEF rows, asked
<1>4. /\ tables \in [1..4 -> S]
      /\ tables[1] = rows[1] /\ tables[2] = rows[2]
      /\ tables[3] = asked[1] /\ tables[4] = asked[2]
  <2>1. /\ tables \in [1..4 -> S]
        /\ \A k \in 1..2 : tables[k] = rows[k] /\ tables[k + 2] = asked[k]
    BY <1>3, PairsInOrder
  <2> HIDE DEF tables
  <2> QED
    BY <2>1
<1> HIDE DEF tables
<1> DEFINE usable == {k \in DOMAIN tables : Positive(tables[k]) # {}}
<1>5. given \in {tables[1], tables[2], tables[3], tables[4]}
  BY <1>2, <1>3, <1>4
<1>6. usable # {} /\ usable \subseteq Nat
  BY <1>4, <1>5
<1>7. FirstWeighted(tables) = tables[Min(usable)]
  BY <1>6 DEF FirstWeighted
<1>8. Min(usable) \in usable
  <2> HIDE DEF usable
  <2> QED
    BY <1>6, MinIsLeast
<1>9. Positive(tables[Min(usable)]) # {} /\ tables[Min(usable)] \in S
  BY <1>4, <1>8
<1>10. Positive(NoWeights) = {}
  BY DEF Positive, NoWeights
<1> HIDE DEF usable
<1> QED
  BY <1>1, <1>7, <1>9, <1>10 DEF S

\* selection.go, distribution.go:54: whichever table comes first, and however it is
\* cut or padded, an option is drawn that some table gives a weight.
LEMMA DrawnOfTables ==
  ASSUME NEW e, SoundTables(e), NEW row, NEW n \in Nat \ {0}, NEW k \in FirstDrawn(e, row, n)
  PROVE  k - 1 \in MayDraw(e, row, n)
<1> DEFINE weighted == {t \in Tables(e, row) : Positive(t) # {}}
           within == weighted # {} /\ \A t \in weighted : \E i \in Positive(t) : i <= n
           v == effectiveProbabilityValues(e, row, n)
<1>1. k \in 1..n /\ k - 1 \in 0..(n - 1) /\ (k - 1) + 1 = k
  BY DrawnIsOption
<1>2. ASSUME within, NEW w, NEW t \in weighted, Positive(w) \subseteq Positive(t),
             NEW i \in Positive(w), i <= n, k \in SelectedIndex(w, n)
      PROVE  k - 1 \in MayDraw(e, row, n)
  <2>1. k \in Positive(t)
    BY <1>2 DEF SelectedIndex
  <2>2. MayDraw(e, row, n) = {o \in 0..(n - 1) : \E u \in weighted : o + 1 \in Positive(u)}
    BY <1>2 DEF MayDraw
  <2> HIDE DEF weighted, within
  <2> QED
    BY <1>1, <1>2, <2>1, <2>2
<1>3. CASE ~within
  <2>1. MayDraw(e, row, n) = 0..(n - 1)
    BY <1>3 DEF MayDraw
  <2> QED
    BY <1>1, <2>1
<1>4. CASE within /\ e.mode = "custom" /\ Positive(e.custom) # {}
  <2>1. e.custom \in weighted
    BY <1>4 DEF Tables
  <2>2. PICK i \in Positive(e.custom) : i <= n
    BY <1>4, <2>1
  <2>3. k \in SelectedIndex(e.custom, n)
    BY <1>4 DEF FirstDrawn, effectiveSelectionValues
  <2> HIDE DEF weighted, within
  <2> QED
    BY <1>2, <1>4, <2>1, <2>2, <2>3
<1>5. CASE within /\ ~(e.mode = "custom" /\ Positive(e.custom) # {})
  <2>1. k \in SelectedIndex(v, n)
    BY <1>5 DEF FirstDrawn, effectiveSelectionValues
  <2>2. PICK given \in weighted : TRUE
    BY <1>5
  <2>3. PICK t \in weighted : v = fitProbabilityCount(t, n)
    BY <2>2, FirstIsWeighted
  <2>4. t \in Seq(Int)
    BY <2>3 DEF Tables, SoundTables
  <2>5. PICK i \in Positive(t) : i <= n
    BY <1>5, <2>3
  <2>6. Positive(v) \subseteq Positive(t)
    BY <2>3, <2>4, <2>5, FittedKeeps
  <2>7. v \in [1..n -> Int] /\ Positive(v) # {}
    BY <2>3, EffectiveIsWeighted, FittedIsPositive
  <2>8. PICK o \in Positive(v) : o <= n
    BY <2>7 DEF Positive
  <2> HIDE DEF weighted, within, v
  <2> QED
    BY <1>2, <1>5, <2>1, <2>3, <2>6, <2>8
<1> HIDE DEF within
<1> QED
  BY <1>3, <1>4, <1>5

\* What drawing by these tables leaves of the answers to question q.
Left(q, e, X) ==
  /\ SoundTables(e)
  /\ CASE q.kind \in ChoiceKinds ->
            \A i \in 0..(q.options - 1) :
              i + 1 \in FirstDrawn(e, NoRow, q.options) => Picked(q, e, i) \in X
       [] q.kind = "matrix" ->
            \A f \in [1..AtLeast(1, q.rows) -> 0..(q.options - 1)] :
              (\A row \in DOMAIN f : f[row] + 1 \in FirstDrawn(e, row, q.options)) =>
                [kind |-> "matrix", indexes |-> f] \in X
       [] OTHER -> TextAnswers(q, e) \subseteq X

\* A person who looks at the weights alone misses no answer.
LEMMA StrategyLeaves ==
  ASSUME NEW q, q.options \in Nat, q.kind \in ChoiceKinds \cup {"matrix"} => q.options >= 2,
         NEW e, SoundTables(e), NEW X, Leaves(q, e, X)
  PROVE  Left(q, e, X)
<1>1. ASSUME q.kind \in ChoiceKinds \cup {"matrix"}, NEW row, NEW i \in Int,
             i + 1 \in FirstDrawn(e, row, q.options)
      PROVE  i \in MayDraw(e, row, q.options)
  <2>1. q.options \in Nat \ {0}
    BY <1>1
  <2>2. (i + 1) - 1 \in MayDraw(e, row, q.options)
    BY <1>1, <2>1, DrawnOfTables
  <2> QED
    BY <1>1, <2>2
<1>2. CASE q.kind \in ChoiceKinds
  <2>1. \A i \in 0..(q.options - 1) :
          i + 1 \in FirstDrawn(e, NoRow, q.options) => i \in MayDraw(e, NoRow, q.options)
    BY <1>1, <1>2
  <2> QED
    BY <1>2, <2>1 DEF Leaves, Left, ChoiceKinds
<1>3. CASE q.kind = "matrix"
  <2>1. \A f \in [1..AtLeast(1, q.rows) -> 0..(q.options - 1)] : \A row \in DOMAIN f :
          f[row] + 1 \in FirstDrawn(e, row, q.options) => f[row] \in MayDraw(e, row, q.options)
    <3>1. \A f \in [1..AtLeast(1, q.rows) -> 0..(q.options - 1)] : \A row \in DOMAIN f :
            f[row] \in Int
      BY q.options \in Nat
    <3> QED
      BY <1>1, <1>3, <3>1
  <2> QED
    BY <1>3, <2>1 DEF Leaves, Left, ChoiceKinds
<1>4. CASE q.kind \notin ChoiceKinds \cup {"matrix"}
  BY <1>4 DEF Leaves, Left
<1> QED
  BY <1>2, <1>3, <1>4

\* What a strategy leaves is what it is answered with.
LEMMA LeftIsAnswered ==
  ASSUME NEW q, q.options \in Nat, q.kind \in ChoiceKinds \cup {"matrix"} => q.options >= 2,
         NEW e, NEW X, Left(q, e, X), \A k \in DOMAIN stats : stats[k] \in Nat,
         NEW answer \in AnswersOf(q, e)
  PROVE  answer \in X
<1>1. SoundTables(e)
  BY DEF Left
<1>2. ASSUME q.kind \in ChoiceKinds \cup {"matrix"}, NEW row, NEW i \in ChoicesOf(q, e, row)
      PROVE  i \in 0..(q.options - 1) /\ i + 1 \in FirstDrawn(e, row, q.options)
  <2>1. q.options \in Nat \ {0} /\ q.options >= 2
    BY <1>2
  <2>2. PICK k \in FirstDrawn(e, row, q.options) : i = k - 1
    BY <1>1, <1>2, <2>1, ChosenAsFirst
  <2>3. k \in 1..q.options
    BY <1>1, <2>1, <2>2, DrawnIsOption
  <2> QED
    BY <2>1, <2>2, <2>3
<1>3. CASE q.kind \in ChoiceKinds
  <2>1. PICK i \in ChoicesOf(q, e, NoRow) : answer = Picked(q, e, i)
    BY <1>3 DEF AnswersOf, ChoiceAnswers, ChoiceKinds
  <2>2. i \in 0..(q.options - 1) /\ i + 1 \in FirstDrawn(e, NoRow, q.options)
    BY <1>2, <1>3
  <2> QED
    BY <1>3, <2>1, <2>2 DEF Left, ChoiceKinds
<1>4. CASE q.kind = "matrix"
  <2>1. q.kind \notin ChoiceKinds
    BY <1>4 DEF ChoiceKinds
  <2>2. PICK f \in [1..AtLeast(1, q.rows) -> 0..(AtLeast(1, q.options) - 1)] :
          /\ answer = [kind |-> "matrix", indexes |-> f]
          /\ \A row \in 1..AtLeast(1, q.rows) : f[row] \in ChoicesOf(q, e, row)
    BY <1>4, <2>1 DEF AnswersOf, MatrixAnswers
  <2>3. \A row \in 1..AtLeast(1, q.rows) :
          f[row] \in 0..(q.options - 1) /\ f[row] + 1 \in FirstDrawn(e, row, q.options)
    BY <1>2, <1>4, <2>2
  <2>4. f \in [1..AtLeast(1, q.rows) -> 0..(q.options - 1)]
    BY <2>2, <2>3
  <2> QED
    BY <1>4, <2>1, <2>2, <2>3, <2>4 DEF Left
<1>5. CASE q.kind \notin ChoiceKinds \cup {"matrix"}
  BY <1>5 DEF Left, AnswersOf
<1> QED
  BY <1>3, <1>4, <1>5

-----------------------------------------------------------------------------
(* What the sheet and the model leave of a strategy                        *)

\* distribution.go:54: of four tables, the first that is not empty is read.
LEMMA FirstCounts ==
  ASSUME NEW tables, DOMAIN tables = 1..4, NEW k \in 1..4, Positive(tables[k]) # {},
         \A i \in 1..4 : i < k => tables[i] = <<>>
  PROVE  FirstWeighted(tables) = tables[k]
<1> DEFINE usable == {i \in DOMAIN tables : Positive(tables[i]) # {}}
<1>1. Positive(<<>>) = {}
  BY DEF Positive
<1>2. k \in usable /\ usable \subseteq Nat /\ \A i \in usable : i \in 1..4 /\ ~(i < k)
  BY <1>1
<1>3. FirstWeighted(tables) = tables[Min(usable)]
  BY <1>2 DEF FirstWeighted
<1> HIDE DEF usable
<1>4. PICK least : least = Min(usable) /\ least \in usable /\ least <= k
  BY <1>2, MinIsLeast
<1>5. least \in 1..4 /\ ~(least < k)
  BY <1>2, <1>4
<1>6. least = k
  BY <1>4, <1>5
<1> QED
  BY <1>3, <1>4, <1>6

\* run_reversefill.go: the tables of an entry laid over by an answer of the
\* sheet; the caller's own weights stay where they are, and are not read.
Laid(e, row, n, choice) ==
  /\ e.mode # "custom" /\ e.custom \in Seq(Int)
  /\ IF row = NoRow
     THEN e.rows = <<>> /\ e.customRows \in Seq(Seq(Int)) /\ e.options = Hot(n, choice)
     ELSE row \in DOMAIN e.rows /\ e.rows[row] = Hot(n, choice)

\* distribution.go:54: the table of one option is neither cut nor padded.
LEMMA HotIsFitted ==
  ASSUME NEW n \in Nat \ {0}, NEW choice \in 0..(n - 1)
  PROVE  fitProbabilityCount(Hot(n, choice), n) = Hot(n, choice)
<1>1. /\ Hot(n, choice) \in [1..n -> Nat] /\ Positive(Hot(n, choice)) = {choice + 1}
  BY HotIsAlone
<1> DEFINE hot == Hot(n, choice)
<1> HIDE DEF hot
<1>2. \A i \in DOMAIN hot : hot[i] \in Int
  BY <1>1 DEF hot
<1>3. DOMAIN hot = 1..n /\ hot = [i \in 1..n |-> hot[i]] /\ Positive(hot) # {}
  BY <1>1 DEF hot
<1>4. fitProbabilityCount(hot, n) = hot
  BY <1>2, <1>3, FittedIsWeighted
<1> QED
  BY <1>4 DEF hot

\* distribution.go:54: outside of the mode that prefers the caller's own tables,
\* the answer laid over them is the only one that can be drawn.
LEMMA LaidIsDrawn ==
  ASSUME NEW e, NEW row, NEW n \in Nat \ {0}, NEW choice \in 0..(n - 1),
         Laid(e, row, n, choice)
  PROVE  FirstDrawn(e, row, n) = {choice + 1}
<1> DEFINE hot == Hot(n, choice)
           Row(table) == IF row \in DOMAIN table THEN table[row] ELSE NoWeights
           rows    == Preferred(e, Row(e.customRows), Row(e.rows))
           asked   == Preferred(e, e.custom, e.options)
           tables  == rows \o asked
<1>1. Positive(hot) = {choice + 1} /\ \A i \in Positive(hot) : i <= n
  BY HotIsAlone
<1>2. effectiveProbabilityValues(e, row, n) = fitProbabilityCount(FirstWeighted(tables), n)
  BY DEF effectiveProbabilityValues
<1>3. /\ rows = <<Row(e.rows), Row(e.customRows)>> /\ asked = <<e.options, e.custom>>
  BY DEF Laid, Preferred
<1> HIDE DEF Row
<1> DEFINE S == {Row(e.rows), Row(e.customRows), e.options, e.custom}
<1>4. rows \in Seq(S) /\ asked \in Seq(S) /\ Len(rows) = 2 /\ Len(asked) = 2
  <2> HIDE DEF rows, asked
  <2> QED
    BY <1>3
<1>5. /\ DOMAIN tables = 1..4 /\ tables[1] = Row(e.rows) /\ tables[2] = Row(e.customRows)
      /\ tables[3] = e.options
  <2> HIDE DEF rows, asked, S
  <2>1. /\ tables \in [1..4 -> S]
        /\ \A k \in 1..2 : tables[k] = rows[k] /\ tables[k + 2] = asked[k]
    BY <1>4, PairsInOrder
  <2> HIDE DEF tables
  <2>2. tables[1] = rows[1] /\ tables[2] = rows[2] /\ tables[3] = asked[1]
    BY <2>1
  <2> QED
    BY <1>3, <2>1, <2>2
<1> HIDE DEF tables, rows, asked, hot
<1>6. FirstWeighted(tables) = hot
  <2>1. CASE row # NoRow
    <3>1. tables[1] = hot
      BY <1>5, <2>1 DEF Laid, Row, hot
    <3>2. 1 \in 1..4 /\ Positive(tables[1]) # {} /\ \A i \in 1..4 : i < 1 => tables[i] = <<>>
      BY <1>1, <3>1
    <3>3. FirstWeighted(tables) = tables[1]
      BY <1>5, <3>2, FirstCounts
    <3> QED
      BY <3>1, <3>3
  <2>2. CASE row = NoRow
    <3>1. tables[3] = hot
      BY <1>5, <2>2 DEF Laid, hot
    <3>2. NoRow \notin DOMAIN e.rows /\ NoRow \notin DOMAIN e.customRows
      BY <2>2 DEF Laid, NoRow
    <3>3. tables[1] = <<>> /\ tables[2] = <<>>
      BY <1>5, <2>2, <3>2 DEF Row, NoWeights
    <3>4. 3 \in 1..4 /\ Positive(tables[3]) # {}
      BY <1>1, <3>1
    <3>5. \A i \in 1..4 : i < 3 => i = 1 \/ i = 2
      OBVIOUS
    <3>6. \A i \in 1..4 : i < 3 => tables[i] = <<>>
      BY <3>3, <3>5
    <3>7. FirstWeighted(tables) = tables[3]
      BY <1>5, <3>4, <3>6, FirstCounts
    <3> QED
      BY <3>1, <3>7
  <2> QED
    BY <2>1, <2>2
<1>7. effectiveProbabilityValues(e, row, n) = hot
  BY <1>2, <1>6, HotIsFitted DEF hot
<1>8. FirstDrawn(e, row, n) = SelectedIndex(hot, n)
  BY <1>7 DEF FirstDrawn, effectiveSelectionValues, Laid
<1> QED
  BY <1>1, <1>8 DEF SelectedIndex

\* text_values.go: a worksheet with a text offers its texts and nothing else.
LEMMA SaidIsOffered ==
  ASSUME NEW q, q.blanks \in Nat, NEW e, NEW said, NEW X, q.kind \notin ChoiceKinds \cup {"matrix"},
         Says(q, e, said, X), NEW f, f.texts = TextCandidates(said)
  PROVE  TextAnswers(q, f) \subseteq X
<1> DEFINE texts == {Head(cell) : cell \in Range(said.texts) \ {<<>>}} \ {""}
           given == Range(f.texts) \ {BlankText}
<1>1. texts # {} /\ \A text \in texts : Everywhere(q, text) \in X
  BY DEF Says
<1>2. ASSUME NEW text PROVE <<text>> = BlankText <=> text = ""
  <2>1. <<text>>[1] = text /\ BlankText[1] = ""
    BY DEF BlankText
  <2> QED
    BY <2>1 DEF BlankText
<1>3. given = {<<text>> : text \in texts}
  <2>1. ASSUME NEW candidate \in given PROVE \E text \in texts : candidate = <<text>>
    <3>1. PICK i \in DOMAIN said.texts :
            candidate = IF said.texts[i] = <<>> THEN BlankText ELSE <<Head(said.texts[i])>>
      BY DEF Range, TextCandidates
    <3>2. said.texts[i] # <<>> /\ candidate = <<Head(said.texts[i])>> /\ candidate # BlankText
      BY <3>1
    <3>3. Head(said.texts[i]) # ""
      BY <1>2, <3>2
    <3> QED
      BY <3>2, <3>3 DEF Range
  <2>2. ASSUME NEW text \in texts PROVE <<text>> \in given
    <3>1. PICK i \in DOMAIN said.texts : said.texts[i] # <<>> /\ text = Head(said.texts[i])
      BY DEF Range
    <3>2. f.texts[i] = <<text>> /\ i \in DOMAIN f.texts
      BY <3>1 DEF TextCandidates
    <3>3. <<text>> # BlankText
      BY <1>2
    <3> QED
      BY <3>2, <3>3 DEF Range
  <2> HIDE DEF texts, given
  <2> QED
    BY <2>1, <2>2
<1>4. ASSUME NEW text \in texts
      PROVE  [kind |-> "text", texts |-> Blanks(<<text>>, q.blanks)] = Everywhere(q, text)
  <2>1. text # "" /\ Len(<<text>>) = 1 /\ <<text>>[1] = text /\ Last(<<text>>) = text
    BY DEF Last
  <2>2. \A b \in 1..AtLeast(1, q.blanks) : b <= 1 => b = 1
    <3>1. AtLeast(1, q.blanks) \in Nat
      BY DEF AtLeast
    <3> HIDE DEF texts
    <3> QED
      BY <3>1
  <2>3. Blanks(<<text>>, q.blanks) = [b \in 1..AtLeast(1, q.blanks) |-> text]
    BY <2>1, <2>2 DEF Blanks
  <2> QED
    BY <2>3 DEF Everywhere
<1>5. TextAnswers(q, f) =
        {[kind |-> "text", texts |-> Blanks(c, q.blanks)] : c \in IF given = {} THEN {FillText} ELSE given}
  BY DEF TextAnswers
<1> HIDE DEF texts, given
<1>6. given # {}
  BY <1>1, <1>3
<1> QED
  BY <1>1, <1>3, <1>4, <1>5, <1>6

\* run_reversefill.go: the entry laid over by an answer of the sheet leaves the
\* answer the sheet says.
LEMMA SheetLeaves ==
  ASSUME NEW q, q.options \in Nat, q.blanks \in Nat,
         q.kind \in ChoiceKinds \cup {"matrix"} => q.options >= 2,
         NEW e, SoundEntry(e), SoundRows(e), NEW said, NEW X, Says(q, e, said, X)
  PROVE  Left(q, applyReverseFillAnswer(q, e, said), X)
<1> DEFINE f == applyReverseFillAnswer(q, e, said)
           n == FillOptions(q, e)
<1>1. CASE q.kind \in ChoiceKinds
  <2>1. /\ said.kind = "choice" /\ said.index \in 0..(q.options - 1)
        /\ Picked(q, e, said.index) \in X
    BY <1>1 DEF Says, ChoiceKinds
  <2> DEFINE i == said.index
  <2>2. n = q.options /\ q.options \in Nat \ {0} /\ q.options >= 1
    BY <1>1 DEF FillOptions
  <2>3. oneHot(n, i) = Hot(q.options, i)
    BY <2>1, <2>2, OneHotIsHot
  <2>4. f = [e EXCEPT !.mode = "reverse_fill", !.options = oneHot(n, i), !.rows = <<>>]
    BY <2>1 DEF applyReverseFillAnswer
  <2> HIDE DEF f, n, i
  <2>5. /\ f.mode = "reverse_fill" /\ f.options = Hot(q.options, i) /\ f.rows = <<>>
        /\ f.custom = e.custom /\ f.customRows = e.customRows /\ f.fills = e.fills
    BY <2>3, <2>4 DEF SoundEntry
  <2>6. FirstDrawn(f, NoRow, q.options) = {i + 1}
    <3>1. Laid(f, NoRow, q.options, i)
      BY <2>5 DEF Laid, SoundEntry, SoundRows
    <3> QED
      BY <2>1, <2>2, <3>1, LaidIsDrawn DEF i
  <2>7. Picked(q, f, i) \in X
    <3>1. Picked(q, f, i) = Picked(q, e, i)
      BY <2>5 DEF Picked, OptionFillText
    <3> QED
      BY <2>1, <3>1 DEF i
  <2>8. ASSUME NEW k \in 0..(q.options - 1), k + 1 \in FirstDrawn(f, NoRow, q.options)
        PROVE  Picked(q, f, k) \in X
    <3>1. k = i
      BY <2>1, <2>6, <2>8 DEF i
    <3> QED
      BY <2>7, <3>1
  <2>9. SoundTables(f)
    <3>1. Hot(q.options, i) \in Seq(Int)
      BY <2>1, <2>2, HotIsAlone DEF i
    <3> QED
      BY <2>5, <3>1 DEF SoundTables, SoundEntry, SoundRows
  <2> QED
    BY <1>1, <2>8, <2>9 DEF Left, ChoiceKinds, f
<1>2. CASE q.kind = "matrix"
  <2>1. /\ said.kind = "matrix" /\ said.indexes \in [1..AtLeast(1, q.rows) -> 0..(q.options - 1)]
        /\ [kind |-> "matrix", indexes |-> said.indexes] \in X
    BY <1>2 DEF Says, ChoiceKinds
  <2> DEFINE table == [r \in DOMAIN said.indexes |-> oneHot(n, said.indexes[r])]
  <2>2. n = q.options /\ q.options \in Nat \ {0} /\ q.options >= 1
    BY <1>2 DEF FillOptions
  <2>3. ASSUME NEW r \in DOMAIN said.indexes
        PROVE  /\ table[r] = Hot(q.options, said.indexes[r]) /\ table[r] \in Seq(Int)
    <3>1. said.indexes[r] \in 0..(q.options - 1) /\ table[r] = oneHot(n, said.indexes[r])
      BY <2>1
    <3> HIDE DEF table, n, f
    <3>2. table[r] = Hot(q.options, said.indexes[r])
      BY <2>2, <3>1, OneHotIsHot
    <3>3. Hot(q.options, said.indexes[r]) \in Seq(Int)
      BY <2>2, <3>1, HotIsAlone
    <3> QED
      BY <3>2, <3>3
  <2>4. f = [e EXCEPT !.mode = "reverse_fill", !.options = <<>>, !.rows = table]
    BY <2>1 DEF applyReverseFillAnswer
  <2>5. DOMAIN table = DOMAIN said.indexes
    OBVIOUS
  <2> HIDE DEF f, n, table
  <2>6. /\ f.mode = "reverse_fill" /\ f.options = <<>> /\ f.rows = table
        /\ f.custom = e.custom /\ f.customRows = e.customRows
    BY <2>4 DEF SoundEntry
  <2>7. ASSUME NEW r \in DOMAIN said.indexes
        PROVE  FirstDrawn(f, r, q.options) = {said.indexes[r] + 1}
    <3>1. r # NoRow /\ said.indexes[r] \in 0..(q.options - 1)
      <4>1. r \in 1..AtLeast(1, q.rows)
        BY <2>1
      <4> QED
        BY <2>1, <4>1 DEF NoRow
    <3>2. Laid(f, r, q.options, said.indexes[r])
      BY <2>3, <2>5, <2>6, <3>1 DEF Laid, SoundEntry
    <3> QED
      BY <2>2, <3>1, <3>2, LaidIsDrawn
  <2>8. ASSUME NEW g \in [1..AtLeast(1, q.rows) -> 0..(q.options - 1)],
               \A row \in DOMAIN g : g[row] + 1 \in FirstDrawn(f, row, q.options)
        PROVE  [kind |-> "matrix", indexes |-> g] \in X
    <3>1. ASSUME NEW row \in 1..AtLeast(1, q.rows) PROVE g[row] = said.indexes[row]
      <4>1. g[row] \in 0..(q.options - 1) /\ said.indexes[row] \in 0..(q.options - 1)
        BY <2>1, <2>8
      <4>2. DOMAIN g = 1..AtLeast(1, q.rows)
        BY <2>8
      <4>3. g[row] + 1 \in FirstDrawn(f, row, q.options)
        BY <2>8, <4>2
      <4>4. FirstDrawn(f, row, q.options) = {said.indexes[row] + 1}
        BY <2>1, <2>7
      <4> QED
        BY <2>2, <4>1, <4>3, <4>4
    <3>2. /\ g = [row \in 1..AtLeast(1, q.rows) |-> g[row]]
          /\ said.indexes = [row \in 1..AtLeast(1, q.rows) |-> said.indexes[row]]
      BY <2>1, <2>8
    <3>3. g = said.indexes
      BY <3>1, <3>2
    <3> QED
      BY <2>1, <3>3
  <2>9. SoundTables(f)
    BY <2>3, <2>5, <2>6 DEF SoundTables, SoundEntry, SoundRows
  <2> QED
    BY <1>2, <2>8, <2>9 DEF Left, ChoiceKinds, f
<1>3. CASE q.kind \notin ChoiceKinds \cup {"matrix"}
  <2>1. said.kind = "text"
    BY <1>3 DEF Says
  <2>2. f = [e EXCEPT !.mode = "reverse_fill", !.options = <<1>>, !.rows = <<>>,
                      !.texts = TextCandidates(said)]
    BY <2>1 DEF applyReverseFillAnswer
  <2> HIDE DEF f
  <2>3. /\ f.options = <<1>> /\ f.rows = <<>> /\ f.texts = TextCandidates(said)
        /\ f.custom = e.custom /\ f.customRows = e.customRows
    BY <2>2 DEF SoundEntry
  <2>4. TextAnswers(q, f) \subseteq X
    BY <1>3, <2>3, SaidIsOffered
  <2>6. SoundTables(f)
    BY <2>3 DEF SoundTables, SoundEntry, SoundRows
  <2> QED
    BY <1>3, <2>4, <2>6 DEF Left, f
<1> QED
  BY <1>1, <1>2, <1>3

\* run_ai.go: an entry the model completes leaves the answer it writes.
LEMMA WritesLeaves ==
  ASSUME NEW q \in cfg.definition, Question(cfg.definition, q.num) = q,
         q.options \in Nat, q.kind \in ChoiceKinds \cup {"matrix"} => q.options >= 2,
         NEW e, SoundEntry(e), SoundRows(e), NEW service \in request.services,
         NEW X, Writes(request, q, e, X),
         entryAIEnabled(e) => AIAnswers(BlanksAsked(q.num, e), service) # NoAnswer,
         entryHasAIOptionFill(e) => AIAnswers(1, service) # NoAnswer
  PROVE  Left(q, applyAITextAnswers(q.num, e, service), X)
<1> DEFINE f == applyAITextAnswers(q.num, e, service)
           asked == textBlankCount(q.blanks, e)
           beside == IF entryHasAIOptionFill(e)
                     THEN applyAIOptionFillTexts(e, AIAnswers(1, service)[1]) ELSE e
<1>1. BlanksAsked(q.num, e) = asked
  BY DEF BlanksAsked, Asked
<1>2. IF entryAIEnabled(e)
      THEN /\ q.kind \notin ChoiceKinds \cup {"matrix"}
           /\ Range(AIAnswers(asked, service)) \ {BlankText} # {}
           /\ \A text \in Range(AIAnswers(asked, service)) \ {BlankText} :
                [kind |-> "text", texts |-> Blanks(text, q.blanks)] \in X
      ELSE Leaves(q, beside, X)
  BY <1>1 DEF Writes, AIAnswers
<1>3. f = IF entryAIEnabled(e) THEN applyAITextAnswer(beside, AIAnswers(asked, service))
          ELSE beside
  BY <1>1 DEF applyAITextAnswers
<1>4. /\ DOMAIN beside = DOMAIN e
      /\ beside.options = e.options /\ beside.custom = e.custom
      /\ beside.rows = e.rows /\ beside.customRows = e.customRows
  BY DEF applyAIOptionFillTexts, SoundEntry
<1>5. SoundTables(e)
  BY DEF SoundTables, SoundEntry, SoundRows
<1> HIDE DEF f, asked, beside
<1>6. CASE entryAIEnabled(e)
  <2>1. f = [beside EXCEPT !.kind = "text", !.texts = AIAnswers(asked, service),
                           !.options = <<1>>]
    BY <1>3, <1>6 DEF applyAITextAnswer
  <2>2. /\ f.options = <<1>> /\ f.texts = AIAnswers(asked, service)
        /\ f.custom = e.custom /\ f.rows = e.rows /\ f.customRows = e.customRows
    BY <1>4, <2>1 DEF SoundEntry
  <2>3. TextAnswers(q, f) \subseteq X
    BY <1>2, <1>6, <2>2 DEF TextAnswers
  <2>4. SoundTables(f)
    BY <1>5, <2>2 DEF SoundTables
  <2> QED
    BY <1>2, <1>6, <2>3, <2>4 DEF Left, f
<1>7. CASE ~entryAIEnabled(e)
  <2>1. f = beside /\ Leaves(q, beside, X)
    BY <1>2, <1>3, <1>7
  <2>2. SoundTables(beside)
    BY <1>4, <1>5 DEF SoundTables
  <2> QED
    BY <2>1, <2>2, StrategyLeaves DEF f
<1> QED
  BY <1>6, <1>7

\* An entry without a question or an option for the model leaves what it did.
LEMMA PlainLeaves ==
  ASSUME NEW q, q.options \in Nat, q.kind \in ChoiceKinds \cup {"matrix"} => q.options >= 2,
         NEW e, SoundEntry(e), SoundRows(e), NEW service \in request.services,
         NEW X, Writes(request, q, e, X), ~entryAIEnabled(e), ~entryHasAIOptionFill(e)
  PROVE  Left(q, e, X)
<1>1. Leaves(q, e, X)
  BY DEF Writes
<1>2. SoundTables(e)
  BY DEF SoundTables, SoundEntry, SoundRows
<1> QED
  BY <1>1, <1>2, StrategyLeaves

\* run_defaults.go: the engine leaves nothing to the model.
LEMMA DefaultsArePlain ==
  ASSUME NEW q
  PROVE  ~entryAIEnabled(DefaultEntry(q)) /\ ~entryHasAIOptionFill(DefaultEntry(q))
<1>1. /\ DefaultEntry(q).ai = FALSE /\ DefaultEntry(q).flags = <<>>
      /\ DefaultEntry(q).fills = <<>>
  BY DEF DefaultEntry
<1>2. Range(DefaultEntry(q).fills) = {}
  BY <1>1 DEF Range
<1> QED
  BY <1>1, <1>2 DEF entryAIEnabled, entryHasAIOptionFill

\* No hook adds an entry or takes one away.
LEMMA AppliedToAll ==
  ASSUME NEW hook, NEW entries, NEW w, NEW service
  PROVE  DOMAIN Applied(hook, entries, w, service) = DOMAIN entries
<1>1. CASE hook = "reverse_fill"
  BY <1>1 DEF Applied
<1>2. CASE hook = "ai"
  BY <1>2 DEF Applied
<1>3. CASE hook = "psychometrics"
  BY <1>3 DEF Applied, ApplySample
<1>4. CASE hook \notin {"reverse_fill", "ai", "psychometrics"}
  BY <1>4 DEF Applied
<1> QED
  BY <1>1, <1>2, <1>3, <1>4

\* A hook changes the entry of a question by that entry alone.
LEMMA AppliedToOne ==
  ASSUME NEW hook, NEW entries, NEW others, NEW num \in DOMAIN entries, num \in DOMAIN others,
         others[num] = entries[num], NEW w, NEW service
  PROVE  Applied(hook, others, w, service)[num] = Applied(hook, entries, w, service)[num]
<1>1. CASE hook = "reverse_fill"
  BY <1>1 DEF Applied
<1>2. CASE hook = "ai"
  BY <1>2 DEF Applied
<1>3. CASE hook = "psychometrics"
  BY <1>3 DEF Applied, ApplySample
<1>4. CASE hook \notin {"reverse_fill", "ai", "psychometrics"}
  BY <1>4 DEF Applied
<1> QED
  BY <1>1, <1>2, <1>3, <1>4

\* No hook is there twice.
Once == \A i, k \in 1..Len(hooks) : hooks[i] = hooks[k] => i = k

\* A job is configured for the questions the caller has strategies for.
LEMMA ConfiguredToAll ==
  ASSUME hooks \in Seq(HookNames), NEW w, NEW service
  PROVE  DOMAIN Configured(w, service) = DOMAIN cfg.strategies
<1> DEFINE m == Len(hooks)
<1>1. m \in Nat
  OBVIOUS
<1>2. PICK after : /\ \A k \in 0..m : after[k] =
                        IF k = 0 THEN cfg.strategies
                        ELSE Applied(hooks[k], after[k - 1], w, service)
                   /\ Configured(w, service) = after[m]
  BY ConfiguredInOrder
<1> HIDE DEF m
<1> DEFINE good == {k \in 0..m : DOMAIN after[k] = DOMAIN cfg.strategies}
<1>3. 0 \in good
  BY <1>1, <1>2
<1>4. ASSUME NEW k \in 1..m, k - 1 \in good PROVE k \in good
  <2>1. k \in 0..m /\ k # 0
    BY <1>1
  <2>2. after[k] = Applied(hooks[k], after[k - 1], w, service)
    BY <1>2, <2>1
  <2> QED
    BY <1>4, <2>1, <2>2, AppliedToAll
<1>5. m \in good
  <2> HIDE DEF good
  <2> QED
    BY <1>1, <1>3, <1>4, CountsUpTo
<1> QED
  BY <1>2, <1>5

\* runtime/run.go: where all hooks but one leave an entry alone, it is changed by
\* that one, once, if it is there, wherever it stands.
LEMMA OneHookCounts ==
  ASSUME hooks \in Seq(HookNames), Once, NEW w, NEW service, NEW hook,
         NEW num \in DOMAIN cfg.strategies,
         \A other \in Range(hooks) \ {hook} : \A entries :
           num \in DOMAIN entries => Applied(other, entries, w, service)[num] = entries[num]
  PROVE  Configured(w, service)[num] =
           IF hook \in Range(hooks) THEN Applied(hook, cfg.strategies, w, service)[num]
           ELSE cfg.strategies[num]
<1> DEFINE m == Len(hooks)
           changed == Applied(hook, cfg.strategies, w, service)[num]
<1>1. m \in Nat /\ DOMAIN hooks = 1..m /\ Range(hooks) = {hooks[i] : i \in 1..m}
  BY DEF Range
<1>2. PICK after : /\ \A k \in 0..m : after[k] =
                        IF k = 0 THEN cfg.strategies
                        ELSE Applied(hooks[k], after[k - 1], w, service)
                   /\ Configured(w, service) = after[m]
  BY ConfiguredInOrder
<1> HIDE DEF m, changed
<1> DEFINE There(k) == \E i \in 1..k : hooks[i] = hook
           Good(k) == /\ DOMAIN after[k] = DOMAIN cfg.strategies
                      /\ after[k][num] = IF There(k) THEN changed ELSE cfg.strategies[num]
           good == {k \in 0..m : Good(k)}
<1>3. 0 \in good
  <2>1. 0 \in 0..m /\ after[0] = cfg.strategies
    BY <1>1, <1>2
  <2>2. ~There(0)
    OBVIOUS
  <2> QED
    BY <2>1, <2>2
<1>4. ASSUME NEW k \in 1..m, k - 1 \in good PROVE k \in good
  <2>1. k \in 0..m /\ k - 1 \in 0..m /\ k # 0 /\ Good(k - 1)
    BY <1>1, <1>4
  <2>2. after[k] = Applied(hooks[k], after[k - 1], w, service)
    BY <1>2, <2>1
  <2>3. DOMAIN after[k] = DOMAIN cfg.strategies
    <3>1. DOMAIN after[k - 1] = DOMAIN cfg.strategies
      BY <2>1
    <3> QED
      BY <2>2, <3>1, AppliedToAll
  <2>4. There(k) <=> There(k - 1) \/ hooks[k] = hook
    <3>1. \A i : i \in 1..k <=> i \in 1..(k - 1) \/ i = k
      BY <1>1
    <3> QED
      BY <3>1
  <2>5. CASE hooks[k] # hook
    <3>1. hooks[k] \in Range(hooks) \ {hook}
      BY <1>1, <2>5
    <3>2. after[k][num] = after[k - 1][num]
      BY <2>1, <2>2, <3>1
    <3>3. There(k) <=> There(k - 1)
      BY <2>4, <2>5
    <3> HIDE DEF There
    <3> QED
      BY <2>1, <2>3, <3>2, <3>3
  <2>6. CASE hooks[k] = hook
    <3>1. ~There(k - 1)
      <4>1. ASSUME NEW i \in 1..(k - 1) PROVE hooks[i] # hook
        <5>1. i \in 1..m /\ i # k
          BY <1>1
        <5> QED
          BY <2>6, <5>1 DEF Once, m
      <4> QED
        BY <4>1
    <3>2. after[k - 1][num] = cfg.strategies[num] /\ There(k)
      <4> HIDE DEF There
      <4>1. after[k - 1][num] = cfg.strategies[num]
        BY <2>1, <3>1
      <4>2. There(k)
        BY <2>4, <2>6
      <4> QED
        BY <4>1, <4>2
    <3>3. after[k][num] = changed
      <4>1. num \in DOMAIN after[k - 1]
        BY <2>1
      <4>2. Applied(hook, after[k - 1], w, service)[num] = changed
        BY <3>2, <4>1, AppliedToOne DEF changed
      <4> QED
        BY <2>2, <2>6, <4>2
    <3> HIDE DEF There
    <3> QED
      BY <2>1, <2>3, <3>2, <3>3
  <2> QED
    BY <2>5, <2>6
<1>5. m \in good
  <2> HIDE DEF good
  <2> QED
    BY <1>1, <1>3, <1>4, CountsUpTo
<1>6. There(m) <=> hook \in Range(hooks)
  BY <1>1
<1> HIDE DEF There
<1> QED
  BY <1>2, <1>5, <1>6 DEF changed

-----------------------------------------------------------------------------
(* What is expected of a job is what it submits                            *)

Chosen ==
  [definition |-> cfg.definition, strategies |-> cfg.strategies] \in Configurations(request)

\* Neither parsed nor given so far.
Raw == cfg.definition = {} /\ request.definition = {} /\ cfg.strategies = request.strategies

AskedOfModel ==
  \E num \in DOMAIN cfg.strategies :
    entryAIEnabled(cfg.strategies[num]) \/ entryHasAIOptionFill(cfg.strategies[num])

HookHas(hook) == hook \in Range(hooks)

\* Which hooks a run has, and what the sheet's was made of.
HooksSound ==
  /\ Once
  /\ stage = "window" => Range(hooks) \subseteq {"reverse_fill"}
  /\ stage = "ai" => Range(hooks) \subseteq {"reverse_fill", "persona"}
  /\ stage = "psychometrics" => ~HookHas("psychometrics")
  /\ HookHas("reverse_fill") =>
       ReverseUsed /\ Chosen /\ samples = RowsRead(request, cfg.definition)
  /\ stage \notin {"reverse_fill", "failed"} /\ ReverseUsed => HookHas("reverse_fill")
  /\ HookHas("ai") => ~request.reverse.enabled
  /\ HookHas("psychometrics") => PsychometricsUsed
  /\ stage \in {"psychometrics", "prepare", "running"} /\ ~request.reverse.enabled /\ AskedOfModel =>
       HookHas("ai")

RunSound ==
  /\ Target = JobsOf(request) /\ next <= Target
  /\ Chosen \/ (Raw /\ stage \notin {"running", "done"})
  /\ HooksSound

Expected(w) == request.expected[Job(w) + 1]

\* What is expected of a job is left by its entries, and answered.
Overridden(w) ==
  /\ workers[w].phase \in {"build", "submit", "settle"} =>
       \A num \in DOMAIN Expected(w) :
         num \in DOMAIN workers[w].entries =>
           Left(Question(cfg.definition, num), workers[w].entries[num], Expected(w)[num])
  /\ workers[w].phase \in {"submit", "settle"} =>
       \A num \in DOMAIN Expected(w) : workers[w].answers[num] \in Expected(w)[num]

OverrideInv ==
  /\ RunSound
  /\ \A w \in Workers : Overridden(w)
  /\ OverridesSubmitted

\* psychometrics/plan.go: where nothing is planned of a question, its entry stays.
LEMMA UnplannedStays ==
  ASSUME RunInv, PlanInv, PlanMade, NEW q \in cfg.definition, q.num \in DOMAIN cfg.strategies,
         blueprintItems(q, cfg.strategies[q.num]) = {},
         NEW entries, q.num \in DOMAIN entries, NEW w, NEW service
  PROVE  Applied("psychometrics", entries, w, service)[q.num] = entries[q.num]
<1>1. plan \in JointPlans(Planned, sampleCount)
  BY DEF PlanInv, PlanSound
<1>2. ASSUME NEW row, <<q.num, row>> \in DOMAIN plan PROVE FALSE
  <2>1. PICK item \in Planned : Key(item) = <<q.num, row>>
    BY <1>1, <1>2 DEF JointPlans
  <2>2. PICK p \in cfg.definition : /\ p.num \in DOMAIN cfg.strategies
                                    /\ item \in blueprintItems(p, cfg.strategies[p.num])
    BY DEF Planned, PlannedItems, buildBlueprint
  <2>3. PICK r : item = newItem(p, cfg.strategies[p.num], r)
    BY <2>2 DEF blueprintItems
  <2>4. item.num = p.num /\ item.num = q.num
    BY <2>1, <2>3 DEF newItem, Key
  <2>5. p = q
    BY <2>2, <2>4 DEF PlanInv, PlanSound, Graded
  <2> QED
    BY <2>2, <2>5
<1>3. Question(cfg.definition, q.num) = q
  BY DEF Question, PlanInv, PlanSound, Graded
<1>4. applyQuestionSample(q, entries[q.num], plan, Job(w)) = entries[q.num]
  BY <1>2 DEF applyQuestionSample
<1> QED
  BY <1>3, <1>4 DEF Applied, ApplySample, Question

\* run.go: whatever hooks a job goes through, what is expected of it is left by
\* its entries.
LEMMA ConfiguredLeaves ==
  ASSUME RequestsMeant, RunInv, PlanInv, RunSound, stage = "running",
         NEW w \in Workers, Job(w) \in 0..(next - 1), NEW service \in request.services,
         \A hook \in Range(hooks) : Applicable(hook, w, service),
         NEW num \in DOMAIN Expected(w), num \in DOMAIN cfg.strategies
  PROVE  Left(Question(cfg.definition, num), Configured(w, service)[num], Expected(w)[num])
<1> DEFINE q == Question(cfg.definition, num)
           e == cfg.strategies[num]
           X == Expected(w)[num]
           j == Job(w)
           c == [definition |-> cfg.definition, strategies |-> cfg.strategies]
<1>1. /\ request \in Requests /\ hooks \in Seq(HookNames) /\ Once
      /\ SoundEntry(e) /\ SoundRows(e)
  BY DEF RunInv, Prepared, PlanInv, PlanSound, RunSound, HooksSound
<1>2. c \in Configurations(request)
  BY DEF RunSound, Chosen
<1>3. j \in 0..(JobsOf(request) - 1)
  <2>1. next \in Nat /\ next <= JobsOf(request) /\ JobsOf(request) \in Int
    <3>1. next \in Nat /\ Target \in Int
      BY DEF RunInv, Placed, Prepared, Target, FirstPositive
    <3> QED
      BY <3>1 DEF RunSound
  <2> QED
    BY <2>1
<1>4. c.definition = cfg.definition /\ c.strategies = cfg.strategies
  OBVIOUS
<1>5. (\E p \in cfg.definition : p.num = num) /\ Meant(request, c, j, num, X)
  <2> HIDE DEF c, j
  <2> QED
    BY <1>1, <1>2, <1>3, <1>4 DEF RequestsMeant, Expected, j
<1>6. /\ q \in cfg.definition /\ q.num = num /\ Question(cfg.definition, q.num) = q
  BY <1>5 DEF Question
<1>7. q.options \in Nat /\ q.blanks \in Nat /\ (q.kind \in ChoiceKinds \cup {"matrix"} => q.options >= 2)
  BY <1>6 DEF RunInv, Prepared, SoundQuestion, PlanInv, PlanSound, Graded
<1>8. SoundTables(e)
  BY <1>1 DEF SoundTables, SoundEntry, SoundRows
<1>9. ASSUME NEW entries PROVE Applied("persona", entries, w, service) = entries
  BY DEF Applied
<1> HIDE DEF q, e, X, j, c
<1>10. CASE ~request.reverse.enabled
  <2>1. (request.psychometric => blueprintItems(q, e) = {}) /\ Writes(request, q, e, X)
    BY <1>4, <1>5, <1>10 DEF Meant, q, e
  <2>2. ~HookHas("reverse_fill")
    BY <1>10 DEF RunSound, HooksSound, ReverseUsed
  <2>3. ASSUME NEW other \in Range(hooks) \ {"ai"}, NEW entries, num \in DOMAIN entries
        PROVE  Applied(other, entries, w, service)[num] = entries[num]
    <3>1. other \in {"persona", "psychometrics"}
      <4>1. Range(hooks) \subseteq HookNames
        BY <1>1 DEF Range
      <4> QED
        BY <2>2, <4>1 DEF HookNames, HookHas
    <3>2. CASE other = "psychometrics"
      <4>1. PlanMade /\ blueprintItems(q, e) = {}
        BY <2>1, <3>2 DEF PlanMade, RunSound, HooksSound, HookHas, PsychometricsUsed
      <4> QED
        BY <1>6, <2>3, <3>2, <4>1, UnplannedStays DEF e
    <3> QED
      BY <1>9, <3>1, <3>2
  <2>4. Configured(w, service)[num] =
          IF "ai" \in Range(hooks) THEN Applied("ai", cfg.strategies, w, service)[num] ELSE e
    BY <1>1, <2>3, OneHookCounts DEF e
  <2>5. CASE HookHas("ai")
    <3>1. Configured(w, service)[num] = applyAITextAnswers(num, e, service)
      BY <2>4, <2>5 DEF Applied, HookHas, e
    <3>2. AIReady(cfg.strategies, service)
      BY <2>5 DEF Applicable, HookHas
    <3>3. /\ entryAIEnabled(e) => AIAnswers(BlanksAsked(q.num, e), service) # NoAnswer
          /\ entryHasAIOptionFill(e) => AIAnswers(1, service) # NoAnswer
      BY <1>6, <3>2 DEF AIReady, e
    <3>4. Left(q, applyAITextAnswers(q.num, e, service), X)
      BY <1>1, <1>6, <1>7, <2>1, <3>3, WritesLeaves
    <3> QED
      BY <1>6, <3>1, <3>4 DEF q, X
  <2>6. CASE ~HookHas("ai")
    <3>1. ~entryAIEnabled(e) /\ ~entryHasAIOptionFill(e)
      BY <1>10, <2>6 DEF RunSound, HooksSound, AskedOfModel, e
    <3>2. Left(q, e, X)
      BY <1>1, <1>7, <2>1, <3>1, PlainLeaves
    <3> QED
      BY <2>4, <2>6, <3>2 DEF HookHas, q, X
  <2> QED
    BY <2>5, <2>6
<1>11. CASE request.reverse.enabled
  <2>1. ~HookHas("ai") /\ ~HookHas("psychometrics")
    BY <1>11 DEF RunSound, HooksSound, PsychometricsUsed
  <2>2. ASSUME NEW other \in Range(hooks) \ {"reverse_fill"}, NEW entries, num \in DOMAIN entries
        PROVE  Applied(other, entries, w, service)[num] = entries[num]
    <3>1. other = "persona"
      <4>1. Range(hooks) \subseteq HookNames
        BY <1>1 DEF Range
      <4> QED
        BY <2>1, <4>1 DEF HookNames, HookHas
    <3> QED
      BY <1>9, <3>1
  <2>3. Configured(w, service)[num] =
          IF "reverse_fill" \in Range(hooks)
          THEN Applied("reverse_fill", cfg.strategies, w, service)[num] ELSE e
    BY <1>1, <2>2, OneHookCounts DEF e
  <2>4. CASE ~request.reverse.path
    <3>1. ~HookHas("reverse_fill")
      BY <2>4 DEF RunSound, HooksSound, ReverseUsed
    <3>2. Leaves(q, e, X)
      BY <1>4, <1>5, <1>11, <2>4 DEF Meant, q, e
    <3> QED
      BY <1>7, <1>8, <2>3, <3>1, <3>2, StrategyLeaves DEF HookHas, q, X
  <2>5. CASE request.reverse.path
    <3> DEFINE rows == RowsRead(request, cfg.definition)
    <3>1. HookHas("reverse_fill") /\ samples = rows
      BY <1>11, <2>5 DEF RunSound, HooksSound, ReverseUsed
    <3>2. j < Len(samples)
      BY <3>1 DEF HookHas, Applicable, j
    <3>3. IF num \in DOMAIN samples[j + 1].answers
          THEN Says(q, e, samples[j + 1].answers[num], X) ELSE Leaves(q, e, X)
      BY <1>4, <1>5, <1>11, <2>5, <3>1, <3>2 DEF Meant, q, e
    <3> HIDE DEF rows
    <3>4. Configured(w, service)[num] =
            IF num \in DOMAIN samples[j + 1].answers
            THEN applyReverseFillAnswer(q, e, samples[j + 1].answers[num]) ELSE e
      <4>1. Asked(num)
        BY <1>5 DEF Asked
      <4> QED
        BY <2>3, <3>1, <4>1 DEF HookHas, Applied, Sample, SampleCells, q, e, j
    <3>5. CASE num \in DOMAIN samples[j + 1].answers
      <4>1. Left(q, applyReverseFillAnswer(q, e, samples[j + 1].answers[num]), X)
        BY <1>1, <1>7, <3>3, <3>5, SheetLeaves
      <4> QED
        BY <3>4, <3>5, <4>1 DEF q, X
    <3>6. CASE num \notin DOMAIN samples[j + 1].answers
      BY <1>7, <1>8, <3>3, <3>4, <3>6, StrategyLeaves DEF q, X
    <3> QED
      BY <3>5, <3>6
  <2> QED
    BY <2>4, <2>5
<1> QED
  BY <1>10, <1>11

\* run.go: a run has a job.
LEMMA TargetIsPositive ==
  ASSUME NEW a \in Nat, NEW b \in Nat
  PROVE  FirstPositive(a, b) \in Nat /\ FirstPositive(a, b) >= 1
BY DEF FirstPositive

\* Before the first stage there is no hook, no job and no answer.
LEMMA OverrideInit ==
  ASSUME Init
  PROVE  OverrideInv
<1>1. /\ request \in Requests /\ stage = "reverse_fill" /\ hooks = <<>> /\ next = 0
      /\ cfg.definition = request.definition /\ cfg.strategies = request.strategies
      /\ cfg.target = request.target /\ options.target = request.optionTarget
  BY DEF Init
<1>2. Target = JobsOf(request) /\ next <= Target
  <2>1. Target = JobsOf(request)
    BY <1>1 DEF Target, JobsOf
  <2>2. JobsOf(request) \in Nat
    BY <1>1, RequestsAssumption, TargetIsPositive DEF JobsOf
  <2> QED
    BY <1>1, <2>1, <2>2
<1>3. Chosen \/ Raw
  BY <1>1 DEF Chosen, Raw, Configurations
<1>4. HooksSound
  <2>1. Len(hooks) = 0 /\ Range(hooks) = {}
    BY <1>1 DEF Range
  <2>2. Once
    BY <2>1 DEF Once
  <2> QED
    BY <1>1, <2>1, <2>2 DEF HooksSound, HookHas
<1>5. \A w \in Workers : Overridden(w)
  BY DEF Init, Idle, Overridden
<1>6. OverridesSubmitted
  <2>1. recorded = <<>>
    BY DEF Init
  <2>2. DOMAIN <<>> = {}
    OBVIOUS
  <2>3. DOMAIN recorded = {}
    BY <2>1, <2>2
  <2> QED
    BY <2>3 DEF OverridesSubmitted
<1> QED
  BY <1>1, <1>2, <1>3, <1>4, <1>5, <1>6 DEF OverrideInv, RunSound

\* A stage of the preparation finds no job and leaves none.
LEMMA OverrideStageStep ==
  ASSUME RunInv, stage \notin {"running", "done"}, UNCHANGED working, RunSound'
  PROVE  OverrideInv'
<1>1. DOMAIN recorded = {} /\ \A w \in Workers : workers[w].phase = "idle"
  BY DEF RunInv, Resting
<1>2. recorded' = recorded /\ workers' = workers
  BY DEF working
<1>3. \A w \in Workers : Overridden(w)'
  BY <1>1, <1>2 DEF Overridden
<1>4. OverridesSubmitted'
  BY <1>1, <1>2 DEF OverridesSubmitted
<1> QED
  BY <1>3, <1>4 DEF OverrideInv

\* Nothing the jobs are configured by changes.
LEMMA RunSoundKept ==
  ASSUME RunSound, UNCHANGED <<request, cfg, options, hooks, samples>>, next' <= Target,
         stage' = stage \/ stage' = "failed" \/ (stage = "running" /\ stage' = "done")
  PROVE  RunSound'
<1>1. /\ Target' = Target /\ JobsOf(request)' = JobsOf(request) /\ (Chosen' <=> Chosen) /\ (Raw' <=> Raw)
      /\ (Once' <=> Once) /\ (ReverseUsed' <=> ReverseUsed)
      /\ (PsychometricsUsed' <=> PsychometricsUsed) /\ (AskedOfModel' <=> AskedOfModel)
      /\ RowsRead(request, cfg.definition)' = RowsRead(request, cfg.definition)
      /\ \A hook : HookHas(hook)' <=> HookHas(hook)
  BY DEF Target, Chosen, Raw, Once, ReverseUsed, PsychometricsUsed, AskedOfModel, HookHas
<1>2. HooksSound'
  BY <1>1 DEF RunSound, HooksSound
<1> QED
  BY <1>1, <1>2 DEF RunSound

\* A hook is added once.
LEMMA HookJoinsOnce ==
  ASSUME Prepared, Once, NEW x \in HookNames, ~HookHas(x), hooks' = Append(hooks, x)
  PROVE  Once' /\ \A hook : HookHas(hook)' <=> HookHas(hook) \/ hook = x
<1> DEFINE m == Len(hooks)
           longer == Append(hooks, x)
<1>1. m \in Nat /\ DOMAIN hooks = 1..m /\ hooks \in Seq(HookNames)
  BY DEF Prepared
<1>2. /\ Len(longer) = m + 1 /\ longer[m + 1] = x
      /\ \A i \in 1..m : longer[i] = hooks[i] /\ hooks[i] # x
  BY <1>1 DEF HookHas, Range
<1>3. hooks' = longer
  OBVIOUS
<1> HIDE DEF m, longer
<1>4. ASSUME NEW i \in 1..(m + 1), NEW k \in 1..(m + 1), longer[i] = longer[k] PROVE i = k
  <2>1. CASE i = m + 1 \/ k = m + 1
    BY <1>1, <1>2, <1>4, <2>1
  <2>2. CASE i # m + 1 /\ k # m + 1
    <3>1. i \in 1..m /\ k \in 1..m
      BY <1>1, <2>2
    <3> QED
      BY <1>2, <1>4, <3>1 DEF Once, m
  <2> QED
    BY <2>1, <2>2
<1>5. Once'
  BY <1>2, <1>3, <1>4 DEF Once
<1>6. \A hook : HookHas(hook)' <=> HookHas(hook) \/ hook = x
  BY HookJoins DEF HookHas
<1> QED
  BY <1>5, <1>6

\* run.go: parsed or given, what a stage works on is a configuration of the
\* request, and what it made up itself asks nothing of the model.
LEMMA DefinedIsChosen ==
  ASSUME RunInv, Chosen \/ Raw
  PROVE  /\ [definition |-> Defined.definition, strategies |-> Defined.strategies]
              \in Configurations(request)
         /\ \/ Defined = cfg
            \/ \A num \in DOMAIN Defined.strategies :
                 /\ ~entryAIEnabled(Defined.strategies[num])
                 /\ ~entryHasAIOptionFill(Defined.strategies[num])
<1>1. CASE cfg.definition # {}
  BY <1>1 DEF Defined, Chosen, Raw
<1>2. CASE cfg.definition = {}
  <2> DEFINE made == buildDefaultQuestionStrategies(request.platform)
  <2>1. \A num \in DOMAIN made : \E q : made[num] = DefaultEntry(q)
    BY DEF buildDefaultQuestionStrategies
  <2>2. request.definition = {}
    BY <1>2 DEF Chosen, Raw, Configurations
  <2>3. Defined.definition = request.platform /\ Defined.strategies = made
    BY <1>2 DEF Defined, RunInv, Prepared
  <2>4. \A num \in DOMAIN made : ~entryAIEnabled(made[num]) /\ ~entryHasAIOptionFill(made[num])
    BY <2>1, DefaultsArePlain
  <2> HIDE DEF made
  <2>5. [definition |-> request.platform, strategies |-> made] \in Configurations(request)
    BY <2>2 DEF Configurations, made
  <2> QED
    BY <2>3, <2>4, <2>5
<1> QED
  BY <1>1, <1>2

\* runtime/run.go: each stage adds its hook once, the sheet's where there is one,
\* the model's where a question is left to it, and keeps to the request.
LEMMA OverridePreparesStep ==
  ASSUME RunInv, OverrideInv, Prepares
  PROVE  OverrideInv'
<1> USE DEF prepared
<1>1. /\ Prepared /\ RunSound /\ request \in Requests /\ hooks \in Seq(HookNames)
      /\ cfg = [definition |-> cfg.definition, strategies |-> cfg.strategies,
                target |-> cfg.target]
      /\ options = [target |-> options.target, threads |-> options.threads]
  BY DEF RunInv, Prepared, OverrideInv
<1>2. /\ Once /\ HooksSound /\ Target = JobsOf(request) /\ next <= Target
      /\ Chosen \/ Raw
  BY <1>1 DEF RunSound, HooksSound
<1>3. ASSUME NEW kind, Abort(kind), stage \notin {"running", "done"} PROVE OverrideInv'
  <2>1. RunSound'
    BY <1>1, <1>2, <1>3, RunSoundKept DEF Abort, working
  <2> QED
    BY <1>3, <2>1, OverrideStageStep DEF Abort
<1>4. stage = "reverse_fill" => \A hook : ~HookHas(hook)
  <2>1. stage = "reverse_fill" => Range(hooks) = {}
    BY <1>1 DEF Prepared, Range
  <2> QED
    BY <2>1 DEF HookHas
<1>5. CASE SkipReverseFill
  <2>1. /\ stage = "reverse_fill" /\ stage' = "window" /\ ~ReverseUsed
        /\ UNCHANGED <<request, cfg, options, hooks, samples, working>>
    BY <1>5 DEF SkipReverseFill
  <2>2. Range(hooks) = {}
    BY <1>4, <2>1 DEF HookHas
  <2>3. HooksSound'
    BY <1>2, <2>1, <2>2 DEF HooksSound, HookHas, Once, ReverseUsed
  <2>4. RunSound'
    BY <1>2, <2>1, <2>3 DEF RunSound, Target, Chosen, Raw, working
  <2> QED
    BY <2>1, <2>4, OverrideStageStep
<1>6. CASE RefuseReverseFill
  BY <1>3, <1>6 DEF RefuseReverseFill
<1>7. CASE ParseFails
  BY <1>3, <1>7 DEF ParseFails
<1>8. CASE PrepareReverseFill
  <2>1. CASE ~Sufficient(Preview)
    BY <1>3, <1>8, <2>1 DEF PrepareReverseFill
  <2>2. CASE Sufficient(Preview)
    <3>1. /\ stage = "reverse_fill" /\ stage' = "window" /\ ReverseUsed
          /\ cfg' = [Defined EXCEPT !.target = Target]
          /\ options'.target = Target /\ samples' = Preview.samples
          /\ hooks' = Append(hooks, "reverse_fill") /\ UNCHANGED <<request, working>>
      BY <1>8, <2>2 DEF PrepareReverseFill
    <3>2. /\ cfg'.definition = Defined.definition /\ cfg'.strategies = Defined.strategies
          /\ cfg'.target = Target
      BY <1>1, <3>1, DefinedIsSound
    <3>3. Target' = Target
      BY <3>1, <3>2 DEF Target, FirstPositive
    <3>4. Chosen'
      BY <1>2, <3>1, <3>2, DefinedIsChosen DEF Chosen
    <3>5. samples' = RowsRead(request', cfg'.definition)
      BY <1>2, <3>1, <3>2 DEF RowsRead, Preview
    <3>6. Once' /\ \A hook : HookHas(hook)' <=> hook = "reverse_fill"
      BY <1>1, <1>2, <1>4, <3>1, HookJoinsOnce DEF HookNames
    <3>7. HooksSound'
      <4>1. Range(hooks)' \subseteq {"reverse_fill"}
        BY <3>6 DEF HookHas
      <4> QED
        BY <3>1, <3>4, <3>5, <3>6, <4>1 DEF HooksSound, ReverseUsed
    <3>8. RunSound'
      BY <1>2, <3>1, <3>3, <3>4, <3>7 DEF RunSound, working
    <3> QED
      BY <3>1, <3>8, OverrideStageStep
  <2> QED
    BY <2>1, <2>2
<1>9. CASE PrepareRuntime
  <2> DEFINE refused == /\ request.provider = "credamo"
                        /\ ~WindowSound(request.window, request.duration)
  <2>1. CASE refused
    BY <1>3, <1>9, <2>1 DEF PrepareRuntime
  <2>2. CASE ~refused
    <3>1. /\ stage = "window" /\ stage' = "ai" /\ hooks' = Append(hooks, "persona")
          /\ UNCHANGED <<request, cfg, options, samples, working>>
      BY <1>9, <2>2 DEF PrepareRuntime
    <3>2. \A hook : HookHas(hook) => hook = "reverse_fill"
      BY <1>2, <3>1 DEF HooksSound, HookHas
    <3>3. Once' /\ \A hook : HookHas(hook)' <=> HookHas(hook) \/ hook = "persona"
      BY <1>1, <1>2, <3>1, <3>2, HookJoinsOnce DEF HookNames
    <3>4. Range(hooks)' \subseteq {"reverse_fill", "persona"}
      BY <3>2, <3>3 DEF HookHas
    <3>5. HooksSound'
      BY <1>2, <3>1, <3>2, <3>3, <3>4 DEF HooksSound, ReverseUsed, Chosen
    <3>6. RunSound'
      BY <1>2, <3>1, <3>5 DEF RunSound, Target, Chosen, Raw, working
    <3> QED
      BY <3>1, <3>6, OverrideStageStep
  <2> QED
    BY <2>1, <2>2
<1>10. CASE PrepareAI
  <2>1. /\ stage = "ai" /\ stage' = "psychometrics"
        /\ UNCHANGED <<request, options, samples, working>>
        /\ cfg' = IF AIUsed THEN Defined ELSE cfg
        /\ hooks' = IF AIUsed THEN Append(hooks, "ai") ELSE hooks
    BY <1>10 DEF PrepareAI
  <2>2. /\ \A hook : HookHas(hook) => hook \in {"reverse_fill", "persona"}
        /\ ReverseUsed => HookHas("reverse_fill")
    BY <1>2, <2>1 DEF HooksSound, HookHas
  <2>3. cfg'.target = cfg.target
    BY <1>1, <2>1, DefinedIsSound
  <2>4. Target' = Target
    BY <2>1, <2>3 DEF Target
  <2>5. CASE AIUsed
    <3>1. ~request.reverse.enabled /\ ~ReverseUsed /\ ~HookHas("reverse_fill")
      BY <1>2, <2>5 DEF AIUsed, HooksSound, ReverseUsed
    <3>2. Once' /\ \A hook : HookHas(hook)' <=> HookHas(hook) \/ hook = "ai"
      BY <1>1, <1>2, <2>1, <2>2, <2>5, HookJoinsOnce DEF HookNames
    <3>3. Chosen'
      BY <1>2, <2>1, <2>5, DefinedIsChosen DEF Chosen
    <3>4. HooksSound'
      BY <2>1, <2>2, <3>1, <3>2 DEF HooksSound, ReverseUsed
    <3>5. RunSound'
      BY <1>2, <2>1, <2>4, <3>3, <3>4 DEF RunSound, working
    <3> QED
      BY <2>1, <3>5, OverrideStageStep
  <2>6. CASE ~AIUsed
    <3>1. UNCHANGED <<cfg, hooks>>
      BY <2>1, <2>6
    <3>2. (Chosen' <=> Chosen) /\ (Raw' <=> Raw) /\ (Once' <=> Once)
          /\ (AskedOfModel' <=> AskedOfModel)
          /\ \A hook : HookHas(hook)' <=> HookHas(hook)
      BY <2>1, <3>1 DEF Chosen, Raw, Once, AskedOfModel, HookHas
    <3>3. ~request.reverse.enabled => ~AskedOfModel
      BY <2>6 DEF AIUsed, AskedOfModel
    <3>4. HooksSound'
      BY <1>2, <2>1, <2>2, <3>1, <3>2, <3>3 DEF HooksSound, ReverseUsed
    <3>5. RunSound'
      BY <1>2, <2>1, <2>4, <3>2, <3>4 DEF RunSound, working
    <3> QED
      BY <2>1, <3>5, OverrideStageStep
  <2> QED
    BY <2>5, <2>6
<1>11. CASE PreparePsychometrics
  <2>1. /\ stage = "psychometrics" /\ stage' = "prepare"
        /\ UNCHANGED <<request, options, samples, working>>
        /\ cfg' = IF PsychometricsUsed THEN Defined ELSE cfg
        /\ \/ UNCHANGED hooks
           \/ PsychometricsUsed /\ hooks' = Append(hooks, "psychometrics")
    BY <1>11 DEF PreparePsychometrics
  <2>2. cfg'.target = cfg.target
    BY <1>1, <2>1, DefinedIsSound
  <2>3. Target' = Target
    BY <2>1, <2>2 DEF Target
  <2>4. ~HookHas("psychometrics")
    BY <1>2, <2>1 DEF HooksSound
  <2>5. /\ Once'
        /\ \/ \A hook : HookHas(hook)' <=> HookHas(hook)
           \/ PsychometricsUsed /\ \A hook : HookHas(hook)' <=>
                                              HookHas(hook) \/ hook = "psychometrics"
    <3>1. CASE UNCHANGED hooks
      BY <1>2, <3>1 DEF Once, HookHas
    <3>2. CASE PsychometricsUsed /\ hooks' = Append(hooks, "psychometrics")
      BY <1>1, <1>2, <2>4, <3>2, HookJoinsOnce DEF HookNames
    <3> QED
      BY <2>1, <3>1, <3>2
  <2>6. /\ ReverseUsed' <=> ReverseUsed
        /\ PsychometricsUsed' <=> PsychometricsUsed
    BY <2>1 DEF ReverseUsed, PsychometricsUsed
  <2>7. CASE PsychometricsUsed
    <3>1. ~request.reverse.enabled /\ ~ReverseUsed /\ ~HookHas("reverse_fill")
      BY <1>2, <2>7 DEF PsychometricsUsed, HooksSound, ReverseUsed
    <3>2. Chosen'
      BY <1>2, <2>1, <2>7, DefinedIsChosen DEF Chosen
    <3>3. AskedOfModel' => AskedOfModel
      BY <1>2, <2>1, <2>7, DefinedIsChosen DEF AskedOfModel
    <3>4. HooksSound'
      BY <1>2, <2>1, <2>5, <2>6, <2>7, <3>1, <3>3 DEF HooksSound
    <3>5. RunSound'
      BY <1>2, <2>1, <2>3, <3>2, <3>4 DEF RunSound, working
    <3> QED
      BY <2>1, <3>5, OverrideStageStep
  <2>8. CASE ~PsychometricsUsed
    <3>1. cfg' = cfg
      BY <2>1, <2>8
    <3>2. (Chosen' <=> Chosen) /\ (Raw' <=> Raw) /\ (AskedOfModel' <=> AskedOfModel)
      BY <2>1, <3>1 DEF Chosen, Raw, AskedOfModel
    <3>3. HooksSound'
      BY <1>2, <2>1, <2>5, <2>6, <2>8, <3>1, <3>2 DEF HooksSound
    <3>4. RunSound'
      BY <1>2, <2>1, <2>3, <3>2, <3>3 DEF RunSound, working
    <3> QED
      BY <2>1, <3>4, OverrideStageStep
  <2> QED
    BY <2>7, <2>8
<1>12. CASE Prepare
  <2>1. /\ stage = "prepare" /\ stage' = "running"
        /\ cfg' = [cfg EXCEPT !.definition = IF cfg.definition = {} THEN request.platform
                                             ELSE cfg.definition]
        /\ UNCHANGED <<request, options, hooks, samples, working>>
    BY <1>12 DEF Prepare
  <2>2. /\ cfg'.strategies = cfg.strategies /\ cfg'.target = cfg.target
        /\ cfg'.definition = IF cfg.definition = {} THEN request.platform ELSE cfg.definition
    BY <1>1, <2>1
  <2>3. Target' = Target /\ (AskedOfModel' <=> AskedOfModel) /\ (Once' <=> Once)
        /\ (ReverseUsed' <=> ReverseUsed) /\ (PsychometricsUsed' <=> PsychometricsUsed)
        /\ \A hook : HookHas(hook)' <=> HookHas(hook)
    BY <2>1, <2>2 DEF Target, AskedOfModel, Once, HookHas, ReverseUsed, PsychometricsUsed
  <2>4. Chosen => cfg'.definition = cfg.definition
    BY <2>2 DEF Chosen, Configurations
  <2>5. Chosen'
    <3>1. CASE Chosen
      BY <2>1, <2>2, <2>4, <3>1 DEF Chosen
    <3>2. CASE Raw
      BY <2>1, <2>2, <3>2 DEF Raw, Chosen, Configurations
    <3> QED
      BY <1>2, <3>1, <3>2
  <2>6. HooksSound'
    BY <1>2, <2>1, <2>3, <2>4, <2>5 DEF HooksSound
  <2>7. RunSound'
    BY <1>2, <2>1, <2>3, <2>5, <2>6 DEF RunSound, working
  <2> QED
    BY <2>1, <2>7, OverrideStageStep
<1>13. CASE PrepareFails
  BY <1>3, <1>13 DEF PrepareFails
<1> QED
  BY <1>5, <1>6, <1>7, <1>8, <1>9, <1>10, <1>11, <1>12, <1>13 DEF Prepares

\* What is left for a worker's job, as long as the worker and the run stay.
LEMMA OverriddenKept ==
  ASSUME UNCHANGED <<request, cfg>>, NEW w, workers'[w] = workers[w], Overridden(w)
  PROVE  Overridden(w)'
<1>1. Expected(w)' = Expected(w)
  BY DEF Expected, Job
<1>2. \A q, e, X : Left(q, e, X)' <=> Left(q, e, X)
  OBVIOUS
<1> QED
  BY <1>1 DEF Overridden

\* A step of one worker: what is expected of the others' jobs is left as it was.
LEMMA OverrideWorkerKept ==
  ASSUME RunInv, OverrideInv, NEW w \in Workers, Only(w), next' <= Target, Overridden(w)',
         \A j \in DOMAIN recorded' :
           \/ j \in DOMAIN recorded /\ recorded'[j] = recorded[j]
           \/ \A num \in DOMAIN request.expected[j + 1] :
                recorded'[j][num] \in request.expected[j + 1][num]
  PROVE  OverrideInv'
<1>1. UNCHANGED <<request, stage, cfg, options, hooks, samples>>
  BY DEF Only, prepared
<1>2. RunSound'
  BY <1>1, RunSoundKept DEF OverrideInv
<1>3. \A v \in Workers : Overridden(v)'
  BY <1>1, OverriddenKept DEF Only, OverrideInv
<1>4. OverridesSubmitted'
  BY <1>1 DEF OverrideInv, OverridesSubmitted
<1> QED
  BY <1>2, <1>3, <1>4 DEF OverrideInv

\* What a job's entries leave is what it is answered with.
LEMMA SubmissionOverrides ==
  ASSUME RequestsMeant, RunInv, PlanInv, OverrideInv, stage = "running",
         NEW w \in Workers, workers[w].phase = "build", Buildable(workers[w].entries),
         NEW answers \in Submissions(workers[w].entries), NEW num \in DOMAIN Expected(w)
  PROVE  answers[num] \in Expected(w)[num]
<1> DEFINE q == Question(cfg.definition, num)
           e == workers[w].entries[num]
           c == [definition |-> cfg.definition, strategies |-> cfg.strategies]
<1>1. Job(w) \in 0..(JobsOf(request) - 1)
  <2>1. Job(w) \in 0..(next - 1) /\ next \in Nat /\ next <= JobsOf(request)
    BY BusyIsRunning DEF Busy, OverrideInv, RunSound
  <2>2. JobsOf(request) \in Int
    BY DEF RunInv, Prepared, Target, FirstPositive, OverrideInv, RunSound
  <2> QED
    BY <2>1, <2>2
<1>2. \E p \in cfg.definition : p.num = num
  <2>1. request \in Requests /\ c \in Configurations(request) /\ c.definition = cfg.definition
    BY DEF RunInv, Prepared, OverrideInv, RunSound, Chosen
  <2> HIDE DEF c
  <2> QED
    BY <1>1, <2>1 DEF RequestsMeant, Expected
<1>3. q \in cfg.definition /\ q.num = num
  BY <1>2 DEF Question
<1>4. num \in DOMAIN workers[w].entries
  BY <1>3 DEF Buildable
<1>5. Left(q, e, Expected(w)[num])
  BY <1>4 DEF OverrideInv, Overridden
<1>6. answers[num] \in AnswersOf(q, e)
  BY <1>2 DEF Submissions
<1>7. q.options \in Nat /\ (q.kind \in ChoiceKinds \cup {"matrix"} => q.options >= 2)
  BY <1>3 DEF RunInv, Prepared, SoundQuestion, PlanInv, PlanSound, Graded
<1>8. \A k \in DOMAIN stats : stats[k] \in Nat
  BY DEF PlanInv, PlanFollowed
<1> HIDE DEF q, e
<1> QED
  BY <1>5, <1>6, <1>7, <1>8, LeftIsAnswered

\* From the configuration of its job on a worker has what is expected of it, a
\* retry as well as a first attempt.
LEMMA OverrideWorkerStep ==
  ASSUME RequestsMeant, RunInv, PlanInv, OverrideInv, NEW w \in Workers, WorkerStep(w)
  PROVE  OverrideInv'
<1>1. /\ DOMAIN workers = Workers /\ DOMAIN pending = Workers /\ next <= Target
      /\ UNCHANGED <<request, stage, prepared, cfg>>
  BY DEF RunInv, Placed, OverrideInv, RunSound, prepared, WorkerStep, TakeJob, Configure,
         ConfigureFails, Build, BuildFails, Submit, SubmitFails, Settle
<1>2. ASSUME Only(w), next' <= Target, UNCHANGED recorded, Overridden(w)' PROVE OverrideInv'
  BY <1>2, OverrideWorkerKept
<1>3. ASSUME workers'[w].phase \in {"idle", "configure"} PROVE Overridden(w)'
  BY <1>3 DEF Overridden
<1>4. ASSUME workers[w].phase \in Busy PROVE stage = "running" /\ Job(w) \in 0..(next - 1)
  BY <1>4, BusyIsRunning
<1>5. CASE TakeJob(w)
  <2>1. /\ workers' = [workers EXCEPT ![w] = [Idle EXCEPT !.phase = "configure", !.job = next,
                                                          !.attempt = 1]]
        /\ stage = "running" /\ next < Target /\ next' = next + 1
        /\ UNCHANGED <<pending, recorded>>
    BY <1>5 DEF TakeJob, Attempt
  <2>2. workers'[w].phase = "configure"
    BY <1>1, <2>1 DEF Idle
  <2>3. next' <= Target
    <3>1. next \in Nat /\ Target \in Int
      BY DEF RunInv, Placed, Prepared, Target, FirstPositive
    <3> QED
      BY <2>1, <3>1
  <2> QED
    BY <1>1, <1>2, <1>3, <2>1, <2>2, <2>3 DEF Only
<1>6. ASSUME NEW kind, Lost(w, kind), workers[w].phase \in Busy, UNCHANGED <<next, recorded>>
      PROVE  OverrideInv'
  <2>1. workers'[w].phase = "idle"
    BY <1>1, <1>6 DEF Lost, Idle
  <2> QED
    BY <1>1, <1>2, <1>3, <1>4, <1>6, <2>1 DEF Lost, Only
<1>7. CASE Configure(w)
  <2>1. PICK service \in request.services :
          /\ \A hook \in Range(hooks) : Applicable(hook, w, service)
          /\ workers' = [workers EXCEPT ![w].phase = "build",
                                        ![w].entries = Configured(w, service)]
    BY <1>7 DEF Configure
  <2>2. /\ workers[w].phase = "configure" /\ pending' = [pending EXCEPT ![w] = {}]
        /\ UNCHANGED <<next, recorded>>
    BY <1>7 DEF Configure
  <2> DEFINE entries == Configured(w, service)
  <2>3. ASSUME NEW num \in DOMAIN Expected(w), num \in DOMAIN entries
        PROVE  Left(Question(cfg.definition, num), entries[num], Expected(w)[num])
    <3>1. DOMAIN entries = DOMAIN cfg.strategies
      BY ConfiguredToAll DEF RunInv, Prepared
    <3>2. num \in DOMAIN cfg.strategies /\ stage = "running" /\ Job(w) \in 0..(next - 1)
      BY <1>4, <2>2, <2>3, <3>1 DEF Busy
    <3> QED
      BY <2>1, <3>2, ConfiguredLeaves DEF OverrideInv
  <2> HIDE DEF entries
  <2>4. workers'[w].phase = "build" /\ workers'[w].entries = entries /\ workers'[w].job = Job(w)
    <3>1. workers'[w] = [workers[w] EXCEPT !.phase = "build", !.entries = entries]
      BY <1>1, <2>1 DEF entries
    <3> QED
      BY <3>1 DEF RunInv, Placed, Place, Job
  <2>5. Expected(w)' = Expected(w)
    BY <1>1, <2>4 DEF Expected, Job
  <2>6. Overridden(w)'
    BY <1>1, <2>3, <2>4, <2>5 DEF Overridden
  <2>7. Only(w)
    BY <1>1, <1>4, <2>1, <2>2 DEF Only, Busy
  <2> QED
    BY <1>1, <1>2, <2>2, <2>6, <2>7
<1>8. CASE ConfigureFails(w)
  BY <1>6, <1>8 DEF ConfigureFails, Busy
<1>9. CASE Build(w)
  <2>1. PICK answers \in Submissions(workers[w].entries) :
          /\ workers' = [workers EXCEPT ![w].phase = "submit", ![w].answers = answers]
          /\ pending' = [pending EXCEPT ![w] = Reserved(workers[w].entries, answers)]
    BY <1>9 DEF Build
  <2>2. /\ workers[w].phase = "build" /\ Buildable(workers[w].entries)
        /\ UNCHANGED <<next, recorded>>
    BY <1>9 DEF Build
  <2>3. \A num \in DOMAIN Expected(w) : answers[num] \in Expected(w)[num]
    BY <1>4, <2>1, <2>2, SubmissionOverrides DEF Busy
  <2>4. /\ workers'[w].phase = "submit" /\ workers'[w].entries = workers[w].entries
        /\ workers'[w].answers = answers /\ workers'[w].job = Job(w)
    <3>1. workers'[w] = [workers[w] EXCEPT !.phase = "submit", !.answers = answers]
      BY <1>1, <2>1
    <3> QED
      BY <3>1 DEF RunInv, Placed, Place, Job
  <2>5. Expected(w)' = Expected(w)
    BY <1>1, <2>4 DEF Expected, Job
  <2>6. Overridden(w)'
    BY <1>1, <2>2, <2>3, <2>4, <2>5 DEF OverrideInv, Overridden
  <2>7. Only(w)
    BY <1>1, <1>4, <2>1, <2>2 DEF Only, Busy
  <2> QED
    BY <1>1, <1>2, <2>2, <2>6, <2>7
<1>10. CASE BuildFails(w)
  BY <1>6, <1>10 DEF BuildFails, Busy
<1>11. CASE Submit(w)
  <2>1. /\ recorded' = [j \in DOMAIN recorded \cup {Job(w)} |->
                          IF j = Job(w) THEN workers[w].answers ELSE recorded[j]]
        /\ workers' = [workers EXCEPT ![w].phase = "settle"]
        /\ workers[w].phase = "submit" /\ UNCHANGED <<next, pending>>
    BY <1>11 DEF Submit
  <2>2. \A num \in DOMAIN Expected(w) : workers[w].answers[num] \in Expected(w)[num]
    BY <2>1 DEF OverrideInv, Overridden
  <2>3. /\ workers'[w].phase = "settle" /\ workers'[w].entries = workers[w].entries
        /\ workers'[w].answers = workers[w].answers /\ workers'[w].job = Job(w)
    <3>1. workers'[w] = [workers[w] EXCEPT !.phase = "settle"]
      BY <1>1, <2>1
    <3> QED
      BY <3>1 DEF RunInv, Placed, Place, Job
  <2>4. Expected(w)' = Expected(w)
    BY <1>1, <2>3 DEF Expected, Job
  <2>5. Overridden(w)'
    BY <1>1, <2>1, <2>2, <2>3, <2>4 DEF OverrideInv, Overridden
  <2>6. Only(w)
    BY <1>1, <1>4, <2>1 DEF Only, Busy
  <2>7. ASSUME NEW j \in DOMAIN recorded'
        PROVE  \/ j \in DOMAIN recorded /\ recorded'[j] = recorded[j]
               \/ \A num \in DOMAIN request.expected[j + 1] :
                    recorded'[j][num] \in request.expected[j + 1][num]
    <3>1. CASE j = Job(w)
      BY <2>1, <2>2, <3>1 DEF Expected
    <3>2. CASE j # Job(w)
      BY <2>1, <3>2
    <3> QED
      BY <3>1, <3>2
  <2> QED
    BY <1>1, <2>1, <2>5, <2>6, <2>7, OverrideWorkerKept
<1>12. CASE SubmitFails(w)
  <2>1. workers[w].phase = "submit" /\ UNCHANGED <<next, recorded>>
    BY <1>12 DEF SubmitFails
  <2>2. CASE workers[w].attempt <= request.retries /\ ~cancelled
    <3>1. /\ workers' = [workers EXCEPT ![w] =
                           [Idle EXCEPT !.phase = "configure", !.job = Job(w),
                                        !.attempt = workers[w].attempt + 1]]
          /\ pending' = [pending EXCEPT ![w] = {}]
      BY <1>12, <2>2 DEF SubmitFails, Attempt
    <3>2. workers'[w].phase = "configure"
      BY <1>1, <3>1 DEF Idle
    <3> QED
      BY <1>1, <1>2, <1>3, <1>4, <2>1, <3>1, <3>2 DEF Only, Busy
  <2>3. CASE ~(workers[w].attempt <= request.retries /\ ~cancelled)
    BY <1>6, <1>12, <2>1, <2>3 DEF SubmitFails, Busy
  <2> QED
    BY <2>2, <2>3
<1>13. CASE Settle(w)
  <2>1. /\ workers' = [workers EXCEPT ![w] = Idle] /\ pending' = [pending EXCEPT ![w] = {}]
        /\ workers[w].phase = "settle" /\ UNCHANGED <<next, recorded>>
    BY <1>13 DEF Settle
  <2>2. Overridden(w)'
    BY <1>1, <1>3, <2>1 DEF Idle
  <2>3. Only(w)
    BY <1>1, <1>4, <2>1 DEF Only, Busy
  <2> QED
    BY <1>1, <1>2, <2>1, <2>2, <2>3
<1> QED
  BY <1>5, <1>7, <1>8, <1>9, <1>10, <1>11, <1>12, <1>13 DEF WorkerStep

LEMMA OverrideStep ==
  ASSUME RequestsMeant, RunInv, PlanInv, OverrideInv, [Next]_vars
  PROVE  OverrideInv'
<1>1. CASE Prepares
  BY <1>1, OverridePreparesStep
<1>2. ASSUME UNCHANGED <<request, prepared, next, recorded, workers>>,
             stage' = stage \/ (stage = "running" /\ stage' = "done")
      PROVE  OverrideInv'
  <2>1. UNCHANGED <<cfg, options, hooks, samples>>
    BY <1>2 DEF prepared
  <2>2. RunSound'
    BY <1>2, <2>1, RunSoundKept DEF OverrideInv, RunSound
  <2>3. \A w \in Workers : Overridden(w)'
    BY <1>2, <2>1, OverriddenKept DEF OverrideInv
  <2>4. OverridesSubmitted'
    BY <1>2 DEF OverrideInv, OverridesSubmitted
  <2> QED
    BY <2>2, <2>3, <2>4 DEF OverrideInv
<1>3. CASE Return
  BY <1>2, <1>3 DEF Return, working
<1>4. CASE \E w \in Workers : WorkerStep(w)
  BY <1>4, OverrideWorkerStep
<1>5. CASE UNCHANGED vars
  BY <1>2, <1>5 DEF vars, working
<1> QED
  BY <1>1, <1>3, <1>4, <1>5 DEF Next

\* run_reversefill.go:63, run_ai.go:43, ai_provider.go:48: a job submits the row of
\* the worksheet that is its own, the model's answer where a question was left to
\* it and the caller's strategy elsewhere, for any number of jobs and workers, in
\* any order, however often a job fails and is configured anew and whatever the
\* counters hold by then.  RequestsMeant says what the author of a request may
\* expect of a question alone: what its row says, the replies of the model, one of
\* several texts for all blanks, or any option one of its tables gives a weight.
THEOREM OverridesAreSubmitted ==
  ASSUME RequestsGraded, RequestsMeant
  PROVE  Spec => []OverridesSubmitted
<1>1. Init => RunInv /\ PlanInv /\ OverrideInv
  BY InitInv, PlanInit, OverrideInit
<1>2. RunInv /\ PlanInv /\ OverrideInv /\ [Next]_vars => RunInv' /\ PlanInv' /\ OverrideInv'
  <2> SUFFICES ASSUME RunInv, PlanInv, OverrideInv, [Next]_vars
               PROVE  RunInv' /\ PlanInv' /\ OverrideInv'
    OBVIOUS
  <2>1. RunInv'
    BY PreparesStep, ReturnStep, StutterStep, WorkerStepKeeps DEF Next
  <2> QED
    BY <2>1, PlanStep, OverrideStep
<1>3. OverrideInv => OverridesSubmitted
  BY DEF OverrideInv
<1> QED
  BY <1>1, <1>2, <1>3, PTL DEF Spec

=============================================================================

------------------------- MODULE ConfigStore_proofs -------------------------
(***************************************************************************)
(* Proofs about the configuration file: saving is atomic for any number of *)
(* savers, documents and initial contents, and whatever numbers a legacy   *)
(* file holds, the request migrated from it can be run.                    *)
(*                                                                         *)
(* SaveAtomic is strengthened by what every saver knows of its temporary   *)
(* file: whole once written, flushed once it may be renamed.               *)
(***************************************************************************)
EXTENDS ConfigStore, TLAPS

Saved == {s \in Savers : result[s] = "saved"}

Found == {before} \cup {Whole(s) : s \in Saved}

\* The typing an update of a saver's entry needs.
Typed ==
  /\ temp = [s \in Savers |-> temp[s]]
  /\ phase = [s \in Savers |-> phase[s]]
  /\ result = [s \in Savers |-> result[s]]

\* What the name of the target refers to is flushed and whole.
TargetsWhole ==
  /\ file.content \in Found /\ file.flushed = TRUE
  /\ disk.content \in Found /\ disk.flushed = TRUE

TempsAdvance ==
  \A s \in Savers :
    /\ phase[s] \in {"sync", "replace"} => temp[s].content = Whole(s)
    /\ phase[s] = "replace" => temp[s].flushed = TRUE
    /\ phase[s] # "done" => result[s] = ""

LoadedWhole == loaded = NotYet \/ \E c \in Found, strict \in BOOLEAN : loaded = Load(c, strict)

Inv == Typed /\ TargetsWhole /\ TempsAdvance /\ LoadedWhole

LEMMA InvHoldsFirst == Init => Inv
<1> SUFFICES ASSUME Init PROVE Inv
  OBVIOUS
<1>1. Saved = {} /\ before \in Found
  BY DEF Init, Saved, Found
<1>2. Typed
  BY DEF Init, Typed, NoFile, File
<1>3. TargetsWhole
  BY <1>1 DEF Init, TargetsWhole, File
<1>4. TempsAdvance
  BY DEF Init, TempsAdvance
<1>5. LoadedWhole
  BY DEF Init, LoadedWhole
<1> QED
  BY <1>2, <1>3, <1>4, <1>5 DEF Inv

\* What Sync leaves behind.
LEMMA FlushedFile ==
  ASSUME NEW f, NEW c, f = File(c, TRUE) PROVE f.content = c /\ f.flushed = TRUE
BY DEF File

\* A step that leaves before alone and takes no save back keeps what readers
\* may find.
LEMMA FoundGrows ==
  ASSUME before' = before, Saved \subseteq Saved'
  PROVE  Found \subseteq Found'
BY DEF Found

\* Loads of what could be found before are loads of what can be found now.
LEMMA LoadedKept ==
  ASSUME LoadedWhole, loaded' = loaded, Found \subseteq Found'
  PROVE  LoadedWhole'
BY DEF LoadedWhole

LEMMA TargetsKept ==
  ASSUME TargetsWhole, UNCHANGED <<file, disk>>, Found \subseteq Found'
  PROVE  TargetsWhole'
BY DEF TargetsWhole

LEMMA InvIsKept == Inv /\ [Next]_vars => Inv'
<1> SUFFICES ASSUME Inv, [Next]_vars PROVE Inv'
  OBVIOUS
<1> USE DEF Inv
<1>1. ASSUME NEW s \in Savers, SaveStep(s), ~Replace(s) PROVE Inv'
  <2>1. UNCHANGED <<before, file, disk, loaded>>
    BY <1>1 DEF SaveStep, Serialize, CreateTemp, WriteSome, Write, Sync, SaveFails, Kill
  <2>2. Typed'
    BY <1>1 DEF SaveStep, Serialize, CreateTemp, WriteSome, Write, Sync, SaveFails, Kill,
                Typed, File, NoFile, Goto
  <2>3. TempsAdvance'
    <3> SUFFICES ASSUME NEW t \in Savers
                 PROVE  /\ phase'[t] \in {"sync", "replace"} => temp'[t].content = Whole(t)
                        /\ phase'[t] = "replace" => temp'[t].flushed = TRUE
                        /\ phase'[t] # "done" => result'[t] = ""
      BY DEF TempsAdvance, Whole
    <3>1. CASE t # s
      BY <1>1, <3>1 DEF SaveStep, Serialize, CreateTemp, WriteSome, Write, Sync, SaveFails, Kill,
                        TempsAdvance, Typed, Goto
    <3>2. CASE t = s /\ (Serialize(s) \/ CreateTemp(s) \/ WriteSome(s))
      BY <3>2 DEF Serialize, CreateTemp, WriteSome, TempsAdvance, Typed, Goto
    <3>3. CASE t = s /\ Write(s)
      BY <3>3 DEF Write, TempsAdvance, Typed, File, Goto
    <3>4. CASE t = s /\ Sync(s)
      <4>1. temp'[s] = File(temp[s].content, TRUE)
        BY <3>4 DEF Sync, Typed
      <4>2. temp[s].content = Whole(s) /\ phase'[s] = "replace" /\ result'[s] = ""
        BY <3>4 DEF Sync, TempsAdvance, Typed, Goto
      <4> QED
        BY <3>4, <4>1, <4>2, FlushedFile
    <3>5. CASE t = s /\ (SaveFails(s) \/ Kill(s))
      BY <3>5 DEF SaveFails, Kill, Typed, Goto
    <3> QED
      BY <1>1, <3>1, <3>2, <3>3, <3>4, <3>5 DEF SaveStep
  <2>4. Saved \subseteq Saved'
    BY <1>1 DEF SaveStep, Serialize, CreateTemp, WriteSome, Write, Sync, SaveFails, Kill,
                TempsAdvance, Typed, Saved
  <2> QED
    BY <2>1, <2>2, <2>3, <2>4, FoundGrows, LoadedKept, TargetsKept
<1>2. ASSUME NEW s \in Savers, Replace(s) PROVE Inv'
  <2>1. temp[s].content = Whole(s) /\ temp[s].flushed = TRUE
    BY <1>2 DEF Replace, TempsAdvance
  <2>2. Typed'
    BY <1>2 DEF Replace, Typed, File, NoFile, Goto
  <2>3. Saved \subseteq Saved' /\ s \in Saved'
    BY <1>2 DEF Replace, Saved, Typed
  <2>4. Found \subseteq Found' /\ Whole(s) \in Found'
    BY <1>2, <2>3, FoundGrows DEF Replace, Found, Whole
  <2>5. TargetsWhole'
    BY <1>2, <2>1, <2>4 DEF Replace, TargetsWhole
  <2>6. TempsAdvance'
    BY <1>2 DEF Replace, TempsAdvance, Typed, NoFile, File, Goto, Whole
  <2>7. LoadedWhole'
    BY <1>2, <2>4, LoadedKept DEF Replace
  <2> QED
    BY <2>2, <2>5, <2>6, <2>7
<1>3. CASE WriteBack
  <2>1. Saved = Saved' /\ Found = Found'
    BY <1>3 DEF WriteBack, Saved, Found
  <2>2. Typed' /\ TempsAdvance' /\ LoadedWhole'
    BY <1>3, <2>1 DEF WriteBack, Typed, TempsAdvance, LoadedWhole
  <2>3. TargetsWhole'
    BY <1>3, <2>1 DEF WriteBack, TargetsWhole
  <2> QED
    BY <2>2, <2>3
<1>4. CASE PowerFails
  <2>1. Saved = Saved' /\ Found = Found'
    BY <1>4 DEF PowerFails, Saved, Found
  <2>2. Remains(disk) \cup Remains(file) = {disk, file}
    BY DEF Remains, TargetsWhole
  <2>3. TargetsWhole'
    BY <1>4, <2>1, <2>2 DEF PowerFails, TargetsWhole
  <2>4. Typed' /\ TempsAdvance' /\ LoadedWhole'
    BY <1>4, <2>1 DEF PowerFails, Typed, TempsAdvance, LoadedWhole
  <2> QED
    BY <2>3, <2>4
<1>5. ASSUME NEW strict \in BOOLEAN, Read(strict) PROVE Inv'
  <2>1. Saved = Saved' /\ Found = Found'
    BY <1>5 DEF Read, Saved, Found
  <2>2. Typed' /\ TempsAdvance' /\ TargetsWhole'
    BY <1>5, <2>1 DEF Read, Typed, TempsAdvance, TargetsWhole
  <2>3. loaded' = Load(file.content, strict) /\ file.content \in Found'
    BY <1>5, <2>1 DEF Read, TargetsWhole
  <2>4. LoadedWhole'
    BY <2>3 DEF LoadedWhole
  <2> QED
    BY <2>2, <2>4
<1>6. CASE UNCHANGED vars
  BY <1>6 DEF vars, Typed, TargetsWhole, TempsAdvance, LoadedWhole, Saved, Found
<1> QED
  BY <1>1, <1>2, <1>3, <1>4, <1>5, <1>6 DEF Next

\* store.go:83: at any time, after any failure, the target and every load of it
\* are those of the old document or of one whose save succeeded.
THEOREM SavingIsAtomic == Spec => []SaveAtomic
<1>1. Inv => SaveAtomic
  BY DEF Inv, TargetsWhole, LoadedWhole, SaveAtomic, Found, Saved
<1> QED
  BY <1>1, InvHoldsFirst, InvIsKept, PTL DEF Spec

-----------------------------------------------------------------------------
(* What a legacy file becomes.                                             *)

\* Values as JSON decodes them: what calls itself a number or spells one has
\* an integer.
Scalar(v) == v.is \in {"number", "numeral"} => v.value \in Int

Scalars(v) ==
  v.is = "list" /\ ~(Len(v.value) < 2) => Scalar(v.value[1]) /\ Scalar(v.value[2])

Ordered(pair) == pair[1] \in Nat /\ pair[2] \in Nat /\ pair[1] <= pair[2]

LEMMA IntIsInt ==
  ASSUME NEW v, Scalar(v), NEW fallback \in Int
  PROVE  intValue(v, fallback) \in Int
BY DEF Scalar, intValue

\* values.go:59: never below one.
LEMMA PositiveIsPositive ==
  ASSUME NEW v, Scalar(v), NEW fallback \in Nat \ {0}
  PROVE  positiveInt(v, fallback) \in Nat \ {0}
BY IntIsInt DEF positiveInt

\* values.go:103: two ordered natural numbers, whatever the list holds.
LEMMA PairIsOrdered ==
  ASSUME NEW v, Scalars(v), NEW low \in Nat, NEW high \in Nat, low <= high
  PROVE  Ordered(intPair(v, low, high))
<1>1. CASE v.is # "list" \/ Len(v.value) < 2
  BY <1>1 DEF intPair, Ordered
<1>2. CASE v.is = "list" /\ ~(Len(v.value) < 2)
  <2> DEFINE left == AtLeast(0, intValue(v.value[1], low))
             right == AtLeast(left, intValue(v.value[2], high))
  <2>1. intValue(v.value[1], low) \in Int /\ intValue(v.value[2], high) \in Int
    <3>1. Scalar(v.value[1]) /\ Scalar(v.value[2])
      BY <1>2, Zenon DEF Scalars
    <3> QED
      BY <3>1, IntIsInt
  <2>2. left \in Nat
    BY <2>1 DEF AtLeast
  <2>3. right \in Nat /\ left <= right
    BY <2>1, <2>2 DEF AtLeast
  <2>4. intPair(v, low, high) = <<left, right>>
    BY <1>2 DEF intPair
  <2> HIDE DEF left, right
  <2> QED
    BY <2>2, <2>3, <2>4 DEF Ordered
<1> QED
  BY <1>1, <1>2

\* normalize.go:104: ordered, and half an hour at most.
LEMMA DurationIsBounded ==
  ASSUME NEW v, Ordered(intPair(v, 60, 120))
  PROVE  /\ Ordered(normalizeAnswerDuration(v))
         /\ normalizeAnswerDuration(v)[2] <= longest
BY DEF normalizeAnswerDuration, Ordered, AtMost, longest

\* normalize.go:57: within (0, 1].
LEMMA AlphaIsBounded ==
  ASSUME NEW v, Scalar(v) PROVE normalizeTargetAlpha(v) \in 1..100
BY IntIsInt DEF normalizeTargetAlpha, AtMost

\* normalize.go:66: the shares of the user agents make a hundred.
LEMMA RatiosAddUp ==
  ASSUME NEW v
  PROVE  LET r == normalizeRandomUARatios(v)
         IN  r["wechat"] + r["mobile"] + r["pc"] = 100
BY DEF normalizeRandomUARatios, DefaultRatios, Agents

\* A legacy file with numbers where numbers belong.
Legacy(raw) ==
  /\ \A name \in {"target", "threads", "reverse_fill_start_row", "reverse_fill_threads",
                  "psycho_target_alpha"} : Scalar(Field(raw, name))
  /\ Scalars(Field(raw, "submit_interval")) /\ Scalars(Field(raw, "answer_duration"))

\* What the engine and the runners need of a request.
Runnable(request) ==
  /\ request.execution.target \in Nat \ {0} /\ request.execution.threads \in Nat \ {0}
  /\ Ordered(request.execution.interval)
  /\ Ordered(request.execution.duration) /\ request.execution.duration[2] <= longest
  /\ request.reverseFill.startRow \in Nat \ {0} /\ request.reverseFill.threads \in Nat \ {0}
  /\ request.psychometrics.alpha \in 1..100

\* legacy.go:75: whatever numbers an old file holds, and whichever fields it
\* lacks, the request migrated from it stays within what a run can work with.
THEOREM LegacyIsRunnable ==
  ASSUME NEW raw, Legacy(raw), migrateLegacyPayload(raw) # Failure
  PROVE  Runnable(migrateLegacyPayload(raw))
<1>1. Execution(raw).target \in Nat \ {0} /\ Execution(raw).threads \in Nat \ {0}
  BY PositiveIsPositive DEF Legacy, Execution
<1>2. Ordered(Execution(raw).interval)
  BY PairIsOrdered DEF Legacy, Execution
<1>3. Ordered(Execution(raw).duration) /\ Execution(raw).duration[2] <= longest
  BY PairIsOrdered, DurationIsBounded DEF Legacy, Execution
<1>4. ReverseFillPlan(raw).startRow \in Nat \ {0} /\ ReverseFillPlan(raw).threads \in Nat \ {0}
  BY PositiveIsPositive DEF Legacy, ReverseFillPlan
<1>5. PsychometricPolicy(raw).alpha \in 1..100
  BY AlphaIsBounded DEF Legacy, PsychometricPolicy
<1> QED
  BY <1>1, <1>2, <1>3, <1>4, <1>5 DEF migrateLegacyPayload, Runnable

=============================================================================

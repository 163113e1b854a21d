----------------------------- MODULE ReverseFill ----------------------------
(***************************************************************************)
(* The rows of an exported worksheet read back as answers                  *)
(* (config/reversefill/excel.go, parser.go) and laid over the strategies   *)
(* of one job (runtime/run_reversefill.go).                                *)
(*                                                                         *)
(* Texts matter by what they are compared by: labelVariants turns a text   *)
(* into keys, the whole text first, then what is left without a leading    *)
(* number or in front of a separator.  So an option, a row label or a      *)
(* column suffix is a sequence of keys, and a cell is [keys, number,       *)
(* composite]: its keys (none when blank), the number it spells (0 for     *)
(* none; "2.00" spells none, "2.0" spells 2) and whether it holds the      *)
(* marks of a multiple, an order or an answer with a fill-in.              *)
(***************************************************************************)
EXTENDS Integers, Sequences, FiniteSets, FiniteSetsExt, SequencesExt

Nothing   == [kind |-> "nothing"]
Failure   == [kind |-> "failure"]
Choice(i) == [kind |-> "choice", index |-> i]

NoMatch == -1

\* Where an option or label is found by key: the first that has it wins.
OptionAt(labels, key) ==
  LET holders == {i \in DOMAIN labels : key \in Range(labels[i])}
  IN  IF holders = {} THEN NoMatch ELSE Min(holders) - 1

\* A plausible slip: any key of the cell, whichever option comes first.
MatchAny(labels, keys) ==
  LET found == {OptionAt(labels, k) : k \in Range(keys)} \ {NoMatch}
  IN  IF found = {} THEN NoMatch ELSE Min(found)

MatchedOption(labels, keys) ==
  LET hits == {k \in DOMAIN keys : OptionAt(labels, keys[k]) # NoMatch}
  IN  IF hits = {} THEN NoMatch ELSE OptionAt(labels, keys[Min(hits)])

isBlank(cell) == cell.keys = <<>>

answerByOneBasedIndex(cell, options) ==
  IF cell.number \in DOMAIN options THEN Choice(cell.number - 1) ELSE Failure

ParseChoiceAnswer(cell, format, options) ==
  CASE isBlank(cell)            -> Nothing
    [] ~isBlank(cell) /\ cell.composite -> Failure
    [] OTHER -> IF format # "wjx_sequence" /\ MatchedOption(options, cell.keys) # NoMatch
                THEN Choice(MatchedOption(options, cell.keys))
                ELSE answerByOneBasedIndex(cell, options)

\* Columns in sheet order are moved to the rows their suffixes name; unless
\* that works for all of them they stay as they are.
ResolveOrderedColumns(columns, labels) ==
  LET ordered == SortSeq(columns, LAMBDA a, b : a.index < b.index)
      Free(key, used) == OptionAt(labels, key) # NoMatch /\ OptionAt(labels, key) \notin used
      Target(column, used) ==
        LET free == {k \in DOMAIN column.suffix : Free(column.suffix[k], used)}
        IN  IF free = {} THEN NoMatch ELSE OptionAt(labels, column.suffix[Min(free)])
      targets == FoldLeft(LAMBDA done, column : Append(done, Target(column, Range(done))),
                          <<>>, ordered)
  IN  IF Len(ordered) # Len(labels) \/ NoMatch \in Range(targets) THEN ordered
      ELSE [r \in DOMAIN labels |-> ordered[CHOOSE c \in DOMAIN ordered : targets[c] = r - 1]]

ParseTextAnswer(cells) ==
  IF \A i \in DOMAIN cells : isBlank(cells[i]) THEN Nothing
  ELSE [kind |-> "text", texts |-> [i \in DOMAIN cells |-> cells[i].keys]]

ParseMatrixAnswer(cells, format, options) ==
  LET Row(i) == ParseChoiceAnswer(cells[i], format, options)
  IN  IF \A i \in DOMAIN cells : isBlank(cells[i]) THEN Nothing
      ELSE IF \E i \in DOMAIN cells : Row(i).kind # "choice" THEN Failure
      ELSE [kind |-> "matrix", indexes |-> [i \in DOMAIN cells |-> Row(i).index]]

parseQuestionAnswer(q, columns, row, format) ==
  LET ordered == ResolveOrderedColumns(columns, q.labels)
      cells   == [i \in DOMAIN ordered |-> row[ordered[i].index]]
  IN  CASE q.kind \in {"single", "dropdown", "scale"} ->
             ParseChoiceAnswer(cells[1], format, q.options)
        [] q.kind = "text"   -> ParseTextAnswer(cells)
        [] q.kind = "matrix" -> ParseMatrixAnswer(cells, format, q.options)
        [] OTHER             -> Failure

\* headers: [num, suffix] per column, num 0 where no question number leads.
InferQuestionColumns(headers) ==
  LET all == [i \in DOMAIN headers |->
                [index |-> i, num |-> headers[i].num, suffix |-> headers[i].suffix]]
      nums == {headers[i].num : i \in DOMAIN headers} \ {0}
  IN  [n \in nums |-> SelectSeq(all, LAMBDA c : c.num = n)]

DetectedFormat(format) == IF format = "auto" THEN "wjx_text" ELSE format

\* The rows behind startRow in order, those without an answer left out, until
\* maxRows are found; failures count in the rows looked at only.
PreviewExcel(sheet, questions, format, startRow, maxRows) ==
  LET columns == InferQuestionColumns(sheet.headers)
      asked   == {q \in questions : q.num \in DOMAIN columns}
      Parsed(row) == [n \in {q.num : q \in asked} |->
                        LET q == CHOOSE x \in asked : x.num = n
                        IN  parseQuestionAnswer(q, columns[n], row, DetectedFormat(format))]
      data    == SubSeq(sheet.rows, startRow, Len(sheet.rows))
      parsed  == [i \in DOMAIN data |-> Parsed(data[i])]
      Given(i)  == {n \in DOMAIN parsed[i] : parsed[i][n].kind \notin {"nothing", "failure"}}
      filled  == {i \in DOMAIN data : Given(i) # {}}
      Looked(i) == Cardinality({j \in filled : j < i}) < maxRows
      kept    == SetToSortSeq({i \in filled : Looked(i)}, <)
  IN  [total   |-> Len(data),
       failed  |-> \E i \in DOMAIN data : Looked(i) /\ \E n \in DOMAIN parsed[i] :
                                                           parsed[i][n].kind = "failure",
       samples |-> [k \in DOMAIN kept |->
                      [row |-> kept[k],
                       answers |-> [n \in Given(kept[k]) |-> parsed[kept[k]][n]]]]]

=============================================================================

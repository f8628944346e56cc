------------------------------ MODULE Selector ------------------------------
(***************************************************************************)
(* Label sets and the selectors that find them: canonical keys, the        *)
(* matching of label sets by the per-day inverted index, the parser of     *)
(* selectors, and mmctl's rendering of a label set as a selector.  A       *)
(* string is a sequence of characters; labels are records [name, value].   *)
(***************************************************************************)
EXTENDS Integers, Sequences, SequencesExt, FiniteSetsExt, TLC

CONSTANT MetricNameLabel   \* "__name__", a name over Letters

Quote == "\""
Backslash == "\\"

\* Characters in the order of their codes: the two separators of the keys
\* come first.
Codes == <<"\\x01", "\\x02", " ", Quote, ",", "=", Backslash, "j", "k", "{", "}">>
Letters == {"j", "k"}
Text == Seq(ToSet(Codes) \ {"\\x01", "\\x02"})   \* text without separators
Code(c) == CHOOSE i \in DOMAIN Codes : Codes[i] = c

\* String comparison.
LessString(s, t) ==
  \E i \in 1..Len(t) :
    /\ i <= Len(s) + 1 /\ SubSeq(s, 1, i - 1) = SubSeq(t, 1, i - 1)
    /\ i = Len(s) + 1 \/ Code(s[i]) < Code(t[i])

LessLabel(a, b) ==
  LessString(a.name, b.name) \/ (a.name = b.name /\ LessString(a.value, b.value))

\* The permutation p puts the labels in order.
InOrder(labels, p) ==
  \A i, j \in DOMAIN labels : i < j => ~LessLabel(labels[p[j]], labels[p[i]])

SortedLabels(labels) ==
  LET n == Len(labels)
      order == CHOOSE p \in Bijection(1..n, 1..n) : InOrder(labels, p)
  IN  [i \in 1..n |-> labels[order[i]]]

LabelKey(l) == l.name \o <<"\\x01">> \o l.value

\* Seeded bug: the labels are joined in the order they came in.
CanonicalKeyUnsorted(labels) ==
  FlattenSeq([i \in DOMAIN labels |-> LabelKey(labels[i]) \o <<"\\x02">>])

CanonicalKey(labels) ==
  LET sorted == SortedLabels(labels)
  IN  FlattenSeq([i \in DOMAIN sorted |-> LabelKey(sorted[i]) \o <<"\\x02">>])

-----------------------------------------------------------------------------
(* The inverted index of a day maps the key of each label to SeriesIDs.     *)

\* addInvertedLocked for every series of the day; names gives their labels.
InvertedIndex(ids, names) ==
  [key \in UNION {{LabelKey(names[id][i]) : i \in DOMAIN names[id]} : id \in ids} |->
     {id \in ids : \E i \in DOMAIN names[id] : LabelKey(names[id][i]) = key}]

\* Match: the union over the days for each matcher, then the intersection.
Match(matchers, days) ==
  LET of(m) == UNION {IF LabelKey(m) \in DOMAIN inv THEN inv[LabelKey(m)] ELSE {} : inv \in days}
  IN  {id \in of(matchers[1]) : \A i \in DOMAIN matchers : id \in of(matchers[i])}

-----------------------------------------------------------------------------
(* ParseSelector.                                                           *)

IsSpace(c) == c = " "
TrimSpace(s) ==
  LET kept == {i \in DOMAIN s : ~IsSpace(s[i])}
  IN  IF kept = {} THEN <<>> ELSE SubSeq(s, Min(kept), Max(kept))

\* metricNameRE, over the characters of the model.
ValidName(s) == s # <<>> /\ ToSet(s) \subseteq Letters

\* strings.IndexByte, from 1; 0 when there is none.
IndexByte(s, c) ==
  LET at == {i \in DOMAIN s : s[i] = c} IN IF at = {} THEN 0 ELSE Min(at)

\* One character of splitLabelPairs: are we in quotes, after a backslash?
SplitState(q, c) ==
  CASE q.escaped -> [q EXCEPT !.escaped = FALSE]
    [] ~q.escaped /\ q.inQuote /\ c = Backslash -> [q EXCEPT !.escaped = TRUE]
    [] ~q.escaped /\ c = Quote -> [q EXCEPT !.inQuote = ~@]
    [] OTHER -> q

\* Seeded bug: a quote after a backslash ends the quoted part.
SplitsAtUnescaped(s, i) ==
  s[i] = "," /\ Cardinality({j \in 1..(i - 1) : s[j] = Quote}) % 2 = 0

\* Is position i of s a comma outside of quotes?
SplitsAt(s, i) ==
  LET q == FoldLeft(SplitState, [inQuote |-> FALSE, escaped |-> FALSE], SubSeq(s, 1, i - 1))
  IN  s[i] = "," /\ ~q.inQuote /\ ~q.escaped

SplitLabelPairs(s) ==
  LET cuts == SetToSortSeq({i \in DOMAIN s : SplitsAt(s, i)} \cup {0, Len(s) + 1}, <)
  IN  [k \in 1..(Len(cuts) - 1) |-> SubSeq(s, cuts[k] + 1, cuts[k + 1] - 1)]

\* strconv.Unquote of a double-quoted string: its value, or an error.
Unquote(s) ==
  LET body == SubSeq(s, 2, Len(s) - 1)
      \* The characters that a backslash before them escapes.
      Escapes(q, c) == [after |-> c = Backslash /\ ~q.after,
                        bad |-> q.bad \/ (IF q.after THEN c \notin {Quote, Backslash} ELSE c = Quote),
                        out |-> IF c = Backslash /\ ~q.after THEN q.out ELSE Append(q.out, c)]
      end == FoldLeft(Escapes, [after |-> FALSE, bad |-> FALSE, out |-> <<>>], body)
  IN  IF Len(s) < 2 \/ s[1] # Quote \/ Last(s) # Quote \/ end.bad \/ end.after
      THEN [err |-> "invalid syntax", v |-> <<>>]
      ELSE [err |-> "nil", v |-> end.out]

\* One part between commas: the matchers it adds, or an error.
ParseMatcher(part) ==
  LET eq == IndexByte(part, "=")
      name == TrimSpace(SubSeq(part, 1, eq - 1))
      value == Unquote(TrimSpace(SubSeq(part, eq + 1, Len(part))))
  IN  IF part = <<>> THEN [err |-> "nil", v |-> <<>>]
      ELSE IF eq <= 1 THEN [err |-> "malformed matcher", v |-> <<>>]
      ELSE IF ~ValidName(name) THEN [err |-> "invalid label name", v |-> <<>>]
      ELSE IF value.err # "nil" THEN [err |-> "malformed value", v |-> <<>>]
      ELSE [err |-> "nil", v |-> <<[name |-> name, value |-> value.v]>>]

\* The matchers of a selector, or an error; the first one in the text counts.
ParseSelector(query) ==
  LET q == TrimSpace(query)
      brace == IndexByte(q, "{")
      name == TrimSpace(SubSeq(q, 1, brace - 1))
      pairs == SplitLabelPairs(SubSeq(q, brace + 1, Len(q) - 1))
      parsed == [i \in DOMAIN pairs |-> ParseMatcher(TrimSpace(pairs[i]))]
      bad == {i \in DOMAIN parsed : parsed[i].err # "nil"}
      byName(n) == [name |-> MetricNameLabel, value |-> n]
      matchers == (IF name = <<>> THEN <<>> ELSE <<byName(name)>>)
                    \o FlattenSeq([i \in DOMAIN parsed |-> parsed[i].v])
      Error(e) == [err |-> e, v |-> <<>>]
  IN  IF q = <<>> THEN Error("empty selector")
      ELSE IF brace = 0 THEN
        IF ValidName(q) THEN [err |-> "nil", v |-> <<byName(q)>>] ELSE Error("invalid metric name")
      ELSE IF name # <<>> /\ ~ValidName(name) THEN Error("invalid metric name")
      ELSE IF Len(q) < brace + 1 \/ Last(q) # "}" THEN Error("malformed selector")
      ELSE IF bad # {} THEN Error(parsed[Min(bad)].err)
      ELSE IF matchers = <<>> THEN Error("no matcher")
      ELSE [err |-> "nil", v |-> matchers]

-----------------------------------------------------------------------------
(* mmctl's rendering of a label set.                                        *)

\* The verb %q, over the characters of the model.
Quoted(s) ==
  <<Quote>> \o FlattenSeq([i \in DOMAIN s |->
                 IF s[i] \in {Quote, Backslash} THEN <<Backslash, s[i]>> ELSE <<s[i]>>]) \o <<Quote>>

\* formatLabels.
FormatLabels(labels) ==
  LET names == SelectSeq(labels, LAMBDA l : l.name = MetricNameLabel)
      rest == SelectSeq(labels, LAMBDA l : l.name # MetricNameLabel)
      name == IF names = <<>> THEN <<>> ELSE Last(names).value
      pair(i) == rest[i].name \o <<"=">> \o Quoted(rest[i].value)
      joined == FlattenSeq([i \in DOMAIN rest |->
                  IF i = 1 THEN pair(i) ELSE <<",", " ">> \o pair(i)])
  IN  IF rest = <<>> THEN name ELSE name \o <<"{">> \o joined \o <<"}">>
====

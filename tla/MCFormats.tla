----------------------------- MODULE MCFormats -----------------------------
EXTENDS Formats

MCTimestampSeqs == SeqOf({-128, -127, -1, 0, 1, 100, 127}, 4)
MCValueSeqs == SeqOf({0, 1, 2, 16, 24, 90, 128, 255}, 4)

MCMagic == <<77, 49>>

\* Labels in bytes, one set with an empty value.
MCLabelBytes ==
  {<<[name |-> <<1>>, value |-> <<2, 3>>]>>,
   <<[name |-> <<1>>, value |-> <<>>], [name |-> <<5>>, value |-> <<6>>]>>}
MCSegments == UNION {[ids -> MCLabelBytes] : ids \in (SUBSET {1, 2, 200}) \ {{}}}

At(t, v) == [t |-> t, v |-> v]
\* One sample, two out of order, two at the same time, and more.
MCSamples ==
  {<<At(3, 7)>>, <<At(9, 1), At(4, 2)>>, <<At(5, 1), At(5, 255)>>,
   <<At(-128, 16), At(127, 24), At(6, 16), At(6, 8)>>}
MCPartContents == UNION {[ids -> MCSamples] : ids \in (SUBSET {1, 2}) \ {{}}}
MCWindows == {[start |-> a, end |-> b] : a \in {-128, 4, 5, 9}, b \in {-128, 3, 5, 127}}

MCMetricNameLabel == <<"k", "k">>
Chars == {" ", Quote, ",", "=", Backslash, "j", "{", "}"}
Lbl(n, v) == [name |-> n, value |-> v]
\* A value out of all short ones next to a nasty one, with a metric name and
\* without, in both orders.
MCLabels ==
  {<<Lbl(<<"j">>, v)>> \o rest : v \in SeqOf(Chars, 2),
     rest \in {<<>>, <<Lbl(<<"k">>, <<Quote, ",">>)>>, <<Lbl(MCMetricNameLabel, <<"j", "k">>)>>,
               <<Lbl(MCMetricNameLabel, <<"j">>), Lbl(<<"k">>, <<Backslash>>)>>}}
MCRegistries ==
  {[names |-> 1 :> l @@ 2 :> (l \o <<Lbl(<<"j", "j">>, <<>>)>>) @@ 3 :> <<Lbl(<<"j">>, <<"j">>)>>
                @@ 4 :> l,
    days |-> d] : l \in MCLabels, d \in {{{1, 3}, {2}}, {{3}}}}

MCKeyLabels ==
  SeqOf({Lbl(n, v) : n \in {<<"j">>, <<"k">>, <<"j", "j">>}, v \in {<<>>, <<"j">>, <<"j", "j">>, <<"=">>}}, 2)

MCMoments == -8..19
MCRetentionPeriods == {0, 1, 2, 4, 9, 30, 62, 64, 70, 120, 130}
MCDecimalTimes == 0..500
====

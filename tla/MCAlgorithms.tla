---------------------------- MODULE MCAlgorithms ----------------------------
(* Inputs of the algorithms.                                                *)
EXTENDS Algorithms

CONSTANTS k1, k2

\* All sequences over S of up to n members.
UpTo(S, n) == UNION {[1 .. k -> S] : k \in 0 .. n}

\* Blank pages, one of them with spaces, and paragraphs shorter than, as long as and
\* longer than a chunk.  indent: the spaces that a page starts with.
Layout(indent, paragraphs) == [indent |-> indent, paragraphs |-> paragraphs]
Layouts ==
    {Layout(i, <<>>) : i \in {0, 3}}
    \union {Layout(0, p) : p \in {<<1>>, <<3>>, <<4>>, <<8>>, <<1, 1>>, <<5, 2>>, <<4, 4>>}}
    \union {Layout(2, <<1, 3>>)}

\* Words are one character long and one apart; paragraphs are two apart.
WordsOf(paragraphs) == FoldLeft(+, 0, paragraphs)
LayoutLength(l) ==
    l.indent + Larger(0, 2 * WordsOf(l.paragraphs) + Len(l.paragraphs) - 2)
TextOf(layouts) ==
    LET earlier(p) == WordsOf([i \in 1 .. p - 1 |-> WordsOf(layouts[i].paragraphs)])
        PageWords(p, page) == FlattenSeq([q \in DOMAIN page |->
            LET done == WordsOf(SubSeq(page, 1, q - 1))
            IN  [w \in 1 .. page[q] |->
                    LET at == layouts[p].indent + 2 * (done + w - 1) + q - 1
                    IN  [page |-> p, from |-> at, to |-> at + 1,
                         last |-> earlier(p) + done + page[q]]]])
    IN  [lengths |-> [p \in DOMAIN layouts |-> LayoutLength(layouts[p])],
         words |-> FlattenSeq([p \in DOMAIN layouts |-> PageWords(p, layouts[p].paragraphs)])]
AllTexts ==
    {TextOf(layouts) : layouts \in
        {l \in UpTo(Layouts, 3) : \E p \in DOMAIN l : l[p].paragraphs # <<>>}}

AllRuns ==
    {run \in [count : 1 .. 5, fits : BOOLEAN, unfit : {{}, {0}, {2}}, sent : -1 .. 3, stop : Stops] :
        Possible(run)}

\* Batches that go on from any chunk, and some that are out of order or do not fit.
ChunksFrom(k, m) == [j \in 1 .. m |-> [index |-> k + j - 1, fits |-> TRUE]]
Events ==
    {Metadata(n, TRUE) : n \in 0 .. 4} \union {Metadata(1, FALSE)}
    \union {Batch(i, ChunksFrom(k, m)) : i \in 0 .. 1, k \in 0 .. 3, m \in 0 .. 2}
    \union {Batch(0, <<[index |-> 0, fits |-> FALSE]>>),
            Batch(0, ChunksFrom(0, 1) \o ChunksFrom(0, 1)),
            Batch(0, ChunksFrom(1, 1) \o ChunksFrom(0, 1))}
AllStreams == [events : UpTo(Events, 3), end : {"EOF", "UNAVAILABLE"}]

\* initial and max are positive durations.
AllBackoffs == [attempt : 1 .. 8, initial : 1 .. 15, max : 1 .. 15]

AllListings == [created : [Documents -> 1 .. 2], query : {Absent, 0, 2, 3}]

Numbers == {Absent} \union 0 .. 5 \union {MaxOffset, MaxOffset + 1}
Ranges ==
    [kind : {"numbers"}, first : Numbers, last : Numbers]
    \union [kind : {"none", "malformed"}, first : {Absent}, last : {Absent}]
AllRequests ==
    [size : 0 .. 4,
     request : [head : BOOLEAN, notModified : BOOLEAN, stale : BOOLEAN, range : Ranges]]

AllAdmissions ==
    [op : {"reserve"}, size : 0 .. 2, gap : 0 .. 1]
    \union [op : {"release", "begin", "end"}, size : {0}, gap : 0 .. 1]

\* k1 is a name of a login, k2 one of a registration.
AllLimits == [k \in AuthKeys |-> 2]
AllWindows == [k \in AuthKeys |-> IF k = k1 THEN 1 ELSE 2]
AllLogins == [key : AuthKeys, gap : 0 .. 2]
=============================================================================

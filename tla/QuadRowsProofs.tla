--------------------------- MODULE QuadRowsProofs ---------------------------
(***************************************************************************)
(* The table has exactly the rows of the quads it should hold, and a match *)
(* gives back exactly those quads: for any finite set of quads over the    *)
(* terms of QuadsAssumption, and any number of calls.                      *)
(***************************************************************************)
EXTENDS QuadRows, FiniteSetTheorems, SequenceTheorems, WellFoundedInduction, TLAPS

-----------------------------------------------------------------------------
\* Sequences of marks.

LEMMA JoinedMarks ==
    ASSUME NEW S, NEW a \in Seq(S), NEW b \in Seq(S)
    PROVE  /\ a \o b \in Seq(S)
           /\ Len(a \o b) = Len(a) + Len(b)
           /\ \A i \in 1..Len(a) : (a \o b)[i] = a[i]
           /\ \A i \in 1..Len(b) : (a \o b)[Len(a) + i] = b[i]
    OBVIOUS

LEMMA SameMarks ==
    ASSUME NEW S, NEW a \in Seq(S), NEW b \in Seq(S), Len(a) = Len(b),
           \A i \in 1..Len(a) : a[i] = b[i]
    PROVE  a = b
    OBVIOUS

\* The marks the code writes itself.
LEMMA OneMark ==
    ASSUME NEW m \in Mark
    PROVE  /\ <<m>> \in Seq(Mark) /\ Len(<<m>>) = 1 /\ <<m>>[1] = m
           /\ m # Nul => <<m>> \in Text
<1>1. <<m>> \in Seq(Mark) /\ Len(<<m>>) = 1 /\ <<m>>[1] = m
    OBVIOUS
<1>2. \A i \in DOMAIN <<m>> : <<m>>[i] = m
    OBVIOUS
<1> QED BY <1>1, <1>2 DEF Text

LEMMA BarMark == "|" \in Mark /\ Nul \in Mark /\ "|" # Nul
    BY MarkAssumption DEF Written, Nul

\* A joined text is cut apart again from the front,
LEMMA SameStart ==
    ASSUME NEW S, NEW a \in Seq(S), NEW b \in Seq(S), NEW x \in Seq(S), NEW y \in Seq(S),
           a \o x = b \o y, Len(a) = Len(b)
    PROVE  a = b /\ x = y
<1>1. Len(x) = Len(y)
    BY JoinedMarks
<1>2. \A i \in 1..Len(a) : a[i] = b[i]
    <2> TAKE i \in 1..Len(a)
    <2>1. (a \o x)[i] = a[i] /\ (b \o y)[i] = b[i]
        BY JoinedMarks
    <2> QED BY <2>1
<1>3. \A i \in 1..Len(x) : x[i] = y[i]
    <2> TAKE i \in 1..Len(x)
    <2>1. (a \o x)[Len(a) + i] = x[i]
        <3> \A k \in 1..Len(x) : (a \o x)[Len(a) + k] = x[k]
            BY JoinedMarks, SMTT(60)
        <3> QED OBVIOUS
    <2>2. (b \o y)[Len(b) + i] = y[i]
        BY <1>1, JoinedMarks
    <2> QED BY <2>1, <2>2
<1> QED BY <1>1, <1>2, <1>3, SameMarks

\* A text, a bar and another text.
Barred(a, x) == a \o <<"|">> \o x

\* and from the back, at its last bar.
LEMMA LastBar ==
    ASSUME NEW a \in Seq(Mark), NEW b \in Seq(Mark), NEW x \in Tag, NEW y \in Tag,
           Barred(a, x) = Barred(b, y)
    PROVE  a = b /\ x = y
<1> DEFINE A == a \o <<"|">>
           B == b \o <<"|">>
<1>1. /\ A \in Seq(Mark) /\ Len(A) = Len(a) + 1 /\ A[Len(A)] = "|"
      /\ B \in Seq(Mark) /\ Len(B) = Len(b) + 1 /\ B[Len(B)] = "|"
    <2>1. <<"|">> \in Seq(Mark) /\ Len(<<"|">>) = 1 /\ <<"|">>[1] = "|"
        BY OneMark, BarMark
    <2>2. A \in Seq(Mark) /\ Len(A) = Len(a) + 1 /\ A[Len(a) + 1] = "|"
        BY <2>1, JoinedMarks
    <2>3. B \in Seq(Mark) /\ Len(B) = Len(b) + 1 /\ B[Len(b) + 1] = "|"
        BY <2>1, JoinedMarks
    <2> QED BY <2>2, <2>3
<1>2. /\ x \in Seq(Mark) /\ \A i \in 1..Len(x) : x[i] # "|"
      /\ y \in Seq(Mark) /\ \A i \in 1..Len(y) : y[i] # "|"
    BY DEF Tag, Text
<1>3. A \o x = B \o y
    BY DEF Barred
<1> HIDE DEF A, B
<1>4. Len(A) + Len(x) = Len(B) + Len(y)
    <2>1. Len(A \o x) = Len(A) + Len(x)
        BY <1>1, <1>2, JoinedMarks
    <2>2. Len(B \o y) = Len(B) + Len(y)
        BY <1>1, <1>2, JoinedMarks
    <2> QED BY <1>3, <2>1, <2>2
<1>5. ~(Len(A) < Len(B))
    <2> SUFFICES ASSUME Len(A) < Len(B) PROVE FALSE
        OBVIOUS
    <2>1. Len(B) - Len(A) \in 1..Len(x)
        BY <1>1, <1>2, <1>4
    <2>2. (A \o x)[Len(A) + (Len(B) - Len(A))] = x[Len(B) - Len(A)]
        BY <2>1, <1>1, <1>2, JoinedMarks, SMTT(60)
    <2>3. (B \o y)[Len(B)] = B[Len(B)]
        BY <1>1, <1>2, JoinedMarks
    <2>4. Len(A) + (Len(B) - Len(A)) = Len(B)
        BY <1>1
    <2> QED BY <1>1, <1>2, <1>3, <2>1, <2>2, <2>3, <2>4
<1>6. ~(Len(B) < Len(A))
    <2> SUFFICES ASSUME Len(B) < Len(A) PROVE FALSE
        OBVIOUS
    <2>1. Len(A) - Len(B) \in 1..Len(y)
        BY <1>1, <1>2, <1>4
    <2>2. (B \o y)[Len(B) + (Len(A) - Len(B))] = y[Len(A) - Len(B)]
        BY <2>1, <1>1, <1>2, JoinedMarks, SMTT(60)
    <2>3. (A \o x)[Len(A)] = A[Len(A)]
        BY <1>1, <1>2, JoinedMarks
    <2>4. Len(B) + (Len(A) - Len(B)) = Len(A)
        BY <1>1
    <2> QED BY <1>1, <1>2, <1>3, <2>1, <2>2, <2>3, <2>4
<1>7. Len(A) = Len(B)
    BY <1>1, <1>5, <1>6
<1>8. A = B /\ x = y
    BY <1>1, <1>2, <1>3, <1>7, SameStart
<1>9. a = b
    <2>1. Len(a) = Len(b)
        BY <1>1, <1>7
    <2>2. a \o <<"|">> = b \o <<"|">>
        BY <1>8 DEF A, B
    <2>3. <<"|">> \in Seq(Mark)
        BY OneMark, BarMark
    <2> QED BY <2>1, <2>2, <2>3, SameStart
<1> QED BY <1>8, <1>9

\* Three texts with bars between: the second bar may be put in first.
Joined(a, b) == a \o b

Bars(a, b, c) == a \o <<"|">> \o b \o <<"|">> \o c

LEMMA JoinsGroup ==
    /\ \A a, b \in Seq(Mark) : Joined(a, b) \in Seq(Mark)
    /\ \A a, b, c \in Seq(Mark) : Joined(Joined(a, b), c) = Joined(a, Joined(b, c))
    BY ConcatAssociative, JoinedMarks DEF Joined

LEMMA BarredTwice ==
    ASSUME NEW a \in Seq(Mark), NEW b \in Seq(Mark), NEW c \in Seq(Mark)
    PROVE  Bars(a, b, c) = Barred(a, Barred(b, c))
<1> DEFINE bar == <<"|">>
<1>1. bar \in Seq(Mark)
    BY OneMark, BarMark
<1> HIDE DEF bar
<1>2. Joined(Joined(Joined(Joined(a, bar), b), bar), c)
        = Joined(Joined(a, bar), Joined(Joined(b, bar), c))
    BY <1>1, JoinsGroup
<1> QED BY <1>2, Zenon DEF bar, Bars, Barred, Joined

\* Where the bar between two texts stands.
BarAt(a, x) ==
    /\ \A i \in 1..Len(a) : Barred(a, x)[i] = a[i]
    /\ Barred(a, x)[Len(a) + 1] = "|"

LEMMA BarStands ==
    ASSUME NEW a \in Seq(Mark), NEW x \in Seq(Mark)
    PROVE  BarAt(a, x) /\ Barred(a, x) \in Seq(Mark) /\ Len(Barred(a, x)) = Len(a) + 1 + Len(x)
<1>1. <<"|">> \in Seq(Mark) /\ Len(<<"|">>) = 1 /\ <<"|">>[1] = "|"
    BY OneMark, BarMark
<1>2. PICK b \in Seq(Mark) : b = a \o <<"|">>
    BY <1>1, JoinedMarks
<1>3. /\ Len(b) = Len(a) + 1 /\ b[Len(a) + 1] = "|"
      /\ \A i \in 1..Len(a) : b[i] = a[i]
    <2>1. Len(b) = Len(a) + 1 /\ \A i \in 1..Len(a) : b[i] = a[i]
        BY <1>1, <1>2, JoinedMarks
    <2>2. 1 \in 1..Len(<<"|">>)
        BY <1>1
    <2>3. b[Len(a) + 1] = "|"
        BY <1>1, <1>2, <2>2, JoinedMarks
    <2> QED BY <2>1, <2>3
<1>4. /\ b \o x \in Seq(Mark) /\ Len(b \o x) = Len(b) + Len(x)
      /\ \A i \in 1..Len(b) : (b \o x)[i] = b[i]
    BY JoinedMarks
<1>5. PICK w : w = b \o x
    OBVIOUS
<1>6. /\ w \in Seq(Mark) /\ Len(w) = Len(a) + 1 + Len(x) /\ w[Len(a) + 1] = "|"
      /\ \A i \in 1..Len(a) : w[i] = a[i]
    BY <1>3, <1>4, <1>5
<1> QED BY <1>2, <1>5, <1>6 DEF BarAt, Barred

\* A text is cut from the front at its first bar.
LEMMA FirstBar ==
    ASSUME NEW x \in Tag, NEW y \in Tag, NEW a \in Seq(Mark), NEW b \in Seq(Mark),
           Barred(x, a) = Barred(y, b)
    PROVE  x = y /\ a = b
<1>1. /\ x \in Seq(Mark) /\ \A i \in 1..Len(x) : x[i] # "|"
      /\ y \in Seq(Mark) /\ \A i \in 1..Len(y) : y[i] # "|"
    BY DEF Tag, Text
<1>2. /\ BarAt(x, a) /\ BarAt(y, b)
    BY <1>1, BarStands
<1>3. Len(x) = Len(y)
    <2>1. \A i \in 1..Len(y) : i # Len(x) + 1
        BY <1>1, <1>2 DEF BarAt
    <2>2. \A i \in 1..Len(x) : i # Len(y) + 1
        BY <1>1, <1>2 DEF BarAt
    <2>3. Len(x) \in Nat /\ Len(y) \in Nat
        BY <1>1
    <2> QED BY <2>1, <2>2, <2>3
<1>4. PICK bar \in Seq(Mark) : bar = <<"|">>
    BY OneMark, BarMark
<1>5. PICK v \in Seq(Mark), w \in Seq(Mark) : /\ v = x \o bar /\ w = y \o bar
                                              /\ Len(v) = Len(w)
    <2>1. /\ x \o bar \in Seq(Mark) /\ Len(x \o bar) = Len(x) + Len(bar)
          /\ y \o bar \in Seq(Mark) /\ Len(y \o bar) = Len(y) + Len(bar)
        BY <1>1, JoinedMarks
    <2> QED BY <1>3, <2>1
<1>6. v \o a = w \o b
    BY <1>4, <1>5 DEF Barred
<1>7. v = w /\ a = b
    <2> Len(v) = Len(w)
        BY <1>5
    <2> QED BY <1>6, SameStart
<1>8. x = y
    <2> x \o bar = y \o bar
        BY <1>5, <1>7
    <2> QED BY <1>1, <1>3, SameStart
<1> QED BY <1>7, <1>8

LEMMA TextsJoin ==
    ASSUME NEW a \in Text, NEW b \in Text
    PROVE  a \o b \in Text
<1>1. a \in Seq(Mark) /\ b \in Seq(Mark)
    BY DEF Text
<1>2. ASSUME NEW i \in 1..(Len(a) + Len(b)) PROVE (a \o b)[i] # Nul
    <2>1. CASE i <= Len(a)
        BY <2>1, <1>1, JoinedMarks DEF Text
    <2>2. CASE ~(i <= Len(a))
        <3>1. i - Len(a) \in 1..Len(b) /\ Len(a) + (i - Len(a)) = i
            BY <2>2, <1>1
        <3>2. (a \o b)[Len(a) + (i - Len(a))] = b[i - Len(a)]
            BY <3>1, <1>1, JoinedMarks
        <3> QED BY <3>1, <3>2, <1>1 DEF Text
    <2> QED BY <2>1, <2>2
<1>3. DOMAIN (a \o b) = 1..(Len(a) + Len(b)) /\ a \o b \in Seq(Mark)
    BY <1>1
<1> QED BY <1>2, <1>3 DEF Text

\* A text after a mark of the code: the mark, then the text.
LEMMA Tagged ==
    ASSUME NEW m \in Mark \ {Nul}, NEW a \in Text
    PROVE  /\ <<m>> \o a \in Text
           /\ (<<m>> \o a)[1] = m
<1>1. <<m>> \in Seq(Mark) /\ Len(<<m>>) = 1 /\ <<m>>[1] = m /\ <<m>> \in Text
    BY OneMark
<1>2. <<m>> \o a \in Text
    BY <1>1, TextsJoin
<1>3. (<<m>> \o a)[1] = m
    BY <1>1, JoinedMarks DEF Text
<1> QED BY <1>2, <1>3

LEMMA SameTagged ==
    ASSUME NEW m \in Mark, NEW a \in Text, NEW b \in Text, <<m>> \o a = <<m>> \o b
    PROVE  a = b
<1>1. <<m>> \in Seq(Mark) /\ a \in Seq(Mark) /\ b \in Seq(Mark)
    BY OneMark DEF Text
<1> QED BY <1>1, SameStart

-----------------------------------------------------------------------------
\* termKey tells the terms in play apart.

LEMMA BarredText ==
    ASSUME NEW a \in Text, NEW x \in Text
    PROVE  /\ Barred(a, x) \in Text
           /\ Len(a) > 0 => Barred(a, x)[1] = a[1] /\ Len(Barred(a, x)) > 0
<1>1. <<"|">> \in Text
    BY OneMark, BarMark
<1>2. PICK b \in Text : b = a \o <<"|">>
    BY <1>1, TextsJoin
<1>3. b \o x \in Text /\ Barred(a, x) = b \o x
    BY <1>2, TextsJoin DEF Barred
<1>4. a \in Seq(Mark) /\ b \in Seq(Mark) /\ x \in Seq(Mark) /\ <<"|">> \in Seq(Mark)
    BY <1>1 DEF Text
<1>5. Len(a) > 0 => b[1] = a[1] /\ Len(b) > 0
    BY <1>2, <1>4, JoinedMarks
<1>6. Len(b) > 0 => (b \o x)[1] = b[1] /\ Len(b \o x) > 0
    BY <1>4, JoinedMarks
<1> QED BY <1>3, <1>5, <1>6

LEMMA BarredApart ==
    ASSUME NEW a \in Text, NEW b \in Text, NEW x \in Tag, NEW y \in Tag,
           Barred(a, x) = Barred(b, y)
    PROVE  a = b /\ x = y
<1>1. a \in Seq(Mark) /\ b \in Seq(Mark)
    BY DEF Text
<1> QED BY <1>1, LastBar

Literals == [type : {"Literal"}, value : Text, lang : Tag, dir : {<<>>}, dt : Tag]

\* A literal's tag and text.
TaggedText(t) == <<"literal:">> \o t.value

LEMMA LiteralKey ==
    ASSUME NEW t \in Literals
    PROVE  /\ KeyOf(t) = Barred(Barred(Barred(TaggedText(t), t.lang), t.dir), t.dt)
           /\ TaggedText(t) \in Text
           /\ KeyOf(t) \in Text /\ KeyOf(t)[1] = "literal:"
<1>1. t.type = "Literal" /\ t.value \in Text /\ t.lang \in Tag /\ t.dir = <<>> /\ t.dt \in Tag
    BY DEF Literals
<1>2. KeyOf(t) = Barred(Barred(Barred(TaggedText(t), t.lang), t.dir), t.dt)
    BY <1>1 DEF KeyOf, PlainKey, Barred, TaggedText
<1>3. "literal:" \in Mark \ {Nul}
    BY MarkAssumption DEF Written, Nul
<1>4. /\ TaggedText(t) \in Text /\ TaggedText(t)[1] = "literal:"
    BY <1>1, <1>3, Tagged DEF TaggedText
<1>5. Len(TaggedText(t)) > 0
    <2>1. /\ <<"literal:">> \in Seq(Mark) /\ Len(<<"literal:">>) = 1
          /\ t.value \in Seq(Mark)
        BY <1>1, <1>3, OneMark DEF Text
    <2>2. Len(TaggedText(t)) = 1 + Len(t.value)
        BY <2>1, JoinedMarks DEF TaggedText
    <2> QED BY <2>1, <2>2
<1>6. t.lang \in Text /\ t.dir \in Text /\ t.dt \in Text
    BY <1>1 DEF Tag, Text
<1>7. PICK a \in Text : a = Barred(TaggedText(t), t.lang) /\ Len(a) > 0 /\ a[1] = "literal:"
    BY <1>4, <1>5, <1>6, BarredText
<1>8. PICK b \in Text : b = Barred(a, t.dir) /\ Len(b) > 0 /\ b[1] = "literal:"
    BY <1>6, <1>7, BarredText
<1>9. KeyOf(t) \in Text /\ KeyOf(t)[1] = "literal:"
    BY <1>2, <1>6, <1>7, <1>8, BarredText
<1> QED BY <1>2, <1>4, <1>9

LEMMA LiteralsApart ==
    ASSUME NEW t \in Literals, NEW u \in Literals, KeyOf(t) = KeyOf(u)
    PROVE  t = u
<1>1. /\ t.value \in Text /\ t.lang \in Tag /\ t.dir = <<>> /\ t.dt \in Tag
      /\ u.value \in Text /\ u.lang \in Tag /\ u.dir = <<>> /\ u.dt \in Tag
    BY DEF Literals
<1>2. <<>> \in Tag /\ Tag \subseteq Text
    BY DEF Tag, Text
<1>3. TaggedText(t) \in Text /\ TaggedText(u) \in Text
    BY LiteralKey
<1>4. PICK a \in Text, b \in Text : /\ a = Barred(TaggedText(t), t.lang)
                                    /\ b = Barred(TaggedText(u), u.lang)
    BY <1>1, <1>2, <1>3, BarredText
<1>5. PICK c \in Text, d \in Text : c = Barred(a, t.dir) /\ d = Barred(b, u.dir)
    BY <1>1, <1>2, BarredText
<1>6. Barred(c, t.dt) = Barred(d, u.dt)
    BY <1>4, <1>5, LiteralKey
<1>7. c = d /\ t.dt = u.dt
    BY <1>1, <1>6, BarredApart
<1>8. t.dir \in Tag /\ u.dir \in Tag
    BY <1>1, <1>2
<1>9. a = b
    BY <1>5, <1>7, <1>8, BarredApart
<1>10. TaggedText(t) = TaggedText(u) /\ t.lang = u.lang
    <2>1. Barred(TaggedText(t), t.lang) = Barred(TaggedText(u), u.lang)
        BY <1>4, <1>9
    <2> QED BY <1>1, <1>3, <2>1, BarredApart
<1>11. t.value = u.value
    <2>1. "literal:" \in Mark
        BY MarkAssumption DEF Written
    <2> QED BY <1>1, <1>10, <2>1, SameTagged DEF TaggedText
<1> QED BY <1>1, <1>7, <1>10, <1>11 DEF Literals

Names == [type : {"NamedNode", "BlankNode"}, value : Text]

LEMMA Kinds ==
    ASSUME NEW t \in Terms
    PROVE  /\ t.type \in {"NamedNode", "BlankNode"} => t \in Names
           /\ t.type = "DefaultGraph" => t = [type |-> "DefaultGraph"]
           /\ t.type = "Literal" => t \in Literals /\ (t.lang # <<>> => t.dt = <<"langString">>)
           /\ t.type = "Quad" => TripleOver(t, Terms)
           /\ t.type \in {"NamedNode", "BlankNode", "DefaultGraph", "Literal", "Quad"}
<1>1. PlainTerm(t) \/ TripleOver(t, Terms)
    BY QuadsAssumption
<1>2. CASE t \in Names
    <2> t.type \in {"NamedNode", "BlankNode"}
        BY <1>2 DEF Names
    <2> QED BY <1>2
<1>3. CASE t = [type |-> "DefaultGraph"]
    <2> t.type = "DefaultGraph"
        BY <1>3
    <2> QED BY <1>3
<1>4. CASE t \in Literals /\ (t.lang # <<>> => t.dt = <<"langString">>)
    <2> t.type = "Literal"
        BY <1>4 DEF Literals
    <2> QED BY <1>4
<1>5. CASE TripleOver(t, Terms)
    <2> t.type = "Quad"
        BY <1>5 DEF TripleOver
    <2> QED BY <1>5
<1> QED BY <1>1, <1>2, <1>3, <1>4, <1>5 DEF PlainTerm, Names, Literals

Triples == {t \in Terms : t.type = "Quad"}

LEMMA Inside ==
    ASSUME NEW t \in Triples
    PROVE  /\ t = [type |-> "Quad", s |-> t.s, p |-> t.p, o |-> t.o]
           /\ t.s \in Terms \cap BarFree /\ t.p \in Terms \cap BarFree /\ t.o \in Terms
           /\ t.s \notin Triples /\ t.p \notin Triples
<1>1. TripleOver(t, Terms)
    BY Kinds DEF Triples
<1>2. \A n \in BarFree : n.type # "Quad"
    BY DEF BarFree
<1> QED BY <1>1, <1>2 DEF TripleOver, Triples

\* The key of a plain term: the tag of its kind, and a text after it.
LEMMA PlainKeyShape ==
    ASSUME NEW t \in Terms, t.type # "Quad"
    PROVE  /\ KeyOf(t) \in Text
           /\ t.type = "NamedNode" => KeyOf(t)[1] = "uri:"
           /\ t.type = "BlankNode" => KeyOf(t)[1] = "bnode:"
           /\ t.type = "DefaultGraph" => KeyOf(t)[1] = "default"
           /\ t.type = "Literal" => KeyOf(t)[1] = "literal:"
<1>1. {"uri:", "bnode:", "default", "literal:", "|"} \subseteq Mark \ {Nul}
    BY MarkAssumption DEF Written, Nul
<1>2. CASE t.type = "NamedNode"
    <2>1. KeyOf(t) = <<"uri:">> \o t.value /\ t.value \in Text
        BY <1>2, Kinds DEF KeyOf, PlainKey, Names
    <2> QED BY <1>1, <1>2, <2>1, Tagged
<1>3. CASE t.type = "BlankNode"
    <2>1. KeyOf(t) = <<"bnode:">> \o t.value /\ t.value \in Text
        BY <1>3, Kinds DEF KeyOf, PlainKey, Names
    <2> QED BY <1>1, <1>3, <2>1, Tagged
<1>4. CASE t.type = "DefaultGraph"
    <2>1. KeyOf(t) = <<"default">>
        BY <1>4 DEF KeyOf, PlainKey
    <2> QED BY <1>1, <1>4, <2>1, OneMark
<1>5. CASE t.type = "Literal"
    BY <1>5, Kinds, LiteralKey
<1> QED BY <1>2, <1>3, <1>4, <1>5, Kinds

\* The key of a name without a bar has none.
LEMMA BarFreeKey ==
    ASSUME NEW n \in BarFree
    PROVE  KeyOf(n) \in Tag
<1>1. PICK m \in Mark \ {Nul, "|"} : KeyOf(n) = <<m>> \o n.value
    <2>1. {"uri:", "bnode:"} \subseteq Mark \ {Nul, "|"}
        BY MarkAssumption DEF Written, Nul
    <2>2. n.type = "NamedNode" \/ n.type = "BlankNode"
        BY DEF BarFree
    <2>3. CASE n.type = "NamedNode"
        BY <2>1, <2>3 DEF KeyOf, PlainKey
    <2>4. CASE n.type = "BlankNode"
        BY <2>1, <2>4 DEF KeyOf, PlainKey
    <2> QED BY <2>2, <2>3, <2>4
<1>2. n.value \in Tag /\ n.value \in Text
    BY DEF BarFree, Tag
<1>3. PICK k \in Text : k = <<m>> \o n.value
    BY <1>2, Tagged
<1>4. \A i \in 1..Len(k) : k[i] # "|"
    <2>1. /\ <<m>> \in Seq(Mark) /\ Len(<<m>>) = 1 /\ <<m>>[1] = m
          /\ n.value \in Seq(Mark) /\ \A i \in 1..Len(n.value) : n.value[i] # "|"
        BY <1>2, OneMark DEF Tag, Text
    <2>2. /\ Len(k) = 1 + Len(n.value) /\ k[1] = m
          /\ \A i \in 1..Len(n.value) : k[1 + i] = n.value[i]
        BY <1>3, <2>1, JoinedMarks
    <2>3. TAKE i \in 1..Len(k)
    <2>4. CASE i = 1
        BY <2>2, <2>4
    <2>5. CASE i # 1
        <3>1. i - 1 \in 1..Len(n.value) /\ 1 + (i - 1) = i
            BY <2>1, <2>2, <2>5
        <3> QED BY <2>1, <2>2, <3>1
    <2> QED BY <2>4, <2>5
<1>5. DOMAIN k = 1..Len(k)
    BY DEF Text
<1>6. k \in Tag
    BY <1>4, <1>5 DEF Tag
<1> QED BY <1>1, <1>3, <1>6

-----------------------------------------------------------------------------
\* Triple terms hold triple terms: what is said of all of them is proved by the
\* length of their keys.

LEMMA LeastOf ==
    ASSUME NEW N \in SUBSET Nat, N # {}
    PROVE  \E n \in N : \A m \in N : n <= m
<1> DEFINE Less == {ss \in Nat \X Nat : ss[1] < ss[2]}
<1>1. IsWellFoundedOn(Less, Nat)
    BY NatLessThanWellFounded DEF OpToRel
<1>2. \A n, m \in Nat : m < n => <<m, n>> \in Less
    OBVIOUS
<1> HIDE DEF Less
<1>3. PICK n \in N : \A m \in N : ~(<<m, n>> \in Less)
    BY <1>1, WFMin
<1>4. \A m \in N : ~(m < n)
    BY <1>2, <1>3, Zenon
<1> QED BY <1>4

\* The key of a triple term: a tag, and the keys of its terms with bars between.
LEMMA TripleKey ==
    ASSUME NEW t \in Triples
    PROVE  /\ KeyOf(t) = <<"quad:">> \o Barred(KeyOf(t.s), Barred(KeyOf(t.p), KeyOf(t.o)))
           /\ KeyOf(t.s) \in Tag /\ KeyOf(t.p) \in Tag /\ KeyOf(t.o) \in Seq(Mark)
           /\ KeyOf(t) \in Seq(Mark) /\ Len(KeyOf(t)) > Len(KeyOf(t.o))
<1>1. /\ t.type = "Quad"
      /\ TripleText(t) \in Seq(Mark)
      /\ TripleText(t) = KeyOf(t.s) \o <<"|">> \o KeyOf(t.p) \o <<"|">> \o KeyOf(t.o)
    BY TripleAssumption DEF Triples
<1>2. KeyOf(t) = <<"quad:">> \o TripleText(t)
    BY <1>1 DEF KeyOf
<1>3. KeyOf(t.s) \in Tag /\ KeyOf(t.p) \in Tag
    BY Inside, BarFreeKey
<1>4. KeyOf(t.o) \in Seq(Mark)
    <2>1. CASE t.o \in Triples
        <3>1. KeyOf(t.o) = <<"quad:">> \o TripleText(t.o) /\ TripleText(t.o) \in Seq(Mark)
            BY <2>1, TripleAssumption DEF KeyOf, Triples
        <3>2. <<"quad:">> \in Seq(Mark)
            BY MarkAssumption DEF Written
        <3> QED BY <3>1, <3>2
    <2>2. CASE t.o \notin Triples
        BY <2>2, Inside, PlainKeyShape DEF Triples, Text
    <2> QED BY <2>1, <2>2
<1>5. PICK a \in Seq(Mark), b \in Seq(Mark), c \in Seq(Mark) :
        a = KeyOf(t.s) /\ b = KeyOf(t.p) /\ c = KeyOf(t.o)
    BY <1>3, <1>4 DEF Tag, Text
<1>6. TripleText(t) = Barred(a, Barred(b, c))
    <2>1. TripleText(t) = Bars(KeyOf(t.s), KeyOf(t.p), KeyOf(t.o))
        BY <1>1, Zenon DEF Bars
    <2>2. Bars(a, b, c) = Barred(a, Barred(b, c))
        BY BarredTwice
    <2> QED BY <1>5, <2>1, <2>2, Zenon
<1>7. Len(KeyOf(t)) > Len(c) /\ KeyOf(t) \in Seq(Mark)
    <2>1. PICK d \in Seq(Mark) : d = Barred(b, c) /\ Len(d) = Len(b) + 1 + Len(c)
        BY BarStands
    <2>2. Len(TripleText(t)) = Len(a) + 1 + Len(d)
        <3> Len(Barred(a, d)) = Len(a) + 1 + Len(d)
            BY BarStands
        <3> QED BY <1>6, <2>1
    <2>3. <<"quad:">> \in Seq(Mark) /\ Len(<<"quad:">>) = 1
        BY MarkAssumption DEF Written
    <2>4. KeyOf(t) \in Seq(Mark) /\ Len(KeyOf(t)) = 1 + Len(TripleText(t))
        BY <1>1, <1>2, <2>3, JoinedMarks
    <2> QED BY <2>1, <2>2, <2>4
<1> QED BY <1>2, <1>3, <1>4, <1>5, <1>6, <1>7

\* Of triple terms of some kind, one has an object that is not of that kind.
LEMMA SmallestTriple ==
    ASSUME NEW B \in SUBSET Triples, B # {}
    PROVE  \E t \in B : t.o \notin B
<1> DEFINE N == {Len(KeyOf(t)) : t \in B}
<1>1. \A t \in B : Len(KeyOf(t)) \in Nat /\ Len(KeyOf(t.o)) < Len(KeyOf(t))
    <2> TAKE t \in B
    <2> KeyOf(t) \in Seq(Mark) /\ KeyOf(t.o) \in Seq(Mark) /\ Len(KeyOf(t)) > Len(KeyOf(t.o))
        BY TripleKey
    <2> QED OBVIOUS
<1>2. N \in SUBSET Nat /\ N # {}
    BY <1>1
<1>3. PICK n \in N : \A m \in N : n <= m
    <2> HIDE DEF N
    <2> QED BY <1>2, LeastOf
<1>4. PICK t \in B : n = Len(KeyOf(t))
    OBVIOUS
<1>5. ASSUME t.o \in B PROVE FALSE
    <2>1. n <= Len(KeyOf(t.o)) /\ Len(KeyOf(t.o)) \in Nat /\ n \in Nat
        BY <1>1, <1>3, <1>4, <1>5
    <2> QED BY <1>1, <1>4, <2>1
<1> QED BY <1>5

\* The key of a term starts with the tag of its kind; the rest is a text.
LEMMA KeyShape ==
    ASSUME NEW t \in Terms
    PROVE  /\ KeyOf(t) \in Text
           /\ t.type = "NamedNode" => KeyOf(t)[1] = "uri:"
           /\ t.type = "BlankNode" => KeyOf(t)[1] = "bnode:"
           /\ t.type = "DefaultGraph" => KeyOf(t)[1] = "default"
           /\ t.type = "Literal" => KeyOf(t)[1] = "literal:"
           /\ t.type = "Quad" => KeyOf(t)[1] = "quad:"
<1>1. "quad:" \in Mark \ {Nul}
    BY MarkAssumption DEF Written, Nul
<1> DEFINE B == {u \in Triples : KeyOf(u) \notin Text}
<1>2. B = {}
    <2> SUFFICES ASSUME B # {} PROVE FALSE
        OBVIOUS
    <2>1. PICK u \in B : u.o \notin B
        BY SmallestTriple
    <2>2. KeyOf(u.o) \in Text
        <3>1. CASE u.o \in Triples
            BY <2>1, <3>1
        <3>2. CASE u.o \notin Triples
            BY <3>2, Inside, PlainKeyShape DEF Triples
        <3> QED BY <3>1, <3>2
    <2>3. KeyOf(u.s) \in Text /\ KeyOf(u.p) \in Text
        BY TripleKey DEF Tag
    <2>4. Barred(KeyOf(u.s), Barred(KeyOf(u.p), KeyOf(u.o))) \in Text
        BY <2>2, <2>3, BarredText
    <2>5. KeyOf(u) \in Text
        BY <1>1, <2>4, Tagged, TripleKey
    <2> QED BY <2>5
<1>3. CASE t \in Triples
    <2>1. KeyOf(t) \in Text /\ t.type = "Quad"
        BY <1>2, <1>3 DEF Triples
    <2>2. TripleText(t) \in Seq(Mark) /\ KeyOf(t) = <<"quad:">> \o TripleText(t)
        BY <1>3, <2>1, TripleAssumption DEF KeyOf, Triples
    <2>3. KeyOf(t)[1] = "quad:"
        <3> <<"quad:">> \in Seq(Mark) /\ Len(<<"quad:">>) = 1 /\ <<"quad:">>[1] = "quad:"
            BY <1>1, OneMark
        <3> QED BY <2>2, JoinedMarks
    <2> QED BY <2>1, <2>3
<1>4. CASE t \notin Triples
    BY <1>4, PlainKeyShape DEF Triples
<1> QED BY <1>3, <1>4

LEMMA SameKind ==
    ASSUME NEW t \in Terms, NEW u \in Terms, KeyOf(t) = KeyOf(u)
    PROVE  t.type = u.type
<1> KeyOf(t)[1] = KeyOf(u)[1]
    OBVIOUS
<1> QED BY KeyShape, Kinds

LEMMA PlainTermsApart ==
    ASSUME NEW t \in Terms, NEW u \in Terms, KeyOf(t) = KeyOf(u), t.type # "Quad"
    PROVE  t = u
<1>1. t.type = u.type
    BY SameKind
<1>2. {"uri:", "bnode:"} \subseteq Mark
    BY MarkAssumption DEF Written
<1>5. CASE t.type = "NamedNode"
    <2>1. t \in Names /\ u \in Names /\ t.value \in Text /\ u.value \in Text
        BY <1>1, <1>5, Kinds DEF Names
    <2>2. <<"uri:">> \o t.value = <<"uri:">> \o u.value
        BY <1>1, <1>5 DEF KeyOf, PlainKey
    <2>3. t.value = u.value
        BY <1>2, <2>1, <2>2, SameTagged
    <2> QED BY <1>1, <2>1, <2>3 DEF Names
<1>6. CASE t.type = "BlankNode"
    <2>1. t \in Names /\ u \in Names /\ t.value \in Text /\ u.value \in Text
        BY <1>1, <1>6, Kinds DEF Names
    <2>2. <<"bnode:">> \o t.value = <<"bnode:">> \o u.value
        BY <1>1, <1>6 DEF KeyOf, PlainKey
    <2>3. t.value = u.value
        BY <1>2, <2>1, <2>2, SameTagged
    <2> QED BY <1>1, <2>1, <2>3 DEF Names
<1>7. CASE t.type = "DefaultGraph"
    BY <1>1, <1>7, Kinds
<1>8. CASE t.type = "Literal"
    <2>1. t \in Literals /\ u \in Literals
        BY <1>1, <1>8, Kinds
    <2> QED BY <2>1, LiteralsApart
<1> QED BY <1>5, <1>6, <1>7, <1>8, Kinds

\* Two triple terms with one key: the keys of their terms are the same.
LEMMA TripleKeysCut ==
    ASSUME NEW t \in Triples, NEW u \in Triples, KeyOf(t) = KeyOf(u)
    PROVE  KeyOf(t.s) = KeyOf(u.s) /\ KeyOf(t.p) = KeyOf(u.p) /\ KeyOf(t.o) = KeyOf(u.o)
<1>1. PICK a \in Tag, b \in Tag, c \in Seq(Mark) :
        /\ a = KeyOf(t.s) /\ b = KeyOf(t.p) /\ c = KeyOf(t.o)
        /\ KeyOf(t) = <<"quad:">> \o Barred(a, Barred(b, c))
    BY TripleKey
<1>2. PICK x \in Tag, y \in Tag, z \in Seq(Mark) :
        /\ x = KeyOf(u.s) /\ y = KeyOf(u.p) /\ z = KeyOf(u.o)
        /\ KeyOf(u) = <<"quad:">> \o Barred(x, Barred(y, z))
    BY TripleKey
<1>3. a \in Seq(Mark) /\ b \in Seq(Mark) /\ x \in Seq(Mark) /\ y \in Seq(Mark)
    BY DEF Tag, Text
<1>4. PICK v \in Seq(Mark), w \in Seq(Mark) : v = Barred(b, c) /\ w = Barred(y, z)
    BY <1>3, BarStands
<1>5. PICK f \in Seq(Mark), g \in Seq(Mark) : f = Barred(a, v) /\ g = Barred(x, w)
    BY <1>3, BarStands
<1>6. <<"quad:">> \o f = <<"quad:">> \o g
    BY <1>1, <1>2, <1>4, <1>5
<1>7. f = g
    <2> <<"quad:">> \in Seq(Mark)
        BY MarkAssumption DEF Written
    <2> QED BY <1>6, SameStart
<1>8. a = x /\ v = w
    <2> Barred(a, v) = Barred(x, w)
        BY <1>5, <1>7
    <2> QED BY FirstBar
<1>9. b = y /\ c = z
    <2> Barred(b, c) = Barred(y, z)
        BY <1>4, <1>8
    <2> QED BY FirstBar
<1> QED BY <1>1, <1>2, <1>8, <1>9

\* termKey gives two terms one key only if they are one term, whatever the texts
\* of literals imitate, with triple terms in the objects of triple terms to any
\* depth.  The terms are those of QuadsAssumption: in a triple term the subject
\* and the predicate are names without "|".
THEOREM KeysTellTermsApart ==
    ASSUME NEW t \in Terms, NEW u \in Terms, KeyOf(t) = KeyOf(u)
    PROVE  t = u
<1> DEFINE B == {x \in Triples : \E y \in Terms : KeyOf(x) = KeyOf(y) /\ x # y}
<1>1. B = {}
    <2> SUFFICES ASSUME B # {} PROVE FALSE
        OBVIOUS
    <2>1. PICK x \in B : x.o \notin B
        BY SmallestTriple
    <2>2. PICK y \in Terms : KeyOf(x) = KeyOf(y) /\ x # y
        OBVIOUS
    <2>3. x \in Triples /\ y \in Triples
        BY <2>2, SameKind DEF Triples
    <2>4. /\ KeyOf(x.s) = KeyOf(y.s) /\ KeyOf(x.p) = KeyOf(y.p)
          /\ KeyOf(x.o) = KeyOf(y.o)
        BY <2>2, <2>3, TripleKeysCut
    <2> HIDE DEF B
    <2>5. x.s = y.s /\ x.p = y.p
        BY <2>3, <2>4, Inside, PlainTermsApart DEF Triples
    <2>6. x.o = y.o
        <3>1. CASE x.o \in Triples
            <4> USE DEF B
            <4> QED BY <2>1, <2>3, <2>4, <3>1, Inside
        <3>2. CASE x.o \notin Triples
            BY <2>3, <2>4, <3>2, Inside, PlainTermsApart DEF Triples
        <3> QED BY <3>1, <3>2
    <2>7. x = y
        BY <2>3, <2>5, <2>6, Inside
    <2> QED BY <2>2, <2>7
<1>2. CASE t \in Triples
    BY <1>1, <1>2
<1>3. CASE t \notin Triples
    BY <1>3, PlainTermsApart DEF Triples
<1> QED BY <1>2, <1>3

-----------------------------------------------------------------------------
\* The record of a term in play, and so the payload of a quad, can be read back.

LEMMA PlainRecordReadBack ==
    ASSUME NEW t \in Terms, t.type # "Quad"
    PROVE  FromRecord(RecordOf(t)) = t
<1>1. CASE t.type = "NamedNode"
    <2>1. t \in Names
        BY <1>1, Kinds
    <2>2. RecordOf(t) = [t |-> "N", v |-> t.value]
        BY <1>1 DEF RecordOf, PlainRecord
    <2>3. FromRecord(RecordOf(t)) = [type |-> "NamedNode", value |-> t.value]
        BY <2>2 DEF FromRecord, FromPlainRecord
    <2> QED BY <1>1, <2>1, <2>3 DEF Names
<1>2. CASE t.type = "BlankNode"
    <2>1. t \in Names
        BY <1>2, Kinds
    <2>2. RecordOf(t) = [t |-> "B", v |-> t.value]
        BY <1>2 DEF RecordOf, PlainRecord
    <2>3. FromRecord(RecordOf(t)) = [type |-> "BlankNode", value |-> t.value]
        BY <2>2 DEF FromRecord, FromPlainRecord
    <2> QED BY <1>2, <2>1, <2>3 DEF Names
<1>3. CASE t.type = "DefaultGraph"
    <2>1. RecordOf(t) = [t |-> "D"]
        BY <1>3 DEF RecordOf, PlainRecord
    <2>2. FromRecord(RecordOf(t)) = [type |-> "DefaultGraph"]
        BY <2>1 DEF FromRecord, FromPlainRecord
    <2> QED BY <1>3, <2>2, Kinds
<1>4. CASE t.type = "Literal"
    <2>1. t \in Literals /\ (t.lang # <<>> => t.dt = <<"langString">>)
        BY <1>4, Kinds
    <2>2. RecordOf(t) = [t |-> "L", v |-> t.value, lang |-> t.lang, dt |-> t.dt]
        BY <1>4 DEF RecordOf, PlainRecord
    <2>3. FromRecord(RecordOf(t)) =
            [type |-> "Literal", value |-> t.value, lang |-> t.lang, dir |-> <<>>,
             dt |-> IF t.lang = <<>> THEN t.dt ELSE <<"langString">>]
        BY <2>2 DEF FromRecord, FromPlainRecord
    <2>4. (IF t.lang = <<>> THEN t.dt ELSE <<"langString">>) = t.dt
        BY <2>1
    <2>5. t.type = "Literal" /\ t.dir = <<>>
        BY <1>4, <2>1 DEF Literals
    <2> QED BY <2>1, <2>3, <2>4, <2>5 DEF Literals
<1> QED BY <1>1, <1>2, <1>3, <1>4, Kinds

LEMMA RecordReadBack ==
    ASSUME NEW t \in Terms
    PROVE  FromRecord(RecordOf(t)) = t
<1> DEFINE B == {x \in Triples : FromRecord(RecordOf(x)) # x}
<1>1. B = {}
    <2> SUFFICES ASSUME B # {} PROVE FALSE
        OBVIOUS
    <2>1. PICK x \in B : x.o \notin B
        BY SmallestTriple
    <2>2. x \in Triples /\ FromRecord(RecordOf(x)) # x
        OBVIOUS
    <2>3. PICK r : r = TripleRecord(x)
        OBVIOUS
    <2>4. /\ r = [t |-> "Q", s |-> RecordOf(x.s), p |-> RecordOf(x.p), o |-> RecordOf(x.o)]
          /\ FromTriple(r) = [type |-> "Quad", s |-> FromRecord(r.s),
                              p |-> FromRecord(r.p), o |-> FromRecord(r.o)]
        BY <2>2, <2>3, TripleAssumption DEF Triples
    <2>5. FromRecord(RecordOf(x.o)) = x.o
        <3>1. CASE x.o \in Triples
            BY <2>1, <3>1
        <3>2. CASE x.o \notin Triples
            BY <2>2, <3>2, Inside, PlainRecordReadBack DEF Triples
        <3> QED BY <3>1, <3>2
    <2> HIDE DEF B
    <2>6. FromRecord(RecordOf(x.s)) = x.s /\ FromRecord(RecordOf(x.p)) = x.p
        BY <2>2, Inside, PlainRecordReadBack DEF Triples
    <2>7. FromTriple(r) = x
        <3>1. r.s = RecordOf(x.s) /\ r.p = RecordOf(x.p) /\ r.o = RecordOf(x.o)
            BY <2>4
        <3>2. FromTriple(r) = [type |-> "Quad", s |-> x.s, p |-> x.p, o |-> x.o]
            BY <2>4, <2>5, <2>6, <3>1
        <3> QED BY <2>2, <3>2, Inside
    <2>8. RecordOf(x) = r /\ r.t = "Q"
        BY <2>2, <2>3, <2>4 DEF RecordOf, Triples
    <2>9. FromRecord(r) = FromTriple(r)
        BY <2>8 DEF FromRecord
    <2> QED BY <2>2, <2>7, <2>8, <2>9
<1>2. CASE t \in Triples
    BY <1>1, <1>2
<1>3. CASE t \notin Triples
    BY <1>3, PlainRecordReadBack DEF Triples
<1> QED BY <1>2, <1>3

LEMMA QuadFields ==
    ASSUME NEW q \in Quads
    PROVE  /\ q.s \in Terms /\ q.p \in Terms /\ q.o \in Terms /\ q.g \in Terms
           /\ q = [s |-> q.s, p |-> q.p, o |-> q.o, g |-> q.g]
    BY QuadsAssumption

LEMMA PayloadReadBack ==
    ASSUME NEW q \in Quads
    PROVE  QuadFrom(Payload(q)) = q
    BY QuadFields, RecordReadBack DEF QuadFrom, Payload

LEMMA KeysTellQuadsApart ==
    ASSUME NEW q \in Quads, NEW r \in Quads, QuadKeyFor(q) = QuadKeyFor(r)
    PROVE  q = r
<1>1. /\ KeyOf(q.s) = KeyOf(r.s) /\ KeyOf(q.p) = KeyOf(r.p)
      /\ KeyOf(q.o) = KeyOf(r.o) /\ KeyOf(q.g) = KeyOf(r.g)
    BY DEF QuadKeyFor
<1>2. q.s = r.s /\ q.p = r.p /\ q.o = r.o /\ q.g = r.g
    BY <1>1, QuadFields, KeysTellTermsApart
<1> QED BY <1>2, QuadFields

-----------------------------------------------------------------------------
\* Splitting a joined key gives the four keys back.

LEMMA NextCutIs ==
    ASSUME NEW s \in Seq(Mark), NEW n \in 0..Len(s), NEW m \in (n + 1)..(Len(s) + 1),
           \A i \in (n + 1)..(m - 1) : s[i] # Nul,
           m = Len(s) + 1 \/ s[m] = Nul
    PROVE  NextCut(s, n) = m
<1> DEFINE C == {i \in (n + 1)..Len(s) : s[i] = Nul} \cup {Len(s) + 1}
<1>1. m \in C /\ C \subseteq Int
    OBVIOUS
<1>2. \A i \in C : m <= i
    OBVIOUS
<1>3. \A k \in C : (\A i \in C : k <= i) => k = m
    BY <1>1, <1>2
<1>4. Min(C) = m
    <2> HIDE DEF C
    <2> QED BY <1>1, <1>2, <1>3 DEF Min
<1> QED BY <1>4 DEF NextCut

LEMMA PieceIs ==
    ASSUME NEW s \in Seq(Mark), NEW n \in 0..Len(s), NEW x \in Text,
           n + Len(x) <= Len(s),
           \A i \in 1..Len(x) : s[n + i] = x[i],
           n + Len(x) = Len(s) \/ s[n + Len(x) + 1] = Nul
    PROVE  /\ NextCut(s, n) = n + Len(x) + 1
           /\ SubSeq(s, n + 1, n + Len(x)) = x
<1>1. x \in Seq(Mark) /\ \A i \in 1..Len(x) : x[i] # Nul
    BY DEF Text
<1>2. \A j \in (n + 1)..(n + Len(x)) : s[j] # Nul
    <2> TAKE j \in (n + 1)..(n + Len(x))
    <2>1. j - n \in 1..Len(x) /\ n + (j - n) = j
        BY <1>1
    <2> QED BY <1>1, <2>1
<1>3. NextCut(s, n) = n + Len(x) + 1
    <2>1. /\ n + Len(x) + 1 \in (n + 1)..(Len(s) + 1)
          /\ (n + Len(x) + 1) - 1 = n + Len(x)
          /\ n + Len(x) + 1 = Len(s) + 1 \/ s[n + Len(x) + 1] = Nul
        BY <1>1
    <2>2. \A i \in (n + 1)..((n + Len(x) + 1) - 1) : s[i] # Nul
        BY <1>2, <2>1
    <2> QED BY <2>1, <2>2, NextCutIs
<1>4. SubSeq(s, n + 1, n + Len(x)) = x
    <2> DEFINE w == SubSeq(s, n + 1, n + Len(x))
    <2>1. w \in Seq(Mark) /\ Len(w) = Len(x)
        BY <1>1
    <2>2. \A i \in 1..Len(x) : w[i] = s[n + i]
        BY <1>1
    <2> HIDE DEF w
    <2>3. w = x
        BY <1>1, <2>1, <2>2, SameMarks
    <2> QED BY <2>3 DEF w
<1> QED BY <1>3, <1>4

LEMMA NulJoined ==
    ASSUME NEW a \in Seq(Mark), NEW x \in Seq(Mark)
    PROVE  \E w \in Seq(Mark) :
              /\ w = a \o <<Nul>> \o x /\ Len(w) = Len(a) + 1 + Len(x)
              /\ \A i \in 1..Len(a) : w[i] = a[i]
              /\ w[Len(a) + 1] = Nul
              /\ \A i \in 1..Len(x) : w[Len(a) + 1 + i] = x[i]
<1>1. <<Nul>> \in Seq(Mark) /\ Len(<<Nul>>) = 1 /\ <<Nul>>[1] = Nul
    BY OneMark, BarMark
<1>2. PICK b \in Seq(Mark) : /\ b = a \o <<Nul>> /\ Len(b) = Len(a) + 1 /\ b[Len(a) + 1] = Nul
                            /\ \A i \in 1..Len(a) : b[i] = a[i]
    <2>1. a \o <<Nul>> \in Seq(Mark) /\ Len(a \o <<Nul>>) = Len(a) + 1
        BY <1>1, JoinedMarks
    <2>2. \A i \in 1..Len(a) : (a \o <<Nul>>)[i] = a[i]
        BY <1>1, JoinedMarks
    <2>3. (a \o <<Nul>>)[Len(a) + 1] = Nul
        <3>1. 1 \in 1..Len(<<Nul>>)
            BY <1>1
        <3> QED BY <1>1, <3>1, JoinedMarks
    <2> QED BY <2>1, <2>2, <2>3
<1>3. /\ b \o x \in Seq(Mark) /\ Len(b \o x) = Len(b) + Len(x)
      /\ \A i \in 1..Len(b) : (b \o x)[i] = b[i]
      /\ \A i \in 1..Len(x) : (b \o x)[Len(b) + i] = x[i]
    BY JoinedMarks
<1>4. PICK w : w = b \o x
    OBVIOUS
<1>5. /\ w \in Seq(Mark) /\ Len(w) = Len(a) + 1 + Len(x)
      /\ \A i \in 1..Len(a) : w[i] = a[i]
      /\ w[Len(a) + 1] = Nul
      /\ \A i \in 1..Len(x) : w[Len(a) + 1 + i] = x[i]
    BY <1>2, <1>3, <1>4
<1> QED BY <1>2, <1>4, <1>5

LEMMA SplitUndoesJoin ==
    ASSUME NEW a \in Text, NEW b \in Text, NEW c \in Text, NEW d \in Text
    PROVE  SplitKey(a \o <<Nul>> \o b \o <<Nul>> \o c \o <<Nul>> \o d) = <<a, b, c, d>>
<1>1. a \in Seq(Mark) /\ b \in Seq(Mark) /\ c \in Seq(Mark) /\ d \in Seq(Mark)
    BY DEF Text
<1>2. PICK v \in Seq(Mark) :
        /\ v = a \o <<Nul>> \o b /\ Len(v) = Len(a) + 1 + Len(b)
        /\ \A i \in 1..Len(a) : v[i] = a[i]
        /\ v[Len(a) + 1] = Nul
        /\ \A i \in 1..Len(b) : v[Len(a) + 1 + i] = b[i]
    BY <1>1, NulJoined
<1>3. PICK w \in Seq(Mark) :
        /\ w = v \o <<Nul>> \o c /\ Len(w) = Len(v) + 1 + Len(c)
        /\ \A i \in 1..Len(v) : w[i] = v[i]
        /\ w[Len(v) + 1] = Nul
        /\ \A i \in 1..Len(c) : w[Len(v) + 1 + i] = c[i]
    BY <1>1, NulJoined
<1>4. PICK s \in Seq(Mark) :
        /\ s = w \o <<Nul>> \o d /\ Len(s) = Len(w) + 1 + Len(d)
        /\ \A i \in 1..Len(w) : s[i] = w[i]
        /\ s[Len(w) + 1] = Nul
        /\ \A i \in 1..Len(d) : s[Len(w) + 1 + i] = d[i]
    BY <1>1, NulJoined
<1>5. NextCut(s, 0) = Len(a) + 1 /\ SubSeq(s, 1, Len(a)) = a
    <2>1. \A i \in 1..Len(a) : s[0 + i] = a[i]
        BY <1>1, <1>2, <1>3, <1>4, SMTT(60)
    <2>2. s[0 + Len(a) + 1] = Nul
        BY <1>1, <1>2, <1>3, <1>4
    <2>3. 0 + Len(a) <= Len(s) /\ 0 \in 0..Len(s)
        BY <1>1, <1>2, <1>3, <1>4
    <2>4. NextCut(s, 0) = 0 + Len(a) + 1 /\ SubSeq(s, 0 + 1, 0 + Len(a)) = a
        BY <2>1, <2>2, <2>3, PieceIs
    <2> QED BY <1>1, <2>4
<1>6. NextCut(s, Len(a) + 1) = Len(v) + 1 /\ SubSeq(s, Len(a) + 1 + 1, Len(v)) = b
    <2>1. \A i \in 1..Len(b) : s[(Len(a) + 1) + i] = b[i]
        BY <1>1, <1>2, <1>3, <1>4, SMTT(60)
    <2>2. s[(Len(a) + 1) + Len(b) + 1] = Nul
        BY <1>1, <1>2, <1>3, <1>4
    <2>3. (Len(a) + 1) + Len(b) <= Len(s) /\ Len(a) + 1 \in 0..Len(s)
        BY <1>1, <1>2, <1>3, <1>4
    <2>4. /\ NextCut(s, Len(a) + 1) = (Len(a) + 1) + Len(b) + 1
          /\ SubSeq(s, (Len(a) + 1) + 1, (Len(a) + 1) + Len(b)) = b
        BY <2>1, <2>2, <2>3, PieceIs
    <2> QED BY <1>1, <1>2, <2>4
<1>7. NextCut(s, Len(v) + 1) = Len(w) + 1 /\ SubSeq(s, Len(v) + 1 + 1, Len(w)) = c
    <2>1. \A i \in 1..Len(c) : s[(Len(v) + 1) + i] = c[i]
        BY <1>1, <1>3, <1>4, SMTT(60)
    <2>2. s[(Len(v) + 1) + Len(c) + 1] = Nul
        BY <1>1, <1>3, <1>4
    <2>3. (Len(v) + 1) + Len(c) <= Len(s) /\ Len(v) + 1 \in 0..Len(s)
        BY <1>1, <1>3, <1>4
    <2>4. /\ NextCut(s, Len(v) + 1) = (Len(v) + 1) + Len(c) + 1
          /\ SubSeq(s, (Len(v) + 1) + 1, (Len(v) + 1) + Len(c)) = c
        BY <2>1, <2>2, <2>3, PieceIs
    <2> QED BY <1>1, <1>3, <2>4
<1>8. NextCut(s, Len(w) + 1) = Len(s) + 1 /\ SubSeq(s, Len(w) + 1 + 1, Len(s)) = d
    <2>1. \A i \in 1..Len(d) : s[(Len(w) + 1) + i] = d[i]
        BY <1>4
    <2>2. (Len(w) + 1) + Len(d) = Len(s) /\ Len(w) + 1 \in 0..Len(s)
        BY <1>1, <1>4
    <2>3. /\ NextCut(s, Len(w) + 1) = (Len(w) + 1) + Len(d) + 1
          /\ SubSeq(s, (Len(w) + 1) + 1, (Len(w) + 1) + Len(d)) = d
        BY <2>1, <2>2, PieceIs, SMTT(60)
    <2> QED BY <1>1, <1>4, <2>3
<1>9. Len(a) + 1 - 1 = Len(a) /\ Len(v) + 1 - 1 = Len(v) /\ Len(w) + 1 - 1 = Len(w) /\ Len(s) + 1 - 1 = Len(s)
    BY <1>1
<1>10. SplitKey(s) = <<a, b, c, d>>
    <2>1. SplitKey(s) = <<SubSeq(s, 1, (Len(a) + 1) - 1), SubSeq(s, Len(a) + 1 + 1, (Len(v) + 1) - 1),
                          SubSeq(s, Len(v) + 1 + 1, (Len(w) + 1) - 1),
                          SubSeq(s, Len(w) + 1 + 1, (Len(s) + 1) - 1)>>
        BY <1>5, <1>6, <1>7, <1>8, Zenon DEF SplitKey
    <2>2. /\ SubSeq(s, 1, (Len(a) + 1) - 1) = a /\ SubSeq(s, Len(a) + 1 + 1, (Len(v) + 1) - 1) = b
          /\ SubSeq(s, Len(v) + 1 + 1, (Len(w) + 1) - 1) = c
          /\ SubSeq(s, Len(w) + 1 + 1, (Len(s) + 1) - 1) = d
        BY <1>5, <1>6, <1>7, <1>8, <1>9, SMTT(60)
    <2> QED BY <2>1, <2>2, Zenon
<1> QED BY <1>2, <1>3, <1>4, <1>10

LEMMA KeySplit ==
    ASSUME NEW q \in Quads
    PROVE  SplitKey(QuadKey(q)) = QuadKeyFor(q)
<1>1. /\ KeyOf(q.s) \in Text /\ KeyOf(q.p) \in Text
      /\ KeyOf(q.o) \in Text /\ KeyOf(q.g) \in Text
    BY QuadFields, KeyShape
<1>2. QuadKey(q) = KeyOf(q.s) \o <<Nul>> \o KeyOf(q.p) \o <<Nul>> \o KeyOf(q.o)
                   \o <<Nul>> \o KeyOf(q.g)
    BY DEF QuadKey, QuadKeyFor
<1>3. PICK a \in Text, b \in Text, c \in Text, d \in Text :
        a = KeyOf(q.s) /\ b = KeyOf(q.p) /\ c = KeyOf(q.o) /\ d = KeyOf(q.g)
    BY <1>1
<1>4. SplitKey(a \o <<Nul>> \o b \o <<Nul>> \o c \o <<Nul>> \o d) = <<a, b, c, d>>
    BY SplitUndoesJoin, Zenon
<1> QED BY <1>2, <1>3, <1>4, Zenon DEF QuadKeyFor

LEMMA JoinedKeysTellQuadsApart ==
    ASSUME NEW q \in Quads, NEW r \in Quads, QuadKey(q) = QuadKey(r)
    PROVE  q = r
    BY KeySplit, KeysTellQuadsApart

-----------------------------------------------------------------------------
\* The table T has the rows of the quads H and no others.
RowsOf(T, H) ==
    /\ DOMAIN T = {QuadKeyFor(q) : q \in H}
    /\ \A q \in H : T[QuadKeyFor(q)] = Payload(q)

LEMMA WithRows ==
    ASSUME NEW T, NEW H \in SUBSET Quads, NEW Q \in SUBSET Quads, RowsOf(T, H)
    PROVE  RowsOf(With(T, Q), H \cup Q)
<1> DEFINE W == With(T, Q)
           keys == {QuadKeyFor(q) : q \in Q}
<1>1. W = [k \in DOMAIN T \cup keys |->
            IF k \in keys THEN Payload(CHOOSE q \in Q : QuadKeyFor(q) = k) ELSE T[k]]
    BY DEF With
<1>2. DOMAIN W = {QuadKeyFor(q) : q \in H \cup Q}
    BY <1>1 DEF RowsOf
<1>3. ASSUME NEW q \in H \cup Q PROVE W[QuadKeyFor(q)] = Payload(q)
    <2>1. CASE q \in Q
        <3>1. (CHOOSE r \in Q : QuadKeyFor(r) = QuadKeyFor(q)) = q
            BY <2>1, KeysTellQuadsApart
        <3>2. QuadKeyFor(q) \in keys
            BY <2>1
        <3> HIDE DEF W
        <3> QED BY <1>1, <3>1, <3>2
    <2>2. CASE q \in H /\ q \notin Q
        <3>1. QuadKeyFor(q) \notin keys
            BY <2>2, KeysTellQuadsApart
        <3>2. QuadKeyFor(q) \in DOMAIN T /\ T[QuadKeyFor(q)] = Payload(q)
            BY <2>2 DEF RowsOf
        <3> HIDE DEF W
        <3> QED BY <1>1, <3>1, <3>2
    <2> QED BY <2>1, <2>2
<1> QED BY <1>2, <1>3 DEF RowsOf

LEMMA WithoutRows ==
    ASSUME NEW T, NEW H \in SUBSET Quads, NEW Q \in SUBSET Quads, RowsOf(T, H)
    PROVE  RowsOf(Without(T, {QuadKeyFor(q) : q \in Q}), H \ Q)
<1> DEFINE keys == {QuadKeyFor(q) : q \in Q}
           W == Without(T, keys)
<1>1. W = [k \in DOMAIN T \ keys |-> T[k]]
    BY DEF Without
<1>2. \A q \in H : QuadKeyFor(q) \in keys <=> q \in Q
    BY KeysTellQuadsApart
<1>3. DOMAIN W = {QuadKeyFor(q) : q \in H \ Q}
    <2>1. DOMAIN W = DOMAIN T \ keys
        BY <1>1
    <2> HIDE DEF W, keys
    <2> QED BY <1>2, <2>1 DEF RowsOf
<1>4. ASSUME NEW q \in H \ Q PROVE W[QuadKeyFor(q)] = Payload(q)
    <2>1. QuadKeyFor(q) \in DOMAIN T \ keys /\ T[QuadKeyFor(q)] = Payload(q)
        BY <1>2 DEF RowsOf
    <2> HIDE DEF W
    <2> QED BY <1>1, <2>1
<1> QED BY <1>3, <1>4 DEF RowsOf

-----------------------------------------------------------------------------
\* The invariant: the table has the rows of the quads it should hold, and the
\* buffer says of each quad what the calls on the transaction say of it.

Typed ==
    /\ held \subseteq Quads
    /\ calls \in Seq({"add", "delete"} \X Quads)
    /\ buf \in Buf!Buffer

BufferSaysTheCalls ==
    \A q \in Quads :
        /\ QuadKey(q) \in buf.ins <=> Added(q)
        /\ QuadKey(q) \in buf.del <=> Deleted(q)
        /\ Added(q) => new[QuadKey(q)] = q

RowsInv == Typed /\ BufferSaysTheCalls /\ RowsOf(rows, held)

\* One more call on q changes what the calls say of q, and of no other quad.
LEMMA OneMoreCall ==
    ASSUME NEW op \in {"add", "delete"}, NEW q \in Quads,
           calls \in Seq({"add", "delete"} \X Quads), calls' = Append(calls, <<op, q>>)
    PROVE  /\ \A r \in Quads : r # q => (Added(r)' <=> Added(r)) /\ (Deleted(r)' <=> Deleted(r))
           /\ Added(q)' <=> op = "add"
           /\ Deleted(q)' <=> op = "delete" /\ ~Added(q)
<1>1. PICK n \in Nat : n = Len(calls)
    OBVIOUS
<1>2. /\ Len(calls') = n + 1 /\ DOMAIN calls = 1..n /\ DOMAIN calls' = 1..(n + 1)
      /\ \A i \in 1..n : calls'[i] = calls[i]
      /\ calls'[n + 1] = <<op, q>>
    BY <1>1
<1>3. ASSUME NEW o, NEW r, NEW m \in 0..n PROVE Last(o, r, m)' <=> Last(o, r, m)
    <2>1. \A i \in 1..m : calls'[i] = calls[i]
        BY <1>2
    <2>2. \A i \in 1..m : \A j \in (i + 1)..m : calls'[j] = calls[j]
        BY <1>2
    <2> DEFINE Is(s, i) == /\ s[i] = <<o, r>>
                           /\ \A j \in (i + 1)..m : s[j][2] # r
    <2>3. \A i \in 1..m : Is(calls', i) <=> Is(calls, i)
        BY <2>1, <2>2
    <2> QED BY <2>3 DEF Last
<1>4. calls'[n + 1][2] = q
    BY <1>2
<1>5. \A o, r : calls'[n + 1] = <<o, r>> <=> o = op /\ r = q
    BY <1>2
<1>6. ASSUME NEW r \in Quads, r # q
      PROVE  (Added(r)' <=> Added(r)) /\ (Deleted(r)' <=> Deleted(r))
    <2>1. \A i \in 1..n : (\A j \in (i + 1)..(n + 1) : calls'[j][2] # r)
                          <=> (\A j \in (i + 1)..n : calls[j][2] # r)
        BY <1>2, <1>4, <1>6
    <2>2. Added(r)' <=> Added(r)
        <3>1. Added(r)' <=> \E i \in 1..(n + 1) : /\ calls'[i] = <<"add", r>>
                                                  /\ \A j \in (i + 1)..(n + 1) : calls'[j][2] # r
            BY <1>2 DEF Added, Last
        <3>2. Added(r) <=> \E i \in 1..n : /\ calls[i] = <<"add", r>>
                                           /\ \A j \in (i + 1)..n : calls[j][2] # r
            BY <1>1 DEF Added, Last
        <3>3. \A i \in 1..(n + 1) : calls'[i] = <<"add", r>> <=> i \in 1..n /\ calls[i] = <<"add", r>>
            BY <1>2, <1>5, <1>6
        <3>4. 1..n \subseteq 1..(n + 1)
            OBVIOUS
        <3> QED BY <2>1, <3>1, <3>2, <3>3, <3>4, Zenon
    <2>3. Deleted(r)' <=> Deleted(r)
        <3>1. Deleted(r)' <=> \E i \in 1..(n + 1) :
                                /\ calls'[i] = <<"delete", r>>
                                /\ \A j \in (i + 1)..(n + 1) : calls'[j][2] # r
                                /\ ~Last("add", r, i - 1)'
            BY <1>2 DEF Deleted
        <3>2. Deleted(r) <=> \E i \in 1..n :
                                /\ calls[i] = <<"delete", r>>
                                /\ \A j \in (i + 1)..n : calls[j][2] # r
                                /\ ~Last("add", r, i - 1)
            BY <1>1, <1>2 DEF Deleted
        <3>3. \A i \in 1..n : Last("add", r, i - 1)' <=> Last("add", r, i - 1)
            BY <1>3
        <3>4. \A i \in 1..(n + 1) : calls'[i] = <<"delete", r>> <=> i \in 1..n /\ calls[i] = <<"delete", r>>
            BY <1>2, <1>5, <1>6
        <3>5. 1..n \subseteq 1..(n + 1)
            OBVIOUS
        <3> QED BY <2>1, <3>1, <3>2, <3>3, <3>4, <3>5, Zenon
    <2> QED BY <2>2, <2>3
<1>7. \A i \in 1..(n + 1) : (\A j \in (i + 1)..(n + 1) : calls'[j][2] # q) <=> i = n + 1
    <2> TAKE i \in 1..(n + 1)
    <2>1. i # n + 1 => n + 1 \in (i + 1)..(n + 1)
        OBVIOUS
    <2>2. i = n + 1 => (i + 1)..(n + 1) = {}
        OBVIOUS
    <2> QED BY <1>4, <2>1, <2>2, Zenon
<1>8. Added(q)' <=> op = "add"
    <2>1. Added(q)' <=> \E i \in 1..(n + 1) : /\ calls'[i] = <<"add", q>>
                                              /\ \A j \in (i + 1)..(n + 1) : calls'[j][2] # q
        BY <1>2 DEF Added, Last
    <2>2. n + 1 \in 1..(n + 1)
        OBVIOUS
    <2>3. Added(q)' <=> calls'[n + 1] = <<"add", q>>
        BY <1>7, <2>1, <2>2, Zenon
    <2> QED BY <1>5, <2>3
<1>9. Deleted(q)' <=> op = "delete" /\ ~Added(q)
    <2>1. Deleted(q)' <=> \E i \in 1..(n + 1) :
                            /\ calls'[i] = <<"delete", q>>
                            /\ \A j \in (i + 1)..(n + 1) : calls'[j][2] # q
                            /\ ~Last("add", q, i - 1)'
        BY <1>2 DEF Deleted
    <2>2. Deleted(q)' <=> calls'[n + 1] = <<"delete", q>> /\ ~Last("add", q, (n + 1) - 1)'
        <3> n + 1 \in 1..(n + 1)
            OBVIOUS
        <3> QED BY <1>7, <2>1, Zenon
    <2>3. Last("add", q, (n + 1) - 1)' <=> Last("add", q, n)
        BY <1>3
    <2> QED BY <1>1, <1>5, <2>2, <2>3 DEF Added
<1> QED BY <1>6, <1>8, <1>9

LEMMA SameCalls ==
    ASSUME calls' = calls
    PROVE  \A q \in Quads : (Added(q)' <=> Added(q)) /\ (Deleted(q)' <=> Deleted(q))
<1>1. ASSUME NEW o, NEW r, NEW m PROVE Last(o, r, m)' <=> Last(o, r, m)
    BY Zenon DEF Last
<1>2. TAKE q \in Quads
<1>3. Added(q)' <=> Added(q)
    BY Zenon DEF Added, Last
<1>4. Deleted(q)' <=> Deleted(q)
    BY <1>1, Zenon DEF Deleted
<1> QED BY <1>3, <1>4

LEMMA CommitRows ==
    ASSUME RowsInv
    PROVE  RowsOf(CommittedRows, {q \in Quads : Added(q) \/ (q \in held /\ ~Deleted(q))})
<1> DEFINE A == {q \in Quads : Added(q)}
           D == {q \in Quads : Deleted(q)}
<1>1. buf.ins \subseteq {QuadKey(q) : q \in Quads} /\ buf.del \subseteq {QuadKey(q) : q \in Quads}
    BY DEF RowsInv, Typed, Buf!Buffer
<1>2. {SplitKey(k) : k \in buf.del} = {QuadKeyFor(q) : q \in D}
    BY <1>1, KeySplit DEF RowsInv, BufferSaysTheCalls
<1>3. {new[k] : k \in buf.ins} = A
    BY <1>1 DEF RowsInv, BufferSaysTheCalls
<1>4. RowsOf(rows, held) /\ held \subseteq Quads
    BY DEF RowsInv, Typed
<1>5. RowsOf(Without(rows, {QuadKeyFor(q) : q \in D}), held \ D)
    BY <1>4, WithoutRows
<1>6. RowsOf(With(Without(rows, {QuadKeyFor(q) : q \in D}), A), (held \ D) \cup A)
    <2> A \subseteq Quads /\ held \ D \subseteq Quads
        BY <1>4
    <2> HIDE DEF A, D
    <2> QED BY <1>5, WithRows
<1>7. (held \ D) \cup A = {q \in Quads : Added(q) \/ (q \in held /\ ~Deleted(q))}
    BY <1>4
<1> QED BY <1>2, <1>3, <1>6, <1>7 DEF CommittedRows

LEMMA RowsInvInit ==
    ASSUME Init
    PROVE  RowsInv
<1>1. Typed
    BY DEF Init, Typed, Buf!Buffer, Buf!EmptyBuffer
<1>2. \A o, q : ~Last(o, q, 0)
    BY DEF Last
<1>3. Len(calls) = 0 /\ DOMAIN calls = {}
    BY DEF Init
<1>4. BufferSaysTheCalls
    BY <1>2, <1>3 DEF Init, BufferSaysTheCalls, Added, Deleted, Buf!EmptyBuffer
<1>5. RowsOf(rows, held)
    BY DEF Init, RowsOf
<1> QED BY <1>1, <1>4, <1>5 DEF RowsInv

LEMMA RowsInvStep ==
    ASSUME RowsInv, [Next]_vars
    PROVE  RowsInv'
<1>1. ASSUME NEW q \in Quads, Add(q) PROVE RowsInv'
    <2>1. /\ calls' = Append(calls, <<"add", q>>) /\ rows' = rows /\ held' = held
          /\ buf' = [ins |-> buf.ins \cup {QuadKey(q)}, del |-> buf.del \ {QuadKey(q)}]
          /\ new' = [k \in buf'.ins |-> IF k = QuadKey(q) THEN q ELSE new[k]]
        BY <1>1 DEF Add, Called, Buf!BufferAdd
    <2>2. Typed'
        <3>1. calls' \in Seq({"add", "delete"} \X Quads)
            BY <2>1 DEF RowsInv, Typed
        <3>2. buf' \in Buf!Buffer
            BY <2>1 DEF RowsInv, Typed, Buf!Buffer
        <3> QED BY <2>1, <3>1, <3>2 DEF RowsInv, Typed
    <2>3. /\ \A r \in Quads : r # q => (Added(r)' <=> Added(r)) /\ (Deleted(r)' <=> Deleted(r))
          /\ Added(q)' /\ ~Deleted(q)'
        BY <2>1, OneMoreCall DEF RowsInv, Typed
    <2>4. BufferSaysTheCalls'
        <3> SUFFICES ASSUME NEW r \in Quads
                     PROVE  /\ QuadKey(r) \in buf'.ins <=> Added(r)'
                            /\ QuadKey(r) \in buf'.del <=> Deleted(r)'
                            /\ Added(r)' => new'[QuadKey(r)] = r
            BY DEF BufferSaysTheCalls
        <3>1. CASE r = q
            BY <2>1, <2>3, <3>1
        <3>2. CASE r # q
            BY <2>1, <2>3, <3>2, JoinedKeysTellQuadsApart DEF RowsInv, BufferSaysTheCalls
        <3> QED BY <3>1, <3>2
    <2> QED BY <2>1, <2>2, <2>4 DEF RowsInv, RowsOf
<1>2. ASSUME NEW q \in Quads, Delete(q) PROVE RowsInv'
    <2>1. /\ calls' = Append(calls, <<"delete", q>>) /\ rows' = rows /\ held' = held
          /\ buf' = IF QuadKey(q) \in buf.ins
                      THEN [buf EXCEPT !.ins = @ \ {QuadKey(q)}]
                      ELSE [buf EXCEPT !.del = @ \cup {QuadKey(q)}]
          /\ new' = [k \in buf'.ins |-> new[k]]
        BY <1>2 DEF Delete, Called, Buf!BufferDelete
    <2>2. Typed'
        <3>1. calls' \in Seq({"add", "delete"} \X Quads)
            BY <2>1 DEF RowsInv, Typed
        <3>2. buf' \in Buf!Buffer
            BY <2>1 DEF RowsInv, Typed, Buf!Buffer
        <3> QED BY <2>1, <3>1, <3>2 DEF RowsInv, Typed
    <2>3. /\ \A r \in Quads : r # q => (Added(r)' <=> Added(r)) /\ (Deleted(r)' <=> Deleted(r))
          /\ ~Added(q)' /\ (Deleted(q)' <=> ~Added(q))
        BY <2>1, OneMoreCall DEF RowsInv, Typed
    <2>4. Added(q) => ~Deleted(q)
        BY SMTT(60) DEF Added, Deleted, Last, RowsInv, Typed
    <2>5. BufferSaysTheCalls'
        <3> SUFFICES ASSUME NEW r \in Quads
                     PROVE  /\ QuadKey(r) \in buf'.ins <=> Added(r)'
                            /\ QuadKey(r) \in buf'.del <=> Deleted(r)'
                            /\ Added(r)' => new'[QuadKey(r)] = r
            BY DEF BufferSaysTheCalls
        <3>1. CASE r = q
            BY <2>1, <2>3, <2>4, <3>1 DEF RowsInv, Typed, BufferSaysTheCalls, Buf!Buffer
        <3>2. CASE r # q
            BY <2>1, <2>3, <3>2, JoinedKeysTellQuadsApart
               DEF RowsInv, Typed, BufferSaysTheCalls, Buf!Buffer
        <3> QED BY <3>1, <3>2
    <2> QED BY <2>1, <2>2, <2>5 DEF RowsInv, RowsOf
<1>3. CASE Rollback
    <2>1. calls' = <<>> /\ buf' = [ins |-> {}, del |-> {}] /\ rows' = rows /\ held' = held
        BY <1>3 DEF Rollback, Buf!EmptyBuffer
    <2>2. Typed'
        BY <2>1 DEF RowsInv, Typed, Buf!Buffer
    <2>3. \A q : ~Added(q)' /\ ~Deleted(q)'
        <3>1. Len(calls') = 0 /\ DOMAIN calls' = {}
            BY <2>1
        <3> QED BY <3>1 DEF Added, Deleted, Last
    <2>4. BufferSaysTheCalls'
        BY <2>1, <2>3 DEF BufferSaysTheCalls
    <2> QED BY <2>1, <2>2, <2>4 DEF RowsInv, RowsOf
<1>4. CASE Commit
    <2>1. /\ rows' = CommittedRows /\ buf' = buf /\ new' = new /\ calls' = calls
          /\ held' = {q \in Quads : Added(q) \/ (q \in held /\ ~Deleted(q))}
        BY <1>4 DEF Commit
    <2>2. RowsOf(rows', held')
        BY <2>1, CommitRows
    <2>3. Typed' /\ BufferSaysTheCalls'
        BY <2>1, SameCalls DEF RowsInv, Typed, BufferSaysTheCalls
    <2> QED BY <2>2, <2>3 DEF RowsInv, RowsOf
<1>5. ASSUME NEW q \in Quads, InsertQuad(q) PROVE RowsInv'
    <2>1. /\ rows' = With(rows, {q}) /\ held' = held \cup {q}
          /\ buf' = buf /\ new' = new /\ calls' = calls
        BY <1>5 DEF InsertQuad
    <2>2. RowsOf(rows', held')
        BY <2>1, WithRows DEF RowsInv, Typed
    <2>3. Typed' /\ BufferSaysTheCalls'
        BY <2>1, SameCalls DEF RowsInv, Typed, BufferSaysTheCalls
    <2> QED BY <2>2, <2>3 DEF RowsInv, RowsOf
<1>6. ASSUME NEW q \in Quads, RemoveQuad(q) \/ DeleteByQuadKey(q) PROVE RowsInv'
    <2>1. /\ rows' = Without(rows, {QuadKeyFor(r) : r \in {q}}) /\ held' = held \ {q}
          /\ buf' = buf /\ new' = new /\ calls' = calls
        <3> {QuadKeyFor(r) : r \in {q}} = {QuadKeyFor(q)}
            OBVIOUS
        <3> QED BY <1>6, KeySplit DEF RemoveQuad, DeleteByQuadKey
    <2>2. RowsOf(rows', held')
        BY <2>1, WithoutRows DEF RowsInv, Typed
    <2>3. Typed' /\ BufferSaysTheCalls'
        BY <2>1, SameCalls DEF RowsInv, Typed, BufferSaysTheCalls
    <2> QED BY <2>2, <2>3 DEF RowsInv, RowsOf
<1>7. CASE UNCHANGED vars
    <2>1. buf' = buf /\ new' = new /\ calls' = calls /\ rows' = rows /\ held' = held
        BY <1>7 DEF vars
    <2>2. Typed' /\ BufferSaysTheCalls'
        BY <2>1, SameCalls DEF RowsInv, Typed, BufferSaysTheCalls
    <2> QED BY <2>1, <2>2 DEF RowsInv, RowsOf
<1> QED BY <1>1, <1>2, <1>3, <1>4, <1>5, <1>6, <1>7 DEF Next

LEMMA RowsInvHolds == Spec => []RowsInv
    BY RowsInvInit, RowsInvStep, PTL DEF Spec

-----------------------------------------------------------------------------
\* The table has a row for each quad it should hold, under its key, and no
\* other row, after any calls, commits and rollbacks.
THEOREM RowsStayExact == Spec => []RowPerQuad
<1>1. RowsInv => RowPerQuad
    <2> SUFFICES ASSUME RowsInv PROVE RowPerQuad
        OBVIOUS
    <2> DEFINE f == [q \in held |-> QuadKeyFor(q)]
    <2>1. held \subseteq Quads /\ DOMAIN rows = {QuadKeyFor(q) : q \in held}
        BY DEF RowsInv, Typed, RowsOf
    <2>2. IsFiniteSet(held)
        BY <2>1, QuadsAssumption, FS_Subset
    <2>3. f \in Surjection(held, DOMAIN rows)
        BY <2>1 DEF Surjection
    <2>4. f \in Injection(held, DOMAIN rows)
        BY <2>1, KeysTellQuadsApart DEF Injection, IsInjective
    <2>5. Cardinality(DOMAIN rows) = Cardinality(held)
        BY <2>2, <2>3, <2>4, FS_Surjection
    <2> QED BY <2>1, <2>5 DEF RowPerQuad
<1> QED BY <1>1, RowsInvHolds, PTL

\* A match gives back exactly the quads the table should hold that have the
\* term in the position, each as it was added.
THEOREM MatchStaysExact == Spec => []MatchFindsTheQuads
<1>1. RowsInv => MatchFindsTheQuads
    <2> SUFFICES ASSUME RowsInv, NEW pos \in {"s", "p", "o", "g"}, NEW q \in Quads
                 PROVE  Match(pos, q[pos]) = {h \in held : h[pos] = q[pos]}
        BY DEF MatchFindsTheQuads
    <2> DEFINE i == CASE pos = "s" -> 1 [] pos = "p" -> 2 [] pos = "o" -> 3 [] pos = "g" -> 4
    <2>1. \A h \in Quads : QuadKeyFor(h)[i] = KeyOf(h[pos]) /\ h[pos] \in Terms
        BY QuadFields DEF QuadKeyFor
    <2>2. Match(pos, q[pos]) = {QuadFrom(rows[k]) : k \in {k \in DOMAIN rows : k[i] = KeyOf(q[pos])}}
        BY DEF Match
    <2> HIDE DEF i
    <2>3. /\ held \subseteq Quads /\ DOMAIN rows = {QuadKeyFor(h) : h \in held}
          /\ \A h \in held : rows[QuadKeyFor(h)] = Payload(h)
        BY DEF RowsInv, Typed, RowsOf
    <2>4. \A h \in held : QuadFrom(rows[QuadKeyFor(h)]) = h
        BY <2>3, PayloadReadBack
    <2>5. \A h \in held : QuadKeyFor(h)[i] = KeyOf(q[pos]) <=> h[pos] = q[pos]
        BY <2>1, <2>3, KeysTellTermsApart
    <2> QED BY <2>2, <2>3, <2>4, <2>5
<1> QED BY <1>1, RowsInvHolds, PTL

=============================================================================

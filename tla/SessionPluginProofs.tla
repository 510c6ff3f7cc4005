-------------------------- MODULE SessionPluginProofs -------------------------
(***************************************************************************)
(* For any files, scripts, sessions and starts, and for both parsers:      *)
(* what the watcher hands on from a file is one parse of the lines it      *)
(* took, and a detail is of the session it was asked for and as fresh as   *)
(* the request.                                                            *)
(*                                                                         *)
(* The watcher scans in pieces, while the tool writes in mid-line,         *)
(* replaces the file or rewrites it; its parser state goes from one scan   *)
(* to the next and is put aside while a scan is planned (ScanInv). The     *)
(* provider answers from an index it built before, refreshed in steps      *)
(* between which files go on changing (ProviderInv). Each says of what it  *)
(* keeps, a cursor or an entry, that it was so of the file as it then      *)
(* was, and how the file can have changed since (FilesStep).               *)
(***************************************************************************)
EXTENDS SessionPlugin, WellFoundedInduction, SequenceTheorems, TLAPS

-----------------------------------------------------------------------------
(***************************************************************************)
(* Induction over the naturals, as a statement about a set: the order of   *)
(* the naturals is well-founded, so what is not in the set has a least     *)
(* element.                                                                *)
(***************************************************************************)
Less == {p \in Nat \X Nat : p[1] < p[2]}

LEMMA LessWF == IsWellFoundedOn(Less, Nat)
BY NatLessThanWellFounded DEF OpToRel, Less

LEMMA SetInduction ==
    ASSUME NEW S \in SUBSET Nat, 0 \in S, \A n \in S : n + 1 \in S
    PROVE  S = Nat
<1> SUFFICES ASSUME Nat \ S # {} PROVE FALSE
  OBVIOUS
<1>1. PICK x \in Nat \ S : \A y \in Nat \ S : <<y, x>> \notin Less
  <2> DEFINE T == Nat \ S
  <2>1. T \subseteq Nat /\ T # {}
    OBVIOUS
  <2> HIDE DEF T
  <2>2. \E x \in T : \A y \in T : ~ (<<y, x>> \in Less)
    BY <2>1, LessWF, WFMin, Zenon
  <2> QED BY <2>2 DEF T
<1>2. x # 0 /\ x - 1 \in Nat
  OBVIOUS
<1>3. <<x - 1, x>> \in Less
  BY <1>2 DEF Less
<1>4. x - 1 \in S
  BY <1>1, <1>2, <1>3
<1> QED BY <1>1, <1>2, <1>4

-----------------------------------------------------------------------------
(***************************************************************************)
(* A parse of lines is a fold over their numbers, that is, over a set: it  *)
(* takes the greatest number last. Here it is a function of the sets of    *)
(* numbers, on which what follows can do its induction.                    *)
(***************************************************************************)
\* The greatest element of a set of line numbers.
LEMMA MaxIs ==
    ASSUME NEW m \in Nat, NEW s \in SUBSET (1..m), m \in s
    PROVE  Max(s) = m
<1>1. \A y \in s : m >= y
  OBVIOUS
<1>2. \A x \in s : (\A y \in s : x >= y) => x = m
  OBVIOUS
<1> DEFINE P(x) == \A y \in s : x >= y
<1>3. m \in s /\ P(m)
  BY <1>1
<1>4. \A x \in s : P(x) => x = m
  BY <1>2
<1>5. Max(s) = CHOOSE x \in s : P(x)
  BY DEF Max
<1> HIDE DEF P
<1>6. (CHOOSE x \in s : P(x)) \in s /\ P(CHOOSE x \in s : P(x))
  BY <1>3
<1> QED BY <1>4, <1>5, <1>6

\* g[s] is what a parse makes of the lines with the numbers in s.
Scanned(t, p, n, lines, m, g) ==
    g = [s \in SUBSET (1..m) |->
            IF s = {} THEN Unparsed(p, n)
            ELSE parse_next(t, g[s \ {Max(s)}], lines[Max(s)])]

\* There is such a function, for any number of lines: a recursive definition of
\* it has a solution.
LEMMA ScannedExists ==
    ASSUME NEW t, NEW p, NEW n, NEW lines, NEW m \in Nat
    PROVE  \E g : Scanned(t, p, n, lines, m, g)
<1> DEFINE S == {k \in Nat : \E g : Scanned(t, p, n, lines, k, g)}
<1>1. 0 \in S
  <2> DEFINE g == [s \in SUBSET (1..0) |-> Unparsed(p, n)]
  <2>1. \A s \in SUBSET (1..0) : s = {}
    OBVIOUS
  <2>2. Scanned(t, p, n, lines, 0, g)
    BY <2>1 DEF Scanned
  <2> QED BY <2>2
<1>2. ASSUME NEW k \in S PROVE k + 1 \in S
  <2>1. k \in Nat /\ k + 1 \in Nat
    BY <1>2
  <2>2. PICK g : Scanned(t, p, n, lines, k, g)
    BY <1>2
  <2> DEFINE h == [s \in SUBSET (1..(k + 1)) |->
                      IF k + 1 \in s THEN parse_next(t, g[s \ {k + 1}], lines[k + 1])
                      ELSE g[s]]
  <2>3. ASSUME NEW s \in SUBSET (1..(k + 1))
        PROVE  h[s] = IF s = {} THEN Unparsed(p, n)
                      ELSE parse_next(t, h[s \ {Max(s)}], lines[Max(s)])
    <3>1. CASE k + 1 \in s
      <4>1. Max(s) = k + 1
        BY <2>1, <3>1, MaxIs
      <4>2. s \ {k + 1} \in SUBSET (1..(k + 1)) /\ k + 1 \notin s \ {k + 1}
        OBVIOUS
      <4>3. h[s \ {k + 1}] = g[s \ {k + 1}]
        BY <4>2
      <4> QED BY <3>1, <4>1, <4>3
    <3>2. CASE k + 1 \notin s
      <4>1. s \in SUBSET (1..k)
        BY <2>1, <3>2
      <4>2. h[s] = g[s]
        BY <3>2
      <4>3. h[s \ {Max(s)}] = g[s \ {Max(s)}]
        BY <3>2
      <4>4. g[s] = IF s = {} THEN Unparsed(p, n)
                   ELSE parse_next(t, g[s \ {Max(s)}], lines[Max(s)])
        BY <2>2, <4>1 DEF Scanned
      <4> QED BY <4>2, <4>3, <4>4
    <3> QED BY <3>1, <3>2
  <2>4. h = [s \in SUBSET (1..(k + 1)) |->
               IF s = {} THEN Unparsed(p, n)
               ELSE parse_next(t, h[s \ {Max(s)}], lines[Max(s)])]
    <3> DEFINE D == SUBSET (1..(k + 1))
               B(s) == IF s = {} THEN Unparsed(p, n)
                       ELSE parse_next(t, h[s \ {Max(s)}], lines[Max(s)])
    <3>1. h = [s \in D |-> h[s]]
      OBVIOUS
    <3>2. \A s \in D : h[s] = B(s)
      BY <2>3
    <3> HIDE DEF h, B
    <3>3. h = [s \in D |-> B(s)]
      BY <3>1, <3>2, Zenon
    <3> QED BY <3>3 DEF B
  <2> HIDE DEF h
  <2>5. Scanned(t, p, n, lines, k + 1, h)
    BY <2>4 DEF Scanned
  <2> QED BY <2>1, <2>5
<1> HIDE DEF S
<1>3. S \in SUBSET Nat
  BY DEF S
<1>4. S = Nat
  BY <1>1, <1>2, <1>3, SetInduction
<1> QED BY <1>4 DEF S

\* parse_lines is its value at all the numbers,
LEMMA ParseIsScanned ==
    ASSUME NEW t, NEW p, NEW n, NEW X, NEW lines \in Seq(X)
    PROVE  \E g : /\ Scanned(t, p, n, lines, Len(lines), g)
                  /\ parse_lines(t, p, n, lines) = g[1..Len(lines)]
<1> DEFINE m == Len(lines)
<1> DEFINE g == CHOOSE f : Scanned(t, p, n, lines, m, f)
<1>1. Scanned(t, p, n, lines, m, g)
  BY ScannedExists
<1>2. DOMAIN lines = 1..m
  OBVIOUS
<1>3. parse_lines(t, p, n, lines) = g[1..m]
  BY <1>2 DEF parse_lines, FoldLeft, MapThenFoldSet, Scanned
<1> QED BY <1>1, <1>3

\* with no lines the parser is where it was,
LEMMA ScannedNothing ==
    ASSUME NEW t, NEW p, NEW n, NEW lines, NEW m \in Nat, NEW g,
           Scanned(t, p, n, lines, m, g)
    PROVE  g[{}] = Unparsed(p, n)
BY DEF Scanned

\* and one line more is one step of the parser.
LEMMA ScannedStep ==
    ASSUME NEW t, NEW p, NEW n, NEW lines, NEW m \in Nat, NEW g,
           Scanned(t, p, n, lines, m, g), NEW k \in Nat, k < m
    PROVE  g[1..(k + 1)] = parse_next(t, g[1..k], lines[k + 1])
<1>1. 1..(k + 1) \in SUBSET (1..m) /\ 1..(k + 1) # {} /\ k + 1 \in 1..(k + 1)
  OBVIOUS
<1>2. Max(1..(k + 1)) = k + 1
  <2>1. k + 1 \in Nat /\ 1..(k + 1) \in SUBSET (1..(k + 1))
    OBVIOUS
  <2> QED BY <1>1, <2>1, MaxIs
<1>3. (1..(k + 1)) \ {k + 1} = 1..k
  OBVIOUS
<1> QED BY <1>1, <1>2, <1>3 DEF Scanned

\* Parses of contents that begin alike agree on what they have in common.
LEMMA ScannedAgree ==
    ASSUME NEW t, NEW p, NEW n, NEW l1, NEW l2, NEW m1 \in Nat, NEW m2 \in Nat,
           NEW g1, NEW g2, Scanned(t, p, n, l1, m1, g1), Scanned(t, p, n, l2, m2, g2),
           m1 <= m2, \A i \in 1..m1 : l1[i] = l2[i]
    PROVE  g1[1..m1] = g2[1..m1]
<1> DEFINE S == {k \in Nat : k <= m1 => g1[1..k] = g2[1..k]}
<1>1. 0 \in S
  <2>1. g1[{}] = Unparsed(p, n)
    BY ScannedNothing
  <2>2. g2[{}] = Unparsed(p, n)
    BY ScannedNothing
  <2>3. 1..0 = {}
    OBVIOUS
  <2> QED BY <2>1, <2>2, <2>3
<1>2. ASSUME NEW k \in S PROVE k + 1 \in S
  <2>1. SUFFICES ASSUME k + 1 <= m1 PROVE g1[1..(k + 1)] = g2[1..(k + 1)]
    BY <1>2
  <2>2. k \in Nat /\ k < m1 /\ k < m2 /\ k + 1 \in 1..m1
    BY <2>1
  <2>3. g1[1..k] = g2[1..k]
    BY <2>1, <2>2
  <2>4. k \in Nat /\ k < m1 => g1[1..(k + 1)] = parse_next(t, g1[1..k], l1[k + 1])
    BY ScannedStep
  <2>5. k \in Nat /\ k < m2 => g2[1..(k + 1)] = parse_next(t, g2[1..k], l2[k + 1])
    BY ScannedStep
  <2> QED BY <2>2, <2>3, <2>4, <2>5
<1> HIDE DEF S
<1>3. S \in SUBSET Nat
  BY DEF S
<1>4. S = Nat
  BY <1>1, <1>2, <1>3, SetInduction
<1>5. m1 \in S
  BY <1>4
<1> QED BY <1>5 DEF S

\* The same of parse_lines.
LEMMA ParseEmpty ==
    ASSUME NEW t, NEW p, NEW n
    PROVE  parse_lines(t, p, n, <<>>) = Unparsed(p, n)
<1>1. << >> \in Seq({}) /\ Len(<< >>) = 0
  OBVIOUS
<1> DEFINE e == << >>
<1> HIDE DEF e
<1>2. PICK g : Scanned(t, p, n, e, Len(e), g) /\ parse_lines(t, p, n, e) = g[1..Len(e)]
  BY <1>1, ParseIsScanned DEF e
<1>3. Len(e) \in Nat /\ 1..Len(e) = {}
  BY <1>1 DEF e
<1>4. g[{}] = Unparsed(p, n)
  BY <1>2, <1>3, ScannedNothing
<1> QED BY <1>2, <1>3, <1>4 DEF e

\* One line more.
LEMMA ParseStep ==
    ASSUME NEW t, NEW p, NEW n, NEW X, NEW c \in Seq(X),
           NEW a \in Nat, NEW k \in Nat, a <= k, k < Len(c)
    PROVE  parse_lines(t, p, n, SubSeq(c, a + 1, k + 1))
             = parse_next(t, parse_lines(t, p, n, SubSeq(c, a + 1, k)), c[k + 1])
<1> DEFINE l1 == SubSeq(c, a + 1, k)
           l2 == SubSeq(c, a + 1, k + 1)
           m == k - a
<1>1. /\ m \in Nat /\ l1 \in Seq(X) /\ l2 \in Seq(X)
      /\ Len(l1) = m /\ Len(l2) = m + 1
      /\ \A i \in 1..m : l1[i] = l2[i]
      /\ l2[m + 1] = c[k + 1]
  OBVIOUS
<1> HIDE DEF l1, l2, m
<1>2. PICK g1 : Scanned(t, p, n, l1, m, g1) /\ parse_lines(t, p, n, l1) = g1[1..m]
  BY <1>1, ParseIsScanned
<1>3. PICK g2 : Scanned(t, p, n, l2, m + 1, g2) /\ parse_lines(t, p, n, l2) = g2[1..(m + 1)]
  BY <1>1, ParseIsScanned
<1>4. g1[1..m] = g2[1..m]
  <2>1. m + 1 \in Nat /\ m <= m + 1
    BY <1>1
  <2> QED BY <1>1, <1>2, <1>3, <2>1, ScannedAgree
<1>5. g2[1..(m + 1)] = parse_next(t, g2[1..m], l2[m + 1])
  <2>1. m + 1 \in Nat /\ m \in Nat /\ m < m + 1
    BY <1>1
  <2>2. Scanned(t, p, n, l2, m + 1, g2)
    BY <1>3
  <2> DEFINE M == m + 1
  <2> HIDE DEF M
  <2>3. M \in Nat /\ m \in Nat /\ m < M /\ Scanned(t, p, n, l2, M, g2)
    BY <2>1, <2>2 DEF M
  <2> QED BY <2>3, ScannedStep
<1> QED BY <1>1, <1>2, <1>3, <1>4, <1>5 DEF l1, l2

\* Events are of no particular type; of a sequence of them only its elements are
\* known to be its elements.
IsSequence(s) == s \in Seq(ToSet(s))

\* What is a sequence of anything is one of its own elements,
LEMMA SequenceTyped ==
    ASSUME NEW X, NEW s \in Seq(X)
    PROVE  IsSequence(s)
<1>1. \A i \in 1..Len(s) : s[i] \in ToSet(s)
  BY DEF ToSet
<1> QED BY <1>1, IsASeq DEF IsSequence

\* and so are sequences put together.
LEMMA SequencesJoin ==
    ASSUME NEW x, NEW y, IsSequence(x), IsSequence(y), NEW e
    PROVE  /\ IsSequence(x \o y)
           /\ IsSequence(Append(y, e))
           /\ Append(x \o y, e) = x \o Append(y, e)
           /\ x \o << >> = x
<1> DEFINE X == ToSet(x) \cup ToSet(y) \cup {e}
<1>1. x \in Seq(X) /\ y \in Seq(X) /\ e \in X
  <2>1. ToSet(x) \subseteq X /\ ToSet(y) \subseteq X
    OBVIOUS
  <2> QED BY <2>1, SeqMonotonic DEF IsSequence
<1> HIDE DEF X
<1>2. x \o y \in Seq(X) /\ Append(y, e) \in Seq(X)
  BY <1>1
<1>3. Append(x \o y, e) = x \o Append(y, e) /\ x \o << >> = x
  BY <1>1
<1> QED BY <1>2, <1>3, SequenceTyped

\* The result of a parse; its events are a sequence.
IsScan(s) ==
    /\ s = [ok |-> s.ok, parser |-> s.parser, events |-> s.events, n |-> s.n]
    /\ s.ok \in BOOLEAN /\ s.n \in Nat /\ IsSequence(s.events)

\* The event that a line adds, with the number of its line.
NextEvent(t, s, line) ==
    LET result == parse_line(t, s.parser, line)
    IN [n |-> s.n + 1, type |-> result.type, key |-> result.key,
        session |-> result.parser.session]

\* What one line makes of a result: a bad line fails it for good.
LEMMA NextScan ==
    ASSUME NEW t, NEW s, IsScan(s), NEW line, NEW r, r = parse_next(t, s, line)
    PROVE  /\ IsScan(r)
           /\ r.ok <=> s.ok /\ line.kind # "bad"
           /\ r.ok => /\ r.n = s.n + 1
                      /\ r.parser = parse_line(t, s.parser, line).parser
                      /\ r.events = IF parse_line(t, s.parser, line).type = None THEN s.events
                                    ELSE Append(s.events, NextEvent(t, s, line))
<1> DEFINE q == parse_line(t, s.parser, line)
           v == NextEvent(t, s, line)
<1>1. CASE ~s.ok \/ line.kind = "bad"
  <2>1. r = [s EXCEPT !.ok = FALSE]
    BY <1>1 DEF parse_next
  <2>2. r = [ok |-> FALSE, parser |-> s.parser, events |-> s.events, n |-> s.n]
    BY <2>1 DEF IsScan
  <2>3. r.ok = FALSE /\ r.n = s.n /\ r.events = s.events /\ r.parser = s.parser
    BY <2>2
  <2>4. IsScan(r)
    BY <2>2, <2>3 DEF IsScan
  <2> QED BY <1>1, <2>3, <2>4
<1>2. CASE ~(~s.ok \/ line.kind = "bad")
  <2> DEFINE es == IF q.type = None THEN s.events ELSE Append(s.events, v)
  <2>1. r = [[[s EXCEPT !.parser = q.parser] EXCEPT !.n = @ + 1] EXCEPT !.events = es]
    <3>1. r = [s EXCEPT !.parser = q.parser, !.n = @ + 1,
                        !.events = IF q.type = None THEN @ ELSE Append(@, v)]
      BY <1>2 DEF parse_next, NextEvent
    <3> HIDE DEF q, v
    <3> QED BY <3>1 DEF IsScan
  <2> HIDE DEF q, v
  <2>2. IsSequence(es)
    BY SequencesJoin DEF IsScan
  <2> HIDE DEF es
  <2>3. r = [ok |-> s.ok, parser |-> q.parser, events |-> es, n |-> s.n + 1]
    BY <2>1 DEF IsScan
  <2>4. IsScan(r) /\ r.ok = s.ok /\ r.n = s.n + 1 /\ r.parser = q.parser /\ r.events = es
    BY <2>2, <2>3 DEF IsScan
  <2> QED BY <1>2, <2>4 DEF q, v, es, IsScan
<1> QED BY <1>1, <1>2

\* The result with which a parse begins.
LEMMA UnparsedIsScan ==
    ASSUME NEW p, NEW n \in Nat
    PROVE  /\ IsScan(Unparsed(p, n)) /\ Unparsed(p, n).ok
           /\ Unparsed(p, n).n = n /\ Unparsed(p, n).parser = p /\ Unparsed(p, n).events = << >>
<1>1. IsSequence(<< >>)
  <2>1. << >> \in Seq({})
    OBVIOUS
  <2> QED BY <2>1, SequenceTyped
<1> QED BY <1>1 DEF Unparsed, IsScan

-----------------------------------------------------------------------------
(***************************************************************************)
(* Parts of a content. A parse that goes on where another stopped makes    *)
(* of the lines what one parse of all of them makes.                       *)
(***************************************************************************)
\* What a parse of lines a + 1 to b of a content makes of them.
Span(t, p, c, a, b) == parse_lines(t, p, a, SubSeq(c, a + 1, b))

\* No lines, one line more, and the type of the result.
LEMMA SpanEmpty ==
    ASSUME NEW t, NEW p, NEW X, NEW c \in Seq(X), NEW a \in Nat, NEW b \in Nat, b <= a
    PROVE  Span(t, p, c, a, b) = Unparsed(p, a)
<1>1. SubSeq(c, a + 1, b) = << >>
  OBVIOUS
<1> QED BY <1>1, ParseEmpty DEF Span

LEMMA SpanStep ==
    ASSUME NEW t, NEW p, NEW X, NEW c \in Seq(X),
           NEW a \in Nat, NEW k \in Nat, a <= k, k < Len(c)
    PROVE  Span(t, p, c, a, k + 1) = parse_next(t, Span(t, p, c, a, k), c[k + 1])
BY ParseStep DEF Span

LEMMA SpanIsScan ==
    ASSUME NEW t, NEW p, NEW X, NEW c \in Seq(X),
           NEW a \in Nat, NEW b \in Nat, a <= b, b <= Len(c)
    PROVE  /\ IsScan(Span(t, p, c, a, b))
           /\ Span(t, p, c, a, b).ok => Span(t, p, c, a, b).n = b
<1> DEFINE P(d) == a + d <= Len(c) =>
                      /\ IsScan(Span(t, p, c, a, a + d))
                      /\ Span(t, p, c, a, a + d).ok => Span(t, p, c, a, a + d).n = a + d
           S == {d \in Nat : P(d)}
<1>1. 0 \in S
  <2>1. Span(t, p, c, a, a) = Unparsed(p, a)
    BY SpanEmpty
  <2>2. P(0)
    BY <2>1, UnparsedIsScan
  <2> QED BY <2>2
<1>2. ASSUME NEW d \in S PROVE d + 1 \in S
  <2>1. d \in Nat /\ P(d)
    BY <1>2
  <2>2. SUFFICES ASSUME a + (d + 1) <= Len(c)
                 PROVE  /\ IsScan(Span(t, p, c, a, a + (d + 1)))
                        /\ Span(t, p, c, a, a + (d + 1)).ok
                              => Span(t, p, c, a, a + (d + 1)).n = a + (d + 1)
    BY <2>1
  <2> DEFINE k == a + d
  <2>3. /\ k \in Nat /\ a <= k /\ k < Len(c) /\ a + (d + 1) = k + 1
        /\ IsScan(Span(t, p, c, a, k))
        /\ Span(t, p, c, a, k).ok => Span(t, p, c, a, k).n = k
    BY <2>1, <2>2
  <2> HIDE DEF k, P, S
  <2>4. Span(t, p, c, a, k + 1) = parse_next(t, Span(t, p, c, a, k), c[k + 1])
    BY <2>3, SpanStep
  <2> DEFINE s == Span(t, p, c, a, k)
             r == parse_next(t, s, c[k + 1])
  <2>5. IsScan(s)
    BY <2>3
  <2> HIDE DEF s
  <2>6. IsScan(r) /\ (r.ok => s.ok /\ r.n = s.n + 1)
    BY <2>5, NextScan
  <2> HIDE DEF r
  <2> QED BY <2>3, <2>4, <2>6 DEF s, r
<1> HIDE DEF P
<1>3. S \in SUBSET Nat
  OBVIOUS
<1> HIDE DEF S
<1>4. S = Nat
  BY <1>1, <1>2, <1>3, SetInduction
<1>5. b - a \in Nat /\ a + (b - a) = b
  OBVIOUS
<1>6. P(b - a)
  BY <1>4, <1>5 DEF S
<1> QED BY <1>5, <1>6 DEF P

\* A parse that has failed does not recover.
LEMMA ParseFails ==
    ASSUME NEW t, NEW p, NEW n \in Nat, NEW X, NEW lines \in Seq(X),
           lines # << >>, lines[1].kind = "bad"
    PROVE  ~parse_lines(t, p, n, lines).ok
<1> DEFINE Q(k) == parse_lines(t, p, n, SubSeq(lines, 0 + 1, k))
           S == {k \in Nat : k + 1 <= Len(lines) => IsScan(Q(k + 1)) /\ ~Q(k + 1).ok}
<1>1. Q(0) = Unparsed(p, n)
  <2>1. SubSeq(lines, 0 + 1, 0) = << >>
    OBVIOUS
  <2> QED BY <2>1, ParseEmpty
<1>2. ASSUME NEW k \in Nat, k < Len(lines)
      PROVE  Q(k + 1) = parse_next(t, Q(k), lines[k + 1])
  <2>1. 0 \in Nat /\ 0 <= k
    OBVIOUS
  <2>2. parse_lines(t, p, n, SubSeq(lines, 0 + 1, k + 1))
          = parse_next(t, parse_lines(t, p, n, SubSeq(lines, 0 + 1, k)), lines[k + 1])
    BY <1>2, <2>1, ParseStep
  <2> QED BY <2>2
<1> HIDE DEF Q
<1>3. Len(lines) \in Nat /\ 1 <= Len(lines)
  OBVIOUS
<1>4. 0 \in S
  <2>1. Q(0 + 1) = parse_next(t, Unparsed(p, n), lines[1])
    BY <1>1, <1>2, <1>3
  <2>2. IsScan(Q(0 + 1)) /\ ~Q(0 + 1).ok
    BY <2>1, UnparsedIsScan, NextScan
  <2> QED BY <2>2
<1>5. ASSUME NEW k \in S PROVE k + 1 \in S
  <2>1. k \in Nat /\ k + 1 \in Nat
    BY <1>5
  <2>2. SUFFICES ASSUME (k + 1) + 1 <= Len(lines)
                 PROVE  IsScan(Q((k + 1) + 1)) /\ ~Q((k + 1) + 1).ok
    BY <2>1
  <2>3. IsScan(Q(k + 1)) /\ ~Q(k + 1).ok /\ k + 1 < Len(lines)
    BY <1>3, <1>5, <2>1, <2>2
  <2>4. Q((k + 1) + 1) = parse_next(t, Q(k + 1), lines[(k + 1) + 1])
    BY <1>2, <2>1, <2>3
  <2> QED BY <2>3, <2>4, NextScan
<1>6. S \in SUBSET Nat
  OBVIOUS
<1> HIDE DEF S
<1>7. S = Nat
  BY <1>4, <1>5, <1>6, SetInduction
<1>8. ~Q(Len(lines)).ok
  <2>1. Len(lines) - 1 \in S /\ (Len(lines) - 1) + 1 = Len(lines)
    BY <1>3, <1>7
  <2> QED BY <1>3, <2>1 DEF S
<1>9. SubSeq(lines, 0 + 1, Len(lines)) = lines
  OBVIOUS
<1> QED BY <1>8, <1>9 DEF Q

\* The events of two parses, one after the other.
Joined(x, y) == x.events \o y.events

\* A parse that goes on at line b where one from line a stopped.
LEMMA SpansJoin ==
    ASSUME NEW t, NEW p, NEW X, NEW c \in Seq(X),
           NEW a \in Nat, NEW b \in Nat, NEW e \in Nat, a <= b, b <= e, e <= Len(c),
           NEW x, x = Span(t, p, c, a, b), x.ok,
           NEW ye, ye = Span(t, x.parser, c, b, e), ye.ok,
           NEW ze, ze = Span(t, p, c, a, e)
    PROVE  ze.ok /\ ze.parser = ye.parser /\ ze.events = Joined(x, ye)
<1> DEFINE y(k) == Span(t, x.parser, c, b, k)
           z(k) == Span(t, p, c, a, k)
           P(k) == y(k).ok => /\ z(k).ok /\ z(k).parser = y(k).parser
                              /\ z(k).events = x.events \o y(k).events
           S == {d \in Nat : b + d <= Len(c) => P(b + d)}
<1>1. IsScan(x) /\ x.n = b /\ x.ok
  BY SpanIsScan
<1>2. ASSUME NEW k \in Nat, b <= k, k <= Len(c)
      PROVE  /\ IsScan(y(k)) /\ (y(k).ok => y(k).n = k)
             /\ IsScan(z(k)) /\ (z(k).ok => z(k).n = k)
             /\ k < Len(c) => /\ y(k + 1) = parse_next(t, y(k), c[k + 1])
                              /\ z(k + 1) = parse_next(t, z(k), c[k + 1])
  <2>1. a <= k
    BY <1>2
  <2> QED BY <1>2, <2>1, SpanIsScan, SpanStep
<1>3. y(b) = Unparsed(x.parser, b) /\ z(b) = x
  BY SpanEmpty
<1> HIDE DEF y, z
<1>4. P(b)
  <2>1. y(b).parser = x.parser /\ y(b).events = << >>
    BY <1>3, UnparsedIsScan
  <2>2. x.events \o << >> = x.events
    BY <1>1, SequencesJoin DEF IsScan
  <2> QED BY <1>1, <1>3, <2>1, <2>2
<1>5. ASSUME NEW k \in Nat, b <= k, k < Len(c), P(k) PROVE P(k + 1)
  <2> DEFINE l == c[k + 1]
             q == parse_line(t, y(k).parser, l)
  <2>1. /\ IsScan(y(k)) /\ (y(k).ok => y(k).n = k) /\ y(k + 1) = parse_next(t, y(k), l)
        /\ IsScan(z(k)) /\ (z(k).ok => z(k).n = k) /\ z(k + 1) = parse_next(t, z(k), l)
    BY <1>2, <1>5
  <2> HIDE DEF l
  <2>2. SUFFICES ASSUME y(k + 1).ok
                 PROVE  /\ z(k + 1).ok /\ z(k + 1).parser = y(k + 1).parser
                        /\ z(k + 1).events = x.events \o y(k + 1).events
    OBVIOUS
  <2>3. /\ y(k).ok /\ l.kind # "bad" /\ y(k + 1).parser = q.parser
        /\ y(k + 1).events = IF q.type = None THEN y(k).events
                             ELSE Append(y(k).events, NextEvent(t, y(k), l))
    BY <2>1, <2>2, NextScan
  <2>4. z(k).ok /\ z(k).parser = y(k).parser /\ z(k).events = x.events \o y(k).events
    BY <1>5, <2>3
  <2>5. z(k).n = y(k).n
    BY <2>1, <2>3, <2>4
  <2>6. NextEvent(t, z(k), l) = NextEvent(t, y(k), l)
    BY <2>4, <2>5 DEF NextEvent
  <2>7. z(k + 1).ok
    BY <2>1, <2>3, <2>4, NextScan
  <2>8. /\ z(k + 1).parser = q.parser
        /\ z(k + 1).events = IF q.type = None THEN z(k).events
                             ELSE Append(z(k).events, NextEvent(t, y(k), l))
    <3>1. /\ z(k + 1).parser = parse_line(t, z(k).parser, l).parser
          /\ z(k + 1).events = IF parse_line(t, z(k).parser, l).type = None THEN z(k).events
                               ELSE Append(z(k).events, NextEvent(t, z(k), l))
      BY <2>1, <2>7, NextScan
    <3> QED BY <2>4, <2>6, <3>1
  <2> DEFINE v == NextEvent(t, y(k), l)
  <2> HIDE DEF v
  <2>9. Append(x.events \o y(k).events, v) = x.events \o Append(y(k).events, v)
    <3>1. IsSequence(x.events) /\ IsSequence(y(k).events)
      BY <1>1, <2>1 DEF IsScan
    <3> DEFINE u == x.events
               v0 == y(k).events
    <3>2. IsSequence(u) /\ IsSequence(v0)
      BY <3>1
    <3> HIDE DEF u, v0
    <3>3. Append(u \o v0, v) = u \o Append(v0, v)
      BY <3>2, SequencesJoin
    <3> QED BY <3>3 DEF u, v0
  <2> QED BY <2>3, <2>4, <2>7, <2>8, <2>9 DEF v
<1> HIDE DEF P
<1>6. 0 \in S
  BY <1>4
<1>7. ASSUME NEW d \in S PROVE d + 1 \in S
  <2>1. d \in Nat /\ (b + d <= Len(c) => P(b + d))
    BY <1>7
  <2>2. SUFFICES ASSUME b + (d + 1) <= Len(c) PROVE P(b + (d + 1))
    BY <2>1
  <2>3. b + d \in Nat /\ b <= b + d /\ b + d < Len(c) /\ (b + d) + 1 = b + (d + 1)
    BY <2>1, <2>2
  <2>4. P((b + d) + 1)
    BY <1>5, <2>1, <2>3
  <2> QED BY <2>3, <2>4
<1>8. S \in SUBSET Nat
  OBVIOUS
<1> HIDE DEF S
<1>9. S = Nat
  BY <1>6, <1>7, <1>8, SetInduction
<1>10. P(e)
  <2>1. e - b \in Nat /\ b + (e - b) = e
    OBVIOUS
  <2> QED BY <1>9, <2>1 DEF S
<1> QED BY <1>10 DEF P, y, z, Joined

-----------------------------------------------------------------------------
(***************************************************************************)
(* The invariant of the watcher. taken is what it has made of each file    *)
(* since it took it over; a cursor, or the plan of a scan, that is of the  *)
(* same file as it is now stands where a parse from there on has come to.  *)
(***************************************************************************)
\* The events taken of a file are those of one parse from its start to offset, and
\* the parser there is the given one.
Read(f, offset, parser) ==
    LET since == taken[f]
        from == since.from \div 2
        parse == Span(tool, since.parser, Content(f), from, offset \div 2)
    IN /\ since.from \in Nat /\ offset \in Nat
       /\ offset = since.from \/ (/\ since.from < offset /\ offset <= files[f].len
                                  /\ Even(since.from) /\ Even(offset))
       /\ parse.ok /\ parse.parser = parser /\ parse.events = since.handed

\* What a file may hold.
Contents == (UNION {Scripts[t] : t \in Tools}) \cup {s.script[f] : s \in Starts, f \in Files}

\* A file holds a script, of which so many half lines are written.
FilesInv ==
    /\ tool \in Tools
    /\ files \in [Files -> [script : Contents, len : Nat, ino : Nat, gen : Nat]]
    /\ \A f \in Files : files[f].len <= 2 * Len(Content(f))

\* taken, the cursors and the watcher have their fields, which have no common type.
TakenShape ==
    taken = [f \in Files |-> [gen |-> taken[f].gen, from |-> taken[f].from,
                              handed |-> taken[f].handed, parser |-> taken[f].parser]]

CursorShape == cursors = [f \in Files |-> cursors[f]]

WatcherShape ==
    /\ watcher = [pc |-> watcher.pc, initialized |-> watcher.initialized, todo |-> watcher.todo,
                  at |-> watcher.at, plan |-> watcher.plan, events |-> watcher.events,
                  after |-> watcher.after]
    /\ watcher.after # "read"

\* What was taken is of the file as it is or as it was.
TakenInv == \A f \in Files : taken[f].gen \in Int /\ taken[f].gen <= files[f].gen

\* A cursor into the file that was taken over stands where its parse has come to.
CursorReads(f) ==
    taken[f].gen = files[f].gen => Read(f, cursors[f].offset, cursors[f].parser)

CursorInv ==
    \A f \in Files : cursors[f] # NoCursor => cursors[f].offset \in Nat /\ CursorReads(f)

\* A scan is planned in one step and read in another: the plan starts the file
\* over or goes on where the cursor stood.
PlanReads(f, plan) ==
    /\ f \in Files /\ plan.start \in Nat
    /\ plan.reset => plan.start = 0
    /\ ~plan.reset /\ taken[f].gen = files[f].gen => Read(f, plan.start, plan.parser)

PlanInv == watcher.pc = "read" => PlanReads(watcher.at, watcher.plan)

Shapes == TakenShape /\ CursorShape /\ WatcherShape

ScanInv == FilesInv /\ Shapes /\ TakenInv /\ CursorInv /\ PlanInv

-----------------------------------------------------------------------------
(***************************************************************************)
(* The invariant of the provider. The index was built when the files were  *)
(* other than they are: an entry says what its file was, under a           *)
(* modification that was looked up before the file was read.               *)
(***************************************************************************)
\* An entry of the index: what it says of its file was so once.
IsEntry(e) ==
    /\ e = [file |-> e.file, script |-> e.script, gen |-> e.gen, lines |-> e.lines, sign |-> e.sign]
    /\ e.file \in Files /\ e.gen \in Nat /\ e.lines \in Nat
    /\ e.gen <= files[e.file].gen
    /\ e.gen = files[e.file].gen => e.script = Content(e.file)

\* A modification that the file has had, and complete lines that it has had.
Signed(f, sign) ==
    /\ sign = <<sign[1], sign[2]>> /\ sign[1] \in Nat /\ sign[2] \in Nat
    /\ sign[1] <= files[f].gen
    /\ sign[1] = files[f].gen => sign[2] <= files[f].len

Had(f, then) ==
    /\ then.gen \in Nat /\ then.lines \in Nat
    /\ then.gen <= files[f].gen
    /\ then.gen = files[f].gen => then.lines <= Complete(f)

\* The lines were read after the modification was looked up.
SignedBefore(e) ==
    /\ e.sign[1] \in Nat /\ e.sign[2] \in Nat
    /\ e.sign[1] < e.gen \/ (e.sign[1] = e.gen /\ e.sign[2] \div 2 <= e.lines)

Indexed(e) == IsEntry(e) /\ SignedBefore(e)

\* An entry holds all lines that its file had when the request came in, where the
\* request asks for the latest page.
Newer(e, then) == e.gen > then.gen \/ (e.gen = then.gen /\ e.lines >= then.lines)
UpToDate(e) == provider.latest /\ tool = "codex" => Newer(e, provider.asked[e.file])

\* The index enters each file under the session that the file is of.
IndexInv ==
    \A s \in Sessions : \A e \in {index[s]} : e # NoEntry => Indexed(e) /\ SessionOf(e) = s

ProviderShape ==
    provider = [pc |-> provider.pc, for |-> provider.for, latest |-> provider.latest,
                asked |-> provider.asked, signs |-> provider.signs, next |-> provider.next,
                retried |-> provider.retried, answer |-> provider.answer,
                page |-> provider.page, got |-> provider.got]

\* What the files were when the request came in,
AskedInv ==
    /\ provider.for \in Sessions \cup {None}
    /\ provider.for # None =>
          \A f \in Files : \A then \in {provider.asked[f]} : Had(f, then)

\* what a refresh has looked up and read so far,
RefreshInv ==
    /\ provider.pc = "parse" => \A f \in Files :
          /\ \A sign \in {provider.signs[f]} : Signed(f, sign)
          /\ \A e \in {provider.next[f]} : e # NoEntry => Indexed(e)
    /\ provider.pc = "apply" => \A f \in Files : \A e \in {provider.next[f]} : Indexed(e)

\* and what a request for a detail works with: it checks whose file an entry is, reads
\* anew what was modified, and compares every line of a page.
AsIndexed(e, got) == \A read \in got : read[1] \in 1..e.lines /\ read[2] = e.script[read[1]]
Detailing == {"check", "resign", "reparse", "lookup", "page", "lines", "answered"}

AnswerInv ==
    \A a \in {provider.answer} :
        /\ provider.pc \in Detailing => provider.for \in Sessions
        /\ provider.pc \in {"resign", "reparse", "page", "lines", "answered"} => IsEntry(a)
        /\ provider.pc = "reparse" => Signed(a.file, a.sign)
        /\ provider.pc \in {"page", "lines", "answered"} => SessionOf(a) = provider.for /\ UpToDate(a)
        /\ provider.pc = "lines" => provider.page \subseteq 1..a.lines
        /\ provider.pc \in {"lines", "answered"} => AsIndexed(a, provider.got)
        /\ provider.pc = "lookup" =>
              \A e \in {index[provider.for]} : e # NoEntry => UpToDate(e)

ProviderInv == FilesInv /\ IndexInv /\ ProviderShape /\ AskedInv /\ RefreshInv /\ AnswerInv

-----------------------------------------------------------------------------
(***************************************************************************)
(* What happens to files.                                                  *)
(***************************************************************************)
\* A file only grows, or is replaced by a new one.
FilesStep ==
    /\ tool' = tool
    /\ FilesInv'
    /\ \A f \in Files : /\ files'[f].gen >= files[f].gen
                        /\ files'[f].gen = files[f].gen =>
                              files'[f].script = files[f].script /\ files'[f].len >= files[f].len

\* A content is a sequence of lines.
LEMMA ContentsAreSequences ==
    \A c \in Contents : c \in Seq(ToSet(c)) /\ Len(c) \in Nat
<1> SUFFICES ASSUME NEW c \in Contents PROVE c \in Seq(ToSet(c))
  OBVIOUS
<1>3. CASE \E t \in Tools : c \in Scripts[t]
  BY <1>3, PluginFilesAssumption DEF IsContent
<1>4. CASE \E s \in Starts, f \in Files : c = s.script[f]
  <2>1. PICK s \in Starts, f \in Files : c = s.script[f]
    BY <1>4
  <2>2. IsContent(s.script[f])
    BY PluginFilesAssumption
  <2> QED BY <2>1, <2>2 DEF IsContent
<1>5. \/ c \in UNION {Scripts[t] : t \in Tools}
      \/ c \in {s.script[f] : s \in Starts, f \in Files}
  BY DEF Contents
<1>6. c \in UNION {Scripts[t] : t \in Tools} => \E t \in Tools : c \in Scripts[t]
  OBVIOUS
<1>7. c \in {s.script[f] : s \in Starts, f \in Files}
         => \E s \in Starts, f \in Files : c = s.script[f]
  OBVIOUS
<1> QED BY <1>3, <1>4, <1>5, <1>6, <1>7

\* Nothing is written, or one file is.
LEMMA FilesKept ==
    ASSUME FilesInv, UNCHANGED <<tool, files>>
    PROVE  FilesStep
BY DEF FilesInv, FilesStep, Content

LEMMA FilesChange ==
    ASSUME FilesInv, tool' = tool, NEW f \in Files,
           NEW r \in [script : Contents, len : Nat, ino : Nat, gen : Nat],
           files' = [files EXCEPT ![f] = r],
           r.len <= 2 * Len(r.script), r.gen >= files[f].gen,
           r.gen = files[f].gen => r.script = files[f].script /\ r.len >= files[f].len
    PROVE  FilesStep
<1>1. files' \in [Files -> [script : Contents, len : Nat, ino : Nat, gen : Nat]]
  BY DEF FilesInv
<1>2. \A g \in Files : files'[g] = IF g = f THEN r ELSE files[g]
  BY DEF FilesInv
<1>3. \A g \in Files : files'[g].len <= 2 * Len(files'[g].script)
  BY <1>2 DEF FilesInv, Content
<1> QED BY <1>1, <1>2, <1>3 DEF FilesInv, FilesStep, Content

\* Only the tool writes: it adds half a line, or starts the file over under the same
\* or another inode.
LEMMA StepKeepsFiles ==
    ASSUME FilesInv, [Next]_vars
    PROVE  FilesStep
<1>1. ASSUME NEW f \in Files, AppendHalfLine(f) PROVE FilesStep
  <2> DEFINE r == [files[f] EXCEPT !.len = @ + 1]
  <2>1. /\ files[f] \in [script : Contents, len : Nat, ino : Nat, gen : Nat]
        /\ files[f].len < 2 * Len(Content(f)) /\ tool' = tool
        /\ files' = [files EXCEPT ![f].len = @ + 1]
    BY <1>1 DEF FilesInv, AppendHalfLine
  <2>2. Len(Content(f)) \in Nat
    BY <2>1, ContentsAreSequences DEF Content
  <2>3. /\ r \in [script : Contents, len : Nat, ino : Nat, gen : Nat]
        /\ r.script = files[f].script /\ r.gen = files[f].gen /\ r.len = files[f].len + 1
    BY <2>1
  <2>4. files' = [files EXCEPT ![f] = r]
    BY <2>1 DEF FilesInv
  <2> HIDE DEF r
  <2>5. r.len <= 2 * Len(r.script) /\ r.len >= files[f].len /\ r.gen >= files[f].gen
    BY <2>1, <2>2, <2>3 DEF Content
  <2> QED BY <2>1, <2>3, <2>4, <2>5, FilesChange
<1>2. ASSUME NEW f \in Files, Rewrite(f) PROVE FilesStep
  <2>1. PICK s \in Scripts[tool], ino \in {files[f].ino, files[f].ino + 1} :
           files' = [files EXCEPT ![f] = [script |-> s, len |-> 0, ino |-> ino,
                                          gen |-> @.gen + 1]]
    BY <1>2 DEF Rewrite
  <2> DEFINE r == [script |-> s, len |-> 0, ino |-> ino, gen |-> files[f].gen + 1]
  <2>2. files[f] \in [script : Contents, len : Nat, ino : Nat, gen : Nat] /\ tool \in Tools
    BY DEF FilesInv
  <2>3. s \in Contents
    BY <2>2 DEF Contents
  <2>4. r \in [script : Contents, len : Nat, ino : Nat, gen : Nat]
    BY <2>2, <2>3
  <2>5. files' = [files EXCEPT ![f] = r] /\ tool' = tool
    BY <1>2, <2>1 DEF FilesInv, Rewrite
  <2>6. r.len <= 2 * Len(r.script) /\ r.gen > files[f].gen
    BY <2>2, <2>3, ContentsAreSequences
  <2> HIDE DEF r
  <2>7. r.gen \in Nat /\ files[f].gen \in Nat
    BY <2>2, <2>4
  <2>8. /\ r.len <= 2 * Len(r.script) /\ r.gen >= files[f].gen
        /\ r.gen = files[f].gen => r.script = files[f].script /\ r.len >= files[f].len
    BY <2>6, <2>7
  <2> QED BY <2>4, <2>5, <2>8, FilesChange
<1>3. ASSUME NEW f \in Files, GrowsOld(f) PROVE FilesStep
  BY <1>3, FilesKept DEF GrowsOld
<1>4. CASE SwitchListener \/ Settle
  <2>1. UNCHANGED <<tool, files>>
    BY <1>4 DEF SwitchListener, Settle, disk
  <2> QED BY <2>1, FilesKept
<1>5. CASE WatcherStep
  <2>1. UNCHANGED <<tool, files>>
    BY <1>5 DEF WatcherStep, StopListening, Listen, ReceivesNothing, flush_pending_dir,
       flush_pending_file, PlanScan, discover_recent_files, claude_discover_recent_files,
       NotDue, scan_active_files, scan_file, append_events, AppendFails, disk
  <2> QED BY <2>1, FilesKept
<1>6. CASE ProviderStep
  <2>1. UNCHANGED <<tool, files>>
    BY <1>6 DEF ProviderStep, session_snapshot_response, notify_snapshot_update_once,
       session_detail_response, snapshot_context, build_snapshot_refresh,
       apply_snapshot_refresh, session_detail, rebuild_session_index_from_file,
       replace_session_index, session_index, detail_from_index, read_messages_by_range,
     write_provider_message, Stale, ProviderRests, At, disk
  <2> QED BY <2>1, FilesKept
<1>7. CASE UNCHANGED vars
  BY <1>7, FilesKept DEF vars
<1> QED BY <1>1, <1>2, <1>3, <1>4, <1>5, <1>6, <1>7 DEF Next, ToolStep

-----------------------------------------------------------------------------
(***************************************************************************)
(* The steps of the watcher.                                               *)
(***************************************************************************)
\* What was read of a file remains what was read while the file grows.
LEMMA ReadKept ==
    ASSUME FilesInv, FilesStep, NEW f \in Files, taken'[f] = taken[f],
           files'[f].gen = files[f].gen, NEW o, NEW p, Read(f, o, p)
    PROVE  Read(f, o, p)'
<1>1. /\ tool' = tool /\ files'[f].script = files[f].script /\ files'[f].len >= files[f].len
      /\ files[f].len \in Nat /\ files'[f].len \in Nat
  BY DEF FilesStep, FilesInv
<1> DEFINE P == Span(tool, taken[f].parser, Content(f), taken[f].from \div 2, o \div 2)
<1>2. P' = P
  BY <1>1 DEF Span, Content
<1>3. /\ taken[f].from \in Nat /\ o \in Nat
      /\ o = taken[f].from \/ (/\ taken[f].from < o /\ o <= files[f].len
                               /\ Even(taken[f].from) /\ Even(o))
      /\ P.ok /\ P.parser = p /\ P.events = taken[f].handed
  BY DEF Read
<1> HIDE DEF P
<1>4. /\ taken'[f].from \in Nat /\ o \in Nat
      /\ o = taken'[f].from \/ (/\ taken'[f].from < o /\ o <= files'[f].len
                                /\ Even(taken'[f].from) /\ Even(o))
      /\ P'.ok /\ P'.parser = p /\ P'.events = taken'[f].handed
  BY <1>1, <1>2, <1>3
<1> QED BY <1>4 DEF Read, P, Even

\* Steps that neither read nor plan to read.
LEMMA ScanKept ==
    ASSUME ScanInv, FilesStep, taken' = taken,
           CursorShape',
           \A f \in Files : cursors'[f] \in {cursors[f], NoCursor},
           WatcherShape',
           watcher'.pc = "read" => /\ watcher.pc = "read"
                                   /\ watcher'.at = watcher.at /\ watcher'.plan = watcher.plan
    PROVE  ScanInv'
<1>1. FilesInv /\ FilesInv' /\ TakenInv /\ CursorInv /\ PlanInv
  BY DEF ScanInv, FilesStep
<1>2. TakenInv'
  <2>1. SUFFICES ASSUME NEW f \in Files PROVE taken[f].gen \in Int /\ taken[f].gen <= files'[f].gen
    BY DEF TakenInv
  <2>2. files'[f].gen >= files[f].gen /\ files'[f].gen \in Nat /\ files[f].gen \in Nat
    BY <1>1 DEF FilesStep, FilesInv
  <2> QED BY <1>1, <2>2 DEF TakenInv
<1>3. ASSUME NEW f \in Files, taken[f].gen = files'[f].gen
      PROVE  files'[f].gen = files[f].gen
  <2>1. files'[f].gen >= files[f].gen /\ files'[f].gen \in Nat /\ files[f].gen \in Nat
    BY <1>1 DEF FilesStep, FilesInv
  <2> QED BY <1>1, <1>3, <2>1 DEF TakenInv
<1>4. CursorInv'
  <2>1. SUFFICES ASSUME NEW f \in Files, cursors'[f] # NoCursor
                 PROVE  cursors'[f].offset \in Nat /\ CursorReads(f)'
    BY DEF CursorInv
  <2>2. cursors'[f] = cursors[f] /\ cursors[f].offset \in Nat /\ CursorReads(f)
    BY <1>1, <2>1 DEF CursorInv
  <2>3. SUFFICES ASSUME taken[f].gen = files'[f].gen PROVE CursorReads(f)'
    BY <2>2 DEF CursorReads
  <2>4. PICK o, p : o = cursors[f].offset /\ p = cursors[f].parser
    OBVIOUS
  <2>5. Read(f, o, p)
    BY <1>3, <2>2, <2>3, <2>4 DEF CursorReads
  <2>6. Read(f, o, p)'
    BY <1>1, <1>3, <2>3, <2>5, ReadKept
  <2>7. o = cursors'[f].offset /\ p = cursors'[f].parser
    BY <2>2, <2>4
  <2> QED BY <2>6, <2>7 DEF CursorReads, Read, Content
<1>5. PlanInv'
  <2>1. CASE watcher'.pc # "read"
    BY <2>1 DEF PlanInv
  <2>2. CASE watcher'.pc = "read"
    <3>1. PICK f, plan : f = watcher.at /\ plan = watcher.plan
      OBVIOUS
    <3>2. f = watcher'.at /\ plan = watcher'.plan
      BY <2>2, <3>1
    <3>3. PlanReads(f, plan)
      BY <1>1, <2>2, <3>1 DEF PlanInv
    <3>4. ASSUME ~plan.reset, taken[f].gen = files'[f].gen
          PROVE  Read(f, plan.start, plan.parser)'
      <4>1. f \in Files /\ Read(f, plan.start, plan.parser)
        BY <1>3, <3>3, <3>4 DEF PlanReads
      <4> QED BY <1>1, <1>3, <3>4, <4>1, ReadKept
    <3>5. PlanReads(f, plan)'
      BY <3>3, <3>4 DEF PlanReads
    <3> QED BY <3>2, <3>5 DEF PlanInv, PlanReads, Read, Content
  <2> QED BY <2>1, <2>2
<1>6. Shapes'
  BY DEF ScanInv, Shapes, TakenShape
<1> QED BY <1>1, <1>2, <1>4, <1>5, <1>6 DEF ScanInv

\* Reading from the end of what was read so far reads nothing yet.
LEMMA NothingRead ==
    ASSUME NEW t, NEW p, NEW X, NEW c \in Seq(X), NEW a \in Nat, NEW b \in Nat, b <= a
    PROVE  /\ Span(t, p, c, a, b).ok
           /\ Span(t, p, c, a, b).parser = p
           /\ Span(t, p, c, a, b).events = << >>
<1>1. Span(t, p, c, a, b) = Unparsed(p, a)
  BY SpanEmpty
<1> QED BY <1>1, UnparsedIsScan

\* Lengths and offsets count half lines.
LEMMA Halves ==
    /\ \A n \in Nat : n \div 2 \in Nat /\ 2 * (n \div 2) <= n /\ n < 2 * (n \div 2) + 2
    /\ \A n \in Nat : Even(n) => 2 * (n \div 2) = n /\ (n + 1) \div 2 = n \div 2
    /\ \A n \in Nat : ~Even(n) => n = 2 * (n \div 2) + 1 /\ (n + 1) \div 2 = n \div 2 + 1
    /\ \A n \in Nat : Even(2 * n) /\ (2 * n) \div 2 = n
    /\ \A m, n \in Nat : m <= n => m \div 2 <= n \div 2
BY DEF Even

\* The complete lines of a file are lines of its content.
LEMMA ContentTyped ==
    ASSUME FilesInv, NEW f \in Files
    PROVE  /\ Content(f) \in Seq(ToSet(Content(f)))
           /\ Len(Content(f)) \in Nat
           /\ files[f].len \in Nat /\ files[f].gen \in Nat
           /\ Complete(f) \in Nat /\ 2 * Complete(f) <= files[f].len
           /\ Complete(f) <= Len(Content(f))
<1>1. /\ files[f].script \in Contents /\ files[f].len \in Nat /\ files[f].gen \in Nat
      /\ files[f].len <= 2 * Len(Content(f))
  BY DEF FilesInv
<1>2. Content(f) \in Seq(ToSet(Content(f))) /\ Len(Content(f)) \in Nat
  BY <1>1, ContentsAreSequences DEF Content
<1>3. Complete(f) \in Nat /\ 2 * Complete(f) <= files[f].len
  BY <1>1, Halves DEF Complete
<1> QED BY <1>1, <1>2, <1>3

\* A scan that parses what it read took the complete lines from its start on,
\* and goes on behind them.
LEMMA NewLines ==
    ASSUME FilesInv, NEW f \in Files, NEW start \in Nat, NEW p,
           NEW read, read = read_new_event_lines(f, start),
           NEW scan, scan = parse_lines(tool, p, start \div 2, read.lines), scan.ok,
           NEW o, o = read.next_offset
    PROVE  /\ o \in Nat
           /\ scan = Span(tool, p, Content(f), start \div 2, o \div 2)
           /\ o = start \/ (start < o /\ o <= files[f].len /\ Even(start) /\ Even(o))
<1> DEFINE c == Content(f)
           e == Complete(f)
           len == files[f].len
           s == start \div 2
           rest == SubSeq(c, (start + 1) \div 2 + 1, e)
           lines == read.lines
<1>1. /\ c \in Seq(ToSet(c)) /\ len \in Nat /\ e \in Nat
      /\ 2 * e <= len /\ e <= Len(c) /\ s \in Nat /\ e = len \div 2
  BY ContentTyped, Halves DEF Complete
<1>2. /\ lines = IF ~Even(start) /\ len > start THEN <<Garbage>> \o rest ELSE rest
      /\ o = IF start > 2 * e THEN start ELSE 2 * e
  BY DEF read_new_event_lines, Greater
<1> HIDE DEF c, e, len
<1>3. o \in Nat
  BY <1>1, <1>2
<1>4. Even(start) \/ len <= start
  <2>1. SUFFICES ASSUME ~Even(start), len > start PROVE FALSE
    BY <1>1
  <2> DEFINE X == ToSet(c) \cup {Garbage}
  <2>2. rest \in Seq(ToSet(c)) /\ <<Garbage>> \in Seq(X)
    <3>1. (start + 1) \div 2 \in Nat
      BY Halves
    <3> QED BY <1>1, <3>1
  <2>3. rest \in Seq(X)
    BY <2>2, SeqMonotonic
  <2> HIDE DEF X, rest
  <2>4. lines \in Seq(X) /\ lines # << >> /\ lines[1] = Garbage
    BY <1>2, <2>1, <2>2, <2>3
  <2>5. lines[1].kind = "bad"
    BY <2>4 DEF Garbage, Line
  <2> QED BY <1>1, <2>4, <2>5, ParseFails
<1>5. CASE Even(start)
  <2>1. lines = SubSeq(c, s + 1, e)
    BY <1>2, <1>5, Halves
  <2>2. CASE start > 2 * e
    <3>1. o = start /\ e <= s
      BY <1>1, <1>2, <2>2, Halves
    <3>2. SubSeq(c, s + 1, e) = SubSeq(c, s + 1, s)
      BY <1>1, <3>1
    <3> QED BY <1>3, <2>1, <3>1, <3>2 DEF Span, c
  <2>3. CASE ~(start > 2 * e)
    <3>1. o = 2 * e /\ o \div 2 = e /\ Even(o)
      BY <1>1, <1>2, <2>3, Halves
    <3>2. o = start \/ start < o
      BY <1>1, <2>3, <3>1
    <3> QED BY <1>1, <1>3, <1>5, <2>1, <3>1, <3>2 DEF Span, c, len
  <2> QED BY <2>2, <2>3
<1>6. CASE ~Even(start)
  <2>1. len <= start /\ 2 * e <= start /\ (start + 1) \div 2 = s + 1 /\ e <= s
    BY <1>1, <1>4, <1>6, Halves
  <2>2. o = start /\ lines = rest
    BY <1>1, <1>2, <2>1
  <2>3. rest = SubSeq(c, s + 1, s)
    BY <1>1, <2>1
  <2> QED BY <1>3, <2>2, <2>3 DEF Span, c
<1> QED BY <1>5, <1>6

\* The events of a scan after those that were taken before.
Longer(since, scan) == since.handed \o scan.events

\* What is read from now on and what was read before are one parse.
LEMMA ReadOn ==
    ASSUME FilesInv, NEW f \in Files, NEW start \in Nat, NEW p, Read(f, start, p),
           NEW o \in Nat,
           o = start \/ (start < o /\ o <= files[f].len /\ Even(start) /\ Even(o)),
           NEW scan, scan = Span(tool, p, Content(f), start \div 2, o \div 2), scan.ok
    PROVE  LET since == taken[f]
               parse == Span(tool, since.parser, Content(f), since.from \div 2, o \div 2)
           IN /\ o = since.from \/ (/\ since.from < o /\ o <= files[f].len
                                    /\ Even(since.from) /\ Even(o))
              /\ parse.ok /\ parse.parser = scan.parser
              /\ parse.events = Longer(since, scan)
<1> DEFINE c == Content(f)
           from == taken[f].from
           q == taken[f].parser
           a == from \div 2
           b == start \div 2
           e == o \div 2
           x == Span(tool, q, c, a, b)
           z == Span(tool, q, c, a, e)
<1>1. /\ from \in Nat
      /\ start = from \/ (from < start /\ start <= files[f].len /\ Even(from) /\ Even(start))
      /\ x.ok /\ x.parser = p /\ x.events = taken[f].handed
  BY DEF Read
<1>2. c \in Seq(ToSet(c)) /\ files[f].len \in Nat /\ files[f].len <= 2 * Len(c) /\ Len(c) \in Nat
  BY ContentTyped DEF FilesInv
<1>3. o = from \/ (from < o /\ o <= files[f].len /\ Even(from) /\ Even(o))
  BY <1>1, <1>2
<1>4. a \in Nat /\ b \in Nat /\ e \in Nat /\ a <= b /\ b <= e
  BY <1>1, Halves
<1> HIDE DEF c, from, a, b, e
<1>5. CASE o = from
  <2>1. a = b /\ b = e
    BY <1>1, <1>4, <1>5 DEF a, b, e
  <2>2. x.ok /\ x.parser = q /\ x.events = << >>
    BY <1>2, <1>4, <2>1, NothingRead
  <2>3. scan.ok /\ scan.parser = p /\ scan.events = << >>
    BY <1>2, <1>4, <2>1, NothingRead DEF b, c, e
  <2>4. taken[f].handed \o << >> = << >>
    BY <1>1, <2>2
  <2> QED BY <1>1, <1>3, <2>1, <2>2, <2>3, <2>4 DEF from, c, a, b, e, Longer
<1>6. CASE o # from
  <2>1. o <= files[f].len
    BY <1>3, <1>6
  <2>2. e <= Len(c)
    BY <1>2, <1>4, <2>1, Halves DEF e
  <2>3. scan = Span(tool, x.parser, c, b, e)
    BY <1>1 DEF b, c, e
  <2> HIDE DEF x, q
  <2>4. z.ok /\ z.parser = scan.parser /\ z.events = x.events \o scan.events
    <3>1. x = Span(tool, q, c, a, b) /\ z = Span(tool, q, c, a, e)
      BY DEF x
    <3> HIDE DEF z
    <3> DEFINE X == ToSet(c)
    <3>2. c \in Seq(X) /\ a \in Nat /\ b \in Nat /\ e \in Nat /\ a <= b /\ b <= e /\ e <= Len(c)
      BY <1>2, <1>4, <2>2
    <3> HIDE DEF X
    <3>3. x.ok /\ scan.ok
      BY <1>1
    <3>4. z.ok /\ z.parser = scan.parser /\ z.events = Joined(x, scan)
      BY <2>3, <3>1, <3>2, <3>3, SpansJoin
    <3> QED BY <3>4 DEF Joined
  <2> HIDE DEF z
  <2> QED BY <1>1, <1>3, <2>4 DEF z, x, q, c, from, a, e, Longer
<1> QED BY <1>5, <1>6

\* A scan that parses leaves the file read up to its new cursor.
LEMMA ScanReads ==
    ASSUME ScanInv, FilesInv', UNCHANGED <<tool, files>>,
           NEW f \in Files, NEW plan, PlanReads(f, plan),
           NEW before, before = IF plan.reset \/ taken[f].gen # files[f].gen
                                THEN [gen |-> files[f].gen, from |-> plan.start,
                                      handed |-> << >>, parser |-> plan.parser]
                                ELSE taken[f],
           NEW misplaced \in {FALSE, plan.start > 0 /\ taken[f].gen # files[f].gen},
           NEW read, read = read_new_event_lines(f, plan.start),
           NEW scan, scan = parse_lines(tool, plan.parser, plan.start \div 2,
                                IF misplaced THEN <<Garbage>> ELSE read.lines),
           scan.ok,
           taken' = [taken EXCEPT ![f] = [before EXCEPT !.handed = @ \o scan.events]]
    PROVE  /\ taken'[f].gen = files[f].gen
           /\ read.next_offset \in Nat
           /\ Read(f, read.next_offset, scan.parser)'
<1> DEFINE o == read.next_offset
           start == plan.start
           p == plan.parser
           since == taken'[f]
<1>1. start \in Nat
  BY DEF PlanReads
<1>2. ~misplaced
  <2> SUFFICES ASSUME misplaced PROVE FALSE
    OBVIOUS
  <2> DEFINE g == <<Garbage>>
  <2>1. g \in Seq({Garbage}) /\ g # << >> /\ g[1].kind = "bad"
    BY DEF Garbage, Line
  <2>2. scan = parse_lines(tool, p, start \div 2, g)
    OBVIOUS
  <2>3. start \div 2 \in Nat
    BY <1>1, Halves
  <2> HIDE DEF g
  <2> QED BY <2>1, <2>2, <2>3, ParseFails
<1>3. scan = parse_lines(tool, p, start \div 2, read.lines)
  BY <1>2
<1>4. /\ o \in Nat
      /\ scan = Span(tool, p, Content(f), start \div 2, o \div 2)
      /\ o = start \/ (start < o /\ o <= files[f].len /\ Even(start) /\ Even(o))
  <2>1. FilesInv
    BY DEF ScanInv
  <2> QED BY <1>1, <1>3, <2>1, NewLines
<1>5. /\ TakenShape /\ f \in DOMAIN taken
      /\ before = [gen |-> before.gen, from |-> before.from, handed |-> before.handed,
                   parser |-> before.parser]
  BY DEF ScanInv, Shapes, TakenShape
<1>6. since = [before EXCEPT !.handed = @ \o scan.events]
  BY <1>5
<1>7. /\ since.gen = before.gen /\ since.from = before.from /\ since.parser = before.parser
      /\ since.handed = before.handed \o scan.events
  BY <1>5, <1>6
<1>8. since.gen = files[f].gen
  BY <1>7
<1>9. Content(f)' = Content(f) /\ files'[f] = files[f] /\ tool' = tool
  BY DEF Content
<1> DEFINE parse == Span(tool, since.parser, Content(f), since.from \div 2, o \div 2)
<1>10. /\ since.from \in Nat
       /\ o = since.from \/ (since.from < o /\ o <= files[f].len /\ Even(since.from) /\ Even(o))
       /\ parse.ok /\ parse.parser = scan.parser /\ parse.events = since.handed
  <2>1. CASE plan.reset \/ taken[f].gen # files[f].gen
    <3>1. before = [gen |-> files[f].gen, from |-> start, handed |-> << >>, parser |-> p]
      BY <2>1
    <3>2. since.from = start /\ since.parser = p /\ since.handed = << >> \o scan.events
      <4>1. before.from = start /\ before.parser = p /\ before.handed = << >>
        BY <3>1
      <4> HIDE DEF since, start, p
      <4> QED BY <1>7, <4>1
    <3>3. parse = scan
      BY <1>4, <3>2
    <3>4. IsSequence(scan.events)
      <4>1. IsScan(scan)
        <5> DEFINE a == start \div 2
                   b == o \div 2
        <5>1. FilesInv
          BY DEF ScanInv
        <5>0. files[f].len \in Nat
          BY <5>1, ContentTyped
        <5>2. a \in Nat /\ b \in Nat /\ a <= b
          <6>1. start \in Nat /\ o \in Nat /\ start <= o
            BY <1>1, <1>4, <5>0
          <6> HIDE DEF start, o
          <6> QED BY <6>1, Halves
        <5>3. /\ Content(f) \in Seq(ToSet(Content(f))) /\ files[f].len \in Nat
              /\ files[f].len <= 2 * Len(Content(f)) /\ Len(Content(f)) \in Nat
          BY <5>1, ContentTyped DEF FilesInv
        <5>4. scan = Span(tool, p, Content(f), a, b)
          BY <1>4
        <5>5. CASE o = start
          <6>1. scan = Unparsed(p, a)
            <7>1. a = b
              BY <5>5
            <7> HIDE DEF a, b
            <7> QED BY <5>2, <5>3, <5>4, <7>1, SpanEmpty
          <6> QED BY <5>2, <6>1, UnparsedIsScan
        <5>6. CASE o # start
          <6>1. b <= Len(Content(f))
            <7>1. o \in Nat /\ o <= 2 * Len(Content(f)) /\ Len(Content(f)) \in Nat
              BY <1>4, <5>3, <5>6
            <7> HIDE DEF o
            <7> QED BY <7>1, Halves
          <6> HIDE DEF a, b
          <6> QED BY <5>2, <5>3, <5>4, <6>1, SpanIsScan
        <5> QED BY <5>5, <5>6
      <4> QED BY <4>1 DEF IsScan
    <3>5. << >> \o scan.events = scan.events
      BY <3>4 DEF IsSequence
    <3> QED BY <1>1, <1>4, <3>2, <3>3, <3>5
  <2>2. CASE ~(plan.reset \/ taken[f].gen # files[f].gen)
    <3>1. Read(f, start, p) /\ before = taken[f]
      BY <2>2 DEF PlanReads
    <3>2. since.from = taken[f].from /\ since.parser = taken[f].parser
          /\ since.handed = taken[f].handed \o scan.events
      BY <1>7, <3>1
    <3>3. FilesInv
      BY DEF ScanInv
    <3> HIDE DEF o, start, p
    <3> DEFINE q == Span(tool, taken[f].parser, Content(f), taken[f].from \div 2, o \div 2)
    <3>4. /\ o = taken[f].from \/ (/\ taken[f].from < o /\ o <= files[f].len
                                   /\ Even(taken[f].from) /\ Even(o))
          /\ q.ok /\ q.parser = scan.parser /\ q.events = Longer(taken[f], scan)
      BY <1>1, <1>4, <3>1, <3>3, ReadOn
    <3>5. parse = q
      BY <3>2
    <3>6. taken[f].from \in Nat
      BY <3>1 DEF Read
    <3> HIDE DEF q, parse, since
    <3> QED BY <3>2, <3>4, <3>5, <3>6 DEF Longer
  <2> QED BY <2>1, <2>2
<1>11. Read(f, o, scan.parser)'
  <2> PICK k, r : k = o /\ r = scan.parser
    OBVIOUS
  <2>1. parse = Span(tool', taken'[f].parser, Content(f)', taken'[f].from \div 2, k \div 2)
    BY <1>9
  <2> HIDE DEF o, parse
  <2>2. Read(f, k, r)'
    BY <1>4, <1>9, <1>10, <2>1 DEF Read, Even
  <2> QED BY <2>2 DEF Read, o
<1> QED BY <1>4, <1>8, <1>11

\* The files and what was taken of the others stay.
LEMMA OthersReadOn ==
    ASSUME ScanInv, FilesStep, UNCHANGED files, NEW S, TakenShape', CursorShape', WatcherShape',
           watcher'.pc # "read",
           \A f \in Files \ S : cursors'[f] = cursors[f] /\ taken'[f] = taken[f],
           \A f \in Files \cap S : /\ taken'[f].gen = files[f].gen
                                   /\ cursors'[f].offset \in Nat
                                   /\ CursorReads(f)'
    PROVE  ScanInv'
<1>1. FilesInv /\ FilesInv' /\ TakenInv /\ CursorInv
  BY DEF ScanInv, FilesStep
<1>2. TakenInv'
  <2> SUFFICES ASSUME NEW f \in Files PROVE taken'[f].gen \in Int /\ taken'[f].gen <= files[f].gen
    BY DEF TakenInv
  <2>1. files[f].gen \in Nat
    BY <1>1 DEF FilesInv
  <2> QED BY <1>1, <2>1 DEF TakenInv
<1>3. CursorInv'
  <2> SUFFICES ASSUME NEW f \in Files, cursors'[f] # NoCursor
               PROVE  cursors'[f].offset \in Nat /\ CursorReads(f)'
    BY DEF CursorInv
  <2>1. CASE f \in S
    BY <2>1
  <2>2. CASE f \notin S
    <3>1. /\ cursors'[f] = cursors[f] /\ taken'[f] = taken[f]
          /\ cursors[f].offset \in Nat /\ CursorReads(f)
      BY <1>1, <2>2 DEF CursorInv
    <3>2. SUFFICES ASSUME taken[f].gen = files[f].gen PROVE CursorReads(f)'
      BY <3>1 DEF CursorReads
    <3>3. PICK o, p : o = cursors[f].offset /\ p = cursors[f].parser
      OBVIOUS
    <3>4. Read(f, o, p)
      BY <3>1, <3>2, <3>3 DEF CursorReads
    <3>5. Read(f, o, p)'
      BY <1>1, <3>1, <3>4, ReadKept
    <3>6. o = cursors'[f].offset /\ p = cursors'[f].parser
      BY <3>1, <3>3
    <3> QED BY <3>5, <3>6 DEF CursorReads, Read, Content
  <2> QED BY <2>1, <2>2
<1>4. PlanInv'
  BY DEF PlanInv
<1>5. Shapes'
  BY DEF Shapes
<1> QED BY <1>1, <1>2, <1>3, <1>4, <1>5 DEF ScanInv

\* The watcher goes on to the next file.
LEMMA ScannedOneShape ==
    ASSUME WatcherShape, ScannedOne
    PROVE  /\ WatcherShape'
           /\ watcher'.pc # "read"
BY DEF WatcherShape, ScannedOne

\* scan_file: the scan parses, and the cursor goes on with what was taken; or it does
\* not, and both stay.
LEMMA ScanFileKeeps ==
    ASSUME ScanInv, FilesStep, scan_file
    PROVE  ScanInv'
<1> DEFINE at == watcher.at
           planned == watcher.plan
           found == read_new_event_lines(at, planned.start)
           since == IF planned.reset \/ taken[at].gen # files[at].gen
                    THEN [gen |-> files[at].gen, from |-> planned.start,
                          handed |-> << >>, parser |-> planned.parser]
                    ELSE taken[at]
           parse(i) == parse_lines(tool, planned.parser, planned.start \div 2,
                                   IF i THEN <<Garbage>> ELSE found.lines)
           misplacing == {FALSE, planned.start > 0 /\ taken[at].gen # files[at].gen}
<1>0. PICK m \in misplacing :
         IF ~parse(m).ok
         THEN ScannedOne /\ UNCHANGED <<cursors, taken>>
         ELSE /\ cursors' = [cursors EXCEPT ![at] =
                    [offset |-> found.next_offset, len |-> planned.len, ino |-> planned.ino,
                     parser |-> parse(m).parser]]
              /\ taken' = [taken EXCEPT ![at] = [since EXCEPT !.handed = @ \o parse(m).events]]
              /\ IF parse(m).events = << >> THEN ScannedOne
                 ELSE watcher' = [watcher EXCEPT !.pc = "post", !.events =
                          [i \in DOMAIN parse(m).events
                             |-> <<at, since.gen, parse(m).events[i].n>>]]
  BY DEF scan_file
<1>1. PICK f, plan, read, before, scan :
         f = at /\ plan = planned /\ read = found /\ before = since /\ scan = parse(m)
  <2> HIDE DEF at, planned, found, since, parse
  <2> QED OBVIOUS
<1>2. /\ read = read_new_event_lines(f, plan.start)
      /\ before = IF plan.reset \/ taken[f].gen # files[f].gen
                  THEN [gen |-> files[f].gen, from |-> plan.start,
                        handed |-> << >>, parser |-> plan.parser]
                  ELSE taken[f]
      /\ m \in {FALSE, plan.start > 0 /\ taken[f].gen # files[f].gen}
      /\ scan = parse_lines(tool, plan.parser, plan.start \div 2,
                            IF m THEN <<Garbage>> ELSE read.lines)
  BY <1>1
<1>3. IF ~scan.ok
      THEN ScannedOne /\ UNCHANGED <<cursors, taken>>
      ELSE /\ cursors' = [cursors EXCEPT ![f] =
                 [offset |-> read.next_offset, len |-> plan.len, ino |-> plan.ino,
                  parser |-> scan.parser]]
           /\ taken' = [taken EXCEPT ![f] = [before EXCEPT !.handed = @ \o scan.events]]
           /\ \/ ScannedOne
              \/ \E es : watcher' = [watcher EXCEPT !.pc = "post", !.events = es]
  <2> HIDE DEF at, planned, found, since, parse, misplacing
  <2> QED BY <1>0, <1>1
<1>4. f = watcher.at /\ plan = watcher.plan
  BY <1>1
<1> HIDE DEF at, planned, found, since, parse, misplacing
<1>5. /\ PlanReads(f, plan) /\ Shapes /\ UNCHANGED <<tool, files>> /\ FilesInv /\ FilesInv'
      /\ watcher.pc = "read" /\ f \in Files
  BY <1>4 DEF ScanInv, PlanInv, PlanReads, scan_file, disk, FilesStep
<1>6. CASE ~scan.ok
  <2>1. ScannedOne /\ UNCHANGED <<cursors, taken>>
    BY <1>3, <1>6
  <2>2. WatcherShape' /\ watcher'.pc # "read"
    BY <1>5, <2>1, ScannedOneShape DEF Shapes
  <2>3. CursorShape' /\ \A g \in Files : cursors'[g] \in {cursors[g], NoCursor}
    BY <1>5, <2>1 DEF Shapes, CursorShape
  <2> QED BY <2>1, <2>2, <2>3, ScanKept
<1>7. CASE scan.ok
  <2>1. PICK r, k :
           /\ r = [before EXCEPT !.handed = @ \o scan.events]
           /\ k = [offset |-> read.next_offset, len |-> plan.len, ino |-> plan.ino,
                   parser |-> scan.parser]
    OBVIOUS
  <2>2. cursors' = [cursors EXCEPT ![f] = k] /\ taken' = [taken EXCEPT ![f] = r]
    BY <1>3, <1>7, <2>1
  <2>3. WatcherShape' /\ watcher'.pc # "read"
    <3>1. CASE ScannedOne
      BY <1>5, <3>1, ScannedOneShape DEF Shapes
    <3>2. ASSUME NEW es, watcher' = [watcher EXCEPT !.pc = "post", !.events = es]
          PROVE  WatcherShape' /\ watcher'.pc # "read"
      BY <1>5, <3>2 DEF Shapes, WatcherShape
    <3> QED BY <1>3, <1>7, <3>1, <3>2
  <2>4. /\ taken'[f].gen = files[f].gen
        /\ read.next_offset \in Nat
        /\ Read(f, read.next_offset, scan.parser)'
    <3>1. taken' = [taken EXCEPT ![f] = [before EXCEPT !.handed = @ \o scan.events]]
      BY <2>1, <2>2
    <3> QED BY <1>2, <1>5, <1>7, <3>1, ScanReads
  <2>5. TakenShape' /\ CursorShape'
    <3>1. before = [gen |-> before.gen, from |-> before.from, handed |-> before.handed,
                    parser |-> before.parser]
      BY <1>2, <1>5 DEF Shapes, TakenShape
    <3> PICK h : h = before.handed \o scan.events
      OBVIOUS
    <3>2. r = [before EXCEPT !.handed = h]
      BY <2>1
    <3>3. r = [gen |-> before.gen, from |-> before.from, handed |-> h, parser |-> before.parser]
      BY <3>1, <3>2
    <3>4. r = [gen |-> r.gen, from |-> r.from, handed |-> r.handed, parser |-> r.parser]
      BY <3>3
    <3> QED BY <1>5, <2>2, <3>4 DEF Shapes, TakenShape, CursorShape
  <2>6. \A g \in Files \ {f} : cursors'[g] = cursors[g] /\ taken'[g] = taken[g]
    BY <1>5, <2>2 DEF Shapes, TakenShape, CursorShape
  <2>7. cursors'[f].offset \in Nat /\ CursorReads(f)'
    <3>1. cursors'[f] = k
      BY <1>5, <2>2 DEF Shapes, CursorShape
    <3> PICK o, p : o = read.next_offset /\ p = scan.parser
      OBVIOUS
    <3>2. cursors'[f].offset = o /\ cursors'[f].parser = p /\ Read(f, o, p)' /\ o \in Nat
      BY <2>1, <2>4, <3>1
    <3>3. CursorReads(f)'
      BY <3>2 DEF CursorReads, Read, Content
    <3> QED BY <3>2, <3>3
  <2>8. /\ \A h \in Files \ {f} : cursors'[h] = cursors[h] /\ taken'[h] = taken[h]
        /\ \A h \in Files \cap {f} : /\ taken'[h].gen = files[h].gen
                                     /\ cursors'[h].offset \in Nat /\ CursorReads(h)'
    BY <2>4, <2>6, <2>7
  <2> QED BY <1>5, <2>3, <2>5, <2>8, OthersReadOn
<1> QED BY <1>6, <1>7

\* A file that is taken over is read from its end on.
LEMMA TakeOverKeeps ==
    ASSUME ScanInv, FilesStep, UNCHANGED files, NEW found,
           add_discovered_active_files(found), WatcherShape', watcher'.pc # "read"
    PROVE  ScanInv'
<1>1. Shapes /\ FilesInv /\ FilesInv'
  BY DEF ScanInv, FilesStep
<1> DEFINE k(f) == prime_event_cursor_to_end(f)
           r(f) == [gen |-> files[f].gen, from |-> files[f].len, handed |-> << >>,
                    parser |-> primed_parser(SubSeq(Content(f), 1, Complete(f)))]
<1>2. /\ cursors' = [f \in Files |-> IF f \in found THEN k(f) ELSE cursors[f]]
      /\ taken' = [f \in Files |-> IF f \in found THEN r(f) ELSE taken[f]]
  BY DEF add_discovered_active_files
<1>3. \A f : r(f) = [gen |-> r(f).gen, from |-> r(f).from, handed |-> r(f).handed,
                     parser |-> r(f).parser]
  OBVIOUS
<1>4. \A f \in Files : /\ r(f).gen = files[f].gen /\ r(f).from = files[f].len
                       /\ r(f).handed = << >> /\ r(f).parser = k(f).parser
                       /\ k(f).offset = files[f].len
  BY DEF prime_event_cursor_to_end
<1> HIDE DEF k, r
<1>5. TakenShape' /\ CursorShape'
  <2>1. CursorShape'
    BY <1>2 DEF CursorShape
  <2>2. TakenShape'
    <3>1. \A f \in Files : taken'[f] = [gen |-> taken'[f].gen, from |-> taken'[f].from,
                              handed |-> taken'[f].handed, parser |-> taken'[f].parser]
      BY <1>1, <1>2, <1>3 DEF Shapes, TakenShape
    <3>2. taken' = [f \in Files |-> taken'[f]]
      BY <1>2
    <3> QED BY <3>1, <3>2 DEF TakenShape
  <2> QED BY <2>1, <2>2
<1>6. \A f \in Files \ found : cursors'[f] = cursors[f] /\ taken'[f] = taken[f]
  BY <1>2
<1>7. ASSUME NEW f \in Files \cap found
      PROVE  taken'[f].gen = files[f].gen /\ cursors'[f].offset \in Nat /\ CursorReads(f)'
  <2>1. cursors'[f] = k(f) /\ taken'[f] = r(f)
    BY <1>2
  <2> PICK o, p : o = files[f].len /\ p = r(f).parser
    OBVIOUS
  <2>2. o \in Nat /\ Content(f)' \in Seq(ToSet(Content(f)'))
    BY <1>1, ContentTyped DEF Content
  <2>3. /\ taken'[f].gen = files[f].gen /\ taken'[f].from = o /\ taken'[f].handed = << >>
        /\ taken'[f].parser = p /\ cursors'[f].offset = o /\ cursors'[f].parser = p
    BY <1>4, <2>1
  <2>4. o \div 2 \in Nat
    BY <2>2, Halves
  <2> DEFINE z == Span(tool', p, Content(f)', o \div 2, o \div 2)
  <2>5. z.ok /\ z.parser = p /\ z.events = << >>
    <3> DEFINE c == Content(f)'
               a == o \div 2
    <3>1. c \in Seq(ToSet(c)) /\ a \in Nat
      BY <2>2, <2>4
    <3> HIDE DEF c, a
    <3>2. LET s == Span(tool', p, c, a, a) IN s.ok /\ s.parser = p /\ s.events = << >>
      BY <3>1, NothingRead
    <3> QED BY <3>2 DEF c, a
  <2>6. z = Span(tool', taken'[f].parser, Content(f)', taken'[f].from \div 2, o \div 2)
    BY <2>3
  <2> HIDE DEF z
  <2>7. Read(f, o, p)'
    BY <2>2, <2>3, <2>5, <2>6 DEF Read
  <2>8. CursorReads(f)'
    BY <2>3, <2>7 DEF CursorReads, Read, Content
  <2> QED BY <2>2, <2>3, <2>8
<1> QED BY <1>5, <1>6, <1>7, OthersReadOn

\* A plan starts where the cursor stands, or the file over.
LEMMA PlanScanKeeps ==
    ASSUME ScanInv, FilesStep, NEW f \in Files, PlanScan(f)
    PROVE  ScanInv'
<1>1. PICK plan : plan = event_scan_plan(f)
  OBVIOUS
<1>2. /\ FilesInv /\ FilesInv' /\ Shapes /\ TakenInv /\ CursorInv
      /\ UNCHANGED <<tool, files, cursors, taken>>
      /\ watcher' = [watcher EXCEPT !.pc = "read", !.at = f, !.plan = plan]
  BY <1>1 DEF ScanInv, FilesStep, PlanScan, disk, repository, ghosts
<1>3. watcher'.at = f /\ watcher'.plan = plan /\ WatcherShape'
  BY <1>2 DEF Shapes, WatcherShape
<1>4. /\ plan.reset => plan.start = 0
      /\ ~plan.reset => /\ cursors[f] # NoCursor
                        /\ plan.start = cursors[f].offset /\ plan.parser = cursors[f].parser
  BY <1>1 DEF event_scan_plan
<1>5. plan.start \in Nat
  BY <1>2, <1>4 DEF CursorInv
<1>6. ASSUME ~plan.reset, taken[f].gen = files[f].gen PROVE Read(f, plan.start, plan.parser)'
  <2>1. Read(f, plan.start, plan.parser)
    BY <1>2, <1>4, <1>6 DEF CursorInv, CursorReads
  <2> QED BY <1>2, <2>1, ReadKept
<1>7. PlanReads(f, plan)'
  BY <1>2, <1>4, <1>5, <1>6 DEF PlanReads
<1>8. PlanInv'
  BY <1>3, <1>7 DEF PlanInv, PlanReads, Read, Content
<1>9. TakenInv' /\ CursorInv' /\ Shapes'
  <2>1. TakenInv' /\ Shapes'
    BY <1>2, <1>3 DEF TakenInv, Shapes, TakenShape, CursorShape
  <2>2. CursorInv'
    BY <1>2 DEF CursorInv, CursorReads, Read, Content
  <2> QED BY <2>1, <2>2
<1> QED BY <1>2, <1>8, <1>9 DEF ScanInv

\* The watcher goes on, and reads nothing.
LEMMA WatcherGoesOn ==
    ASSUME ScanInv, FilesStep, taken' = taken,
           cursors' = cursors \/ clear_runtime_indexes,
           WatcherShape', watcher'.pc = "read" => watcher' = watcher
    PROVE  ScanInv'
<1>1. CursorShape' /\ \A f \in Files : cursors'[f] \in {cursors[f], NoCursor}
  BY DEF ScanInv, Shapes, CursorShape, clear_runtime_indexes
<1> QED BY <1>1, ScanKept

\* Every step keeps it, and the initial states have it.
LEMMA ScanInvKept ==
    ASSUME ScanInv, [Next]_vars
    PROVE  ScanInv'
<1>1. FilesStep /\ WatcherShape
  BY StepKeepsFiles DEF ScanInv, Shapes
<1>2. ASSUME UNCHANGED <<taken, watcher>>, cursors' = cursors \/ clear_runtime_indexes
      PROVE  ScanInv'
  <2>1. WatcherShape'
    BY <1>1, <1>2 DEF WatcherShape
  <2> QED BY <1>1, <1>2, <2>1, WatcherGoesOn
<1>3. CASE ToolStep \/ SwitchListener \/ Settle
  BY <1>2, <1>3 DEF ToolStep, AppendHalfLine, Rewrite, GrowsOld, SwitchListener, Settle,
     repository, ghosts
<1>4. CASE ProviderStep
  BY <1>2, <1>4 DEF ProviderStep, session_snapshot_response, notify_snapshot_update_once,
     session_detail_response, snapshot_context, build_snapshot_refresh,
     apply_snapshot_refresh, session_detail, rebuild_session_index_from_file,
     replace_session_index, session_index, detail_from_index, read_messages_by_range,
     write_provider_message,
     RefuseDisabled, repository, ghosts
<1>5. CASE UNCHANGED vars
  BY <1>2, <1>5 DEF vars
<1>6. ASSUME taken' = taken, cursors' = cursors, NEW pc, pc # "read", Goto(pc)
      PROVE  ScanInv'
  <2>1. WatcherShape' /\ watcher'.pc # "read"
    BY <1>1, <1>6 DEF WatcherShape, Goto
  <2> QED BY <1>1, <1>6, <2>1, WatcherGoesOn
<1>7. ASSUME taken' = taken, cursors' = cursors, NEW todo, NEW after, after # "read",
             ScanAll(todo, after)
      PROVE  ScanInv'
  <2>1. WatcherShape' /\ watcher'.pc # "read"
    BY <1>1, <1>7 DEF WatcherShape, ScanAll
  <2> QED BY <1>1, <1>7, <2>1, WatcherGoesOn
<1>8. ASSUME taken' = taken, cursors' = cursors, ScannedOne
      PROVE  ScanInv'
  <2>1. WatcherShape' /\ watcher'.pc # "read"
    BY <1>1, <1>8, ScannedOneShape
  <2> QED BY <1>1, <1>8, <2>1, WatcherGoesOn
<1>9. CASE StopListening
  <2>1. /\ watcher' = [watcher EXCEPT !.initialized = FALSE] /\ watcher.pc = "top"
        /\ taken' = taken /\ (cursors' = cursors \/ clear_runtime_indexes)
    BY <1>9 DEF StopListening, repository, ghosts
  <2>2. WatcherShape' /\ watcher'.pc # "read"
    BY <1>1, <2>1 DEF WatcherShape
  <2> QED BY <1>1, <2>1, <2>2, WatcherGoesOn
<1>10. CASE Listen
  <2>1. /\ watcher' = [watcher EXCEPT !.pc = "recv", !.initialized = TRUE]
        /\ taken' = taken /\ cursors' = cursors
    BY <1>10 DEF Listen, repository, ghosts
  <2>2. WatcherShape' /\ watcher'.pc # "read"
    BY <1>1, <2>1 DEF WatcherShape
  <2> QED BY <1>1, <2>1, <2>2, WatcherGoesOn
<1>11. CASE ReceivesNothing \/ NotDue("discover", "active") \/ NotDue("active", "top")
  BY <1>6, <1>11 DEF ReceivesNothing, NotDue, repository, ghosts
<1>12. CASE \E f \in Files : flush_pending_file(f)
  BY <1>7, <1>12 DEF flush_pending_file, repository, ghosts
<1>13. ASSUME NEW f \in Files, PlanScan(f) PROVE ScanInv'
  BY <1>1, <1>13, PlanScanKeeps
<1>14. ASSUME NEW found, add_discovered_active_files(found),
              NEW pc, pc # "read", Goto(pc), files' = files
       PROVE  ScanInv'
  <2>1. WatcherShape' /\ watcher'.pc # "read"
    BY <1>1, <1>14 DEF WatcherShape, Goto
  <2> QED BY <1>1, <1>14, <2>1, TakeOverKeeps
<1>16. CASE flush_pending_dir
  <2>1. CASE tool = "codex"
    BY <1>14, <1>16, <2>1 DEF flush_pending_dir
  <2>2. CASE tool # "codex"
    BY <1>6, <1>16, <2>2 DEF flush_pending_dir
  <2> QED BY <2>1, <2>2
<1>17. CASE discover_recent_files
  BY <1>14, <1>17 DEF discover_recent_files
<1>18. CASE claude_discover_recent_files \/ scan_active_files
  BY <1>7, <1>18 DEF claude_discover_recent_files, scan_active_files, repository, ghosts
<1>19. CASE scan_file
  BY <1>1, <1>19, ScanFileKeeps
<1>20. CASE append_events \/ AppendFails
  BY <1>8, <1>20 DEF append_events, AppendFails, repository, ghosts
<1> QED BY <1>3, <1>4, <1>5, <1>9, <1>10, <1>11, <1>12, <1>13, <1>16, <1>17, <1>18, <1>19, <1>20
        DEF Next, WatcherStep

LEMMA InitScans == Init => ScanInv
<1> SUFFICES ASSUME Init PROVE ScanInv
  OBVIOUS
<1>1. PICK start \in Starts :
        /\ tool = start.tool
        /\ files = [f \in Files |-> [script |-> start.script[f], len |-> start.len[f],
                                    ino |-> 0, gen |-> 0]]
        /\ watcher = Watching(IF start.watches THEN "top" ELSE "ended")
        /\ cursors = [f \in Files |-> NoCursor]
        /\ taken = [f \in Files |-> [gen |-> -1, from |-> 0, handed |-> << >>, parser |-> Parser]]
  BY DEF Init
<1>2. FilesInv
  <2>1. start.tool \in Tools
    BY PluginFilesAssumption
  <2>2. ASSUME NEW f \in Files
        PROVE  /\ start.script[f] \in Contents
               /\ start.len[f] \in Nat /\ start.len[f] <= 2 * Len(start.script[f])
    <3>1. start.script[f] \in Contents
      BY DEF Contents
    <3>2. start.len[f] \in 0..(2 * Len(start.script[f]))
      BY PluginFilesAssumption
    <3>3. Len(start.script[f]) \in Nat
      BY <3>1, ContentsAreSequences
    <3> QED BY <3>1, <3>2, <3>3
  <2> QED BY <1>1, <2>1, <2>2 DEF FilesInv, Content
<1>3. Shapes
  BY <1>1 DEF Shapes, TakenShape, CursorShape, WatcherShape, Watching
<1>4. TakenInv /\ CursorInv /\ PlanInv
  BY <1>1 DEF TakenInv, CursorInv, PlanInv, Watching
<1> QED BY <1>2, <1>3, <1>4 DEF ScanInv

\* It is what was to be shown.
LEMMA ScanInvShows == ScanInv => ScansAreOneParse
BY DEF ScanInv, CursorInv, CursorReads, Read, ScansAreOneParse, Span

\* What the watcher made of a file since it took it over is what one parse of
\* those lines makes of them: however the writes of the tool and the scans are cut,
\* no line is skipped or parsed twice and no parser state is lost (scan_file).
THEOREM ScansAreOneParseHolds == Spec => []ScansAreOneParse
<1>1. ScanInv /\ [Next]_vars => ScanInv'
  BY ScanInvKept
<1> QED BY <1>1, InitScans, ScanInvShows, PTL DEF Spec

-----------------------------------------------------------------------------
(***************************************************************************)
(* The steps of the provider.                                              *)
(***************************************************************************)
\* What FilesStep says of one file.
LEMMA FilesOnly ==
    ASSUME FilesInv, FilesStep, NEW f \in Files
    PROVE  /\ files[f].gen \in Nat /\ files'[f].gen \in Nat /\ files'[f].gen >= files[f].gen
           /\ files[f].len \in Nat /\ files'[f].len \in Nat
           /\ Complete(f) \in Nat /\ Complete(f)' \in Nat
           /\ files'[f].gen = files[f].gen =>
                 /\ Content(f)' = Content(f) /\ files'[f].len >= files[f].len
                 /\ Complete(f)' >= Complete(f)
<1>1. /\ files[f].gen \in Nat /\ files'[f].gen \in Nat /\ files'[f].gen >= files[f].gen
      /\ files[f].len \in Nat /\ files'[f].len \in Nat
      /\ files'[f].gen = files[f].gen =>
            files'[f].script = files[f].script /\ files'[f].len >= files[f].len
  BY DEF FilesInv, FilesStep
<1>2. Complete(f) \in Nat /\ Complete(f)' \in Nat
  BY <1>1, Halves DEF Complete
<1>3. files'[f].len >= files[f].len => Complete(f)' >= Complete(f)
  BY <1>1, Halves DEF Complete
<1> QED BY <1>1, <1>2, <1>3 DEF Content

\* What an entry, a modification and a request say of a file stays true.
LEMMA EntryKept ==
    ASSUME FilesInv, FilesStep, NEW e, IsEntry(e)
    PROVE  IsEntry(e)'
<1>1. e.file \in Files /\ e.gen \in Nat
  BY DEF IsEntry
<1>2. /\ e.gen <= files[e.file].gen /\ (e.gen = files[e.file].gen => e.script = Content(e.file))
  BY DEF IsEntry
<1>3. /\ files[e.file].gen \in Nat /\ files'[e.file].gen \in Nat
      /\ files'[e.file].gen >= files[e.file].gen
      /\ files'[e.file].gen = files[e.file].gen => Content(e.file)' = Content(e.file)
  BY <1>1, FilesOnly
<1>4. e.gen <= files'[e.file].gen /\ (e.gen = files'[e.file].gen => e.script = Content(e.file)')
  BY <1>1, <1>2, <1>3
<1> QED BY <1>4 DEF IsEntry

LEMMA SignedKept ==
    ASSUME FilesInv, FilesStep, NEW f \in Files, NEW sign, Signed(f, sign)
    PROVE  Signed(f, sign)'
BY FilesOnly DEF Signed

LEMMA HadKept ==
    ASSUME FilesInv, FilesStep, NEW f \in Files, NEW then, Had(f, then)
    PROVE  Had(f, then)'
BY FilesOnly DEF Had

LEMMA IndexedKept ==
    ASSUME FilesInv, FilesStep, NEW e, Indexed(e)
    PROVE  Indexed(e)'
BY EntryKept DEF Indexed, SignedBefore

LEMMA IndexKept ==
    ASSUME FilesInv, FilesStep, IndexInv, index' = index \/ clear_runtime_indexes
    PROVE  IndexInv'
<1>1. CASE index' = index
  <2> SUFFICES ASSUME NEW s \in Sessions, NEW e, e = index[s], e # NoEntry
               PROVE  Indexed(e)' /\ SessionOf(e) = s
    BY <1>1 DEF IndexInv, SessionOf
  <2>1. Indexed(e) /\ SessionOf(e) = s
    BY DEF IndexInv
  <2> QED BY <2>1, IndexedKept
<1>2. CASE clear_runtime_indexes
  BY <1>2 DEF IndexInv, clear_runtime_indexes
<1> QED BY <1>1, <1>2

LEMMA AskedKept ==
    ASSUME FilesInv, FilesStep, AskedInv, provider'.for = provider.for,
           provider'.asked = provider.asked
    PROVE  AskedInv'
<1> SUFFICES ASSUME provider.for # None, NEW f \in Files, NEW then, then = provider.asked[f]
             PROVE  Had(f, then)'
  BY DEF AskedInv
<1>1. Had(f, then)
  BY DEF AskedInv
<1> QED BY <1>1, HadKept

\* The provider stands still while the files change.
LEMMA ProviderWaits ==
    ASSUME ProviderInv, FilesStep, provider' = provider,
           index' = index \/ clear_runtime_indexes
    PROVE  ProviderInv'
<1>1. FilesInv /\ FilesInv' /\ IndexInv /\ ProviderShape /\ AskedInv /\ RefreshInv /\ AnswerInv
  BY DEF ProviderInv, FilesStep
<1>2. IndexInv' /\ AskedInv' /\ ProviderShape'
  BY <1>1, IndexKept, AskedKept DEF ProviderShape
<1>3. RefreshInv'
  <2>1. ASSUME NEW f \in Files, provider.pc = "parse"
        PROVE  /\ \A sign \in {provider.signs[f]} : Signed(f, sign)'
               /\ \A e \in {provider.next[f]} : e # NoEntry => Indexed(e)'
    BY <1>1, <2>1, SignedKept, IndexedKept DEF RefreshInv
  <2>2. ASSUME NEW f \in Files, provider.pc = "apply"
        PROVE  \A e \in {provider.next[f]} : Indexed(e)'
    BY <1>1, <2>2, IndexedKept DEF RefreshInv
  <2> QED BY <2>1, <2>2 DEF RefreshInv
<1>4. AnswerInv'
  <2> SUFFICES ASSUME NEW a, a = provider.answer
               PROVE  /\ provider.pc \in Detailing => provider.for \in Sessions
                      /\ provider.pc \in {"resign", "reparse", "page", "lines", "answered"} => IsEntry(a)'
                      /\ provider.pc = "reparse" => Signed(a.file, a.sign)'
                      /\ provider.pc \in {"page", "lines", "answered"} =>
                            SessionOf(a) = provider.for /\ UpToDate(a)'
                      /\ provider.pc = "lines" => provider.page \subseteq 1..a.lines
                      /\ provider.pc \in {"lines", "answered"} => AsIndexed(a, provider.got)
                      /\ provider.pc = "lookup" =>
                            \A e \in {index'[provider.for]} : e # NoEntry => UpToDate(e)'
    BY DEF AnswerInv, SessionOf, AsIndexed
  <2>1. /\ provider.pc \in Detailing => provider.for \in Sessions
        /\ provider.pc \in {"resign", "reparse", "page", "lines", "answered"} => IsEntry(a)
        /\ provider.pc = "reparse" => Signed(a.file, a.sign)
        /\ provider.pc \in {"page", "lines", "answered"} => SessionOf(a) = provider.for /\ UpToDate(a)
        /\ provider.pc = "lines" => provider.page \subseteq 1..a.lines
        /\ provider.pc \in {"lines", "answered"} => AsIndexed(a, provider.got)
        /\ provider.pc = "lookup" =>
              \A e \in {index[provider.for]} : e # NoEntry => UpToDate(e)
    BY <1>1 DEF AnswerInv
  <2>2. \A e : UpToDate(e)' <=> UpToDate(e)
    BY DEF UpToDate, FilesStep
  <2>3. IsEntry(a) => a.file \in Files
    BY DEF IsEntry
  <2>4. IsEntry(a) => IsEntry(a)'
    BY <1>1, EntryKept
  <2>5. ASSUME provider.pc = "reparse" PROVE Signed(a.file, a.sign)'
    BY <1>1, <2>1, <2>3, <2>5, SignedKept
  <2>6. ASSUME provider.pc = "lookup", NEW e, e = index'[provider.for], e # NoEntry
        PROVE  UpToDate(e)'
    <3>1. provider.for \in Sessions
      BY <2>1, <2>6 DEF Detailing
    <3>2. index' = index
      BY <2>6, <3>1 DEF clear_runtime_indexes
    <3> QED BY <2>1, <2>2, <2>6, <3>2
  <2> QED BY <2>1, <2>2, <2>4, <2>5, <2>6
<1> QED BY <1>1, <1>2, <1>3, <1>4 DEF ProviderInv

\* A request that is answered or refused leaves no trace.
LEMMA ProviderStops ==
    ASSUME FilesInv', IndexInv', provider' = Idle
    PROVE  ProviderInv'
<1>1. ProviderShape' /\ AskedInv' /\ RefreshInv' /\ AnswerInv'
  BY DEF ProviderShape, AskedInv, RefreshInv, AnswerInv, Idle, Detailing
<1> QED BY <1>1 DEF ProviderInv

\* A file that is read now.
LEMMA ScannedEntry ==
    ASSUME FilesInv, NEW f \in Files, NEW sign, Signed(f, sign),
           NEW e, e = scan_session_file_index(f, sign)
    PROVE  /\ Indexed(e) /\ e.file = f
           /\ \A then : Had(f, then) => Newer(e, then)
<1>1. e = [file |-> f, script |-> Content(f), gen |-> files[f].gen, lines |-> Complete(f),
           sign |-> sign]
  BY DEF scan_session_file_index
<1>2. /\ e.file = f /\ e.script = Content(f) /\ e.gen = files[f].gen /\ e.lines = Complete(f)
      /\ e.sign = sign
  BY <1>1
<1>3. /\ files[f].gen \in Nat /\ files[f].len \in Nat /\ Complete(f) \in Nat
      /\ Complete(f) = files[f].len \div 2
  BY ContentTyped DEF Complete
<1>4. IsEntry(e)
  <2>1. e = [file |-> e.file, script |-> e.script, gen |-> e.gen, lines |-> e.lines,
             sign |-> e.sign]
    BY <1>1
  <2> QED BY <1>2, <1>3, <2>1 DEF IsEntry
<1>5. SignedBefore(e)
  <2>1. sign[1] \in Nat /\ sign[2] \in Nat /\ sign[1] <= files[f].gen
        /\ (sign[1] = files[f].gen => sign[2] <= files[f].len)
    BY DEF Signed
  <2>2. sign[2] <= files[f].len => sign[2] \div 2 <= Complete(f)
    BY <1>3, <2>1, Halves
  <2> QED BY <1>2, <1>3, <2>1, <2>2 DEF SignedBefore
<1>6. ASSUME NEW then, Had(f, then) PROVE Newer(e, then)
  BY <1>2, <1>3, <1>6 DEF Had, Newer
<1> QED BY <1>2, <1>4, <1>5, <1>6 DEF Indexed

\* An entry whose file has not been modified since holds every line of it.
LEMMA CurrentEntry ==
    ASSUME FilesInv, NEW e, Indexed(e), e.sign = Modification(e.file),
           NEW then, Had(e.file, then)
    PROVE  Newer(e, then)
<1>1. /\ e.file \in Files /\ e.gen \in Nat /\ e.lines \in Nat /\ e.gen <= files[e.file].gen
      /\ e.sign[1] < e.gen \/ (e.sign[1] = e.gen /\ e.sign[2] \div 2 <= e.lines)
  BY DEF Indexed, IsEntry, SignedBefore
<1>2. e.sign[1] = files[e.file].gen /\ e.sign[2] = files[e.file].len
  BY DEF Modification
<1>3. /\ files[e.file].gen \in Nat /\ Complete(e.file) \in Nat
      /\ Complete(e.file) = files[e.file].len \div 2
  BY <1>1, ContentTyped DEF Complete
<1>4. e.gen = files[e.file].gen /\ Complete(e.file) <= e.lines
  BY <1>1, <1>2, <1>3
<1> QED BY <1>1, <1>3, <1>4 DEF Had, Newer

\* When a request came in, the files had what it says.
LEMMA AskedHad ==
    ASSUME AskedInv, provider.for \in Sessions, NEW f \in Files
    PROVE  Had(f, provider.asked[f])
<1>1. provider.for # None
  BY PluginFilesAssumption
<1> QED BY <1>1 DEF AskedInv

\* A step of the provider leaves the files alone.
LEMMA ProviderStepKeeps ==
    ASSUME ProviderInv, FilesStep, ProviderStep
    PROVE  ProviderInv'
<1>1. FilesInv /\ FilesInv' /\ IndexInv /\ ProviderShape /\ AskedInv /\ RefreshInv /\ AnswerInv
  BY DEF ProviderInv, FilesStep
<1>2. UNCHANGED <<tool, files>>
  BY DEF ProviderStep, session_snapshot_response, notify_snapshot_update_once,
     session_detail_response, snapshot_context, build_snapshot_refresh,
     apply_snapshot_refresh, session_detail, rebuild_session_index_from_file,
     replace_session_index, session_index, detail_from_index, read_messages_by_range,
     write_provider_message, Stale, ProviderRests, At, disk
<1>3. ASSUME ProviderRests, index' = index \/ clear_runtime_indexes PROVE ProviderInv'
  BY <1>1, <1>3, IndexKept, ProviderStops DEF ProviderRests
\* A request comes in.
<1>4. ASSUME At("sign"), index' = index PROVE ProviderInv'
  <2>1. /\ provider'.pc = "sign" /\ provider'.for = provider.for
        /\ provider'.asked = provider.asked /\ ProviderShape'
    BY <1>1, <1>4 DEF At, ProviderShape
  <2>2. RefreshInv' /\ AnswerInv'
    BY <2>1 DEF RefreshInv, AnswerInv, Detailing
  <2> QED BY <1>1, <1>4, <2>1, <2>2, IndexKept, AskedKept DEF ProviderInv
<1>5. CASE session_snapshot_response
  <2>1. (At("sign") /\ UNCHANGED repository) \/ RefuseDisabled
    BY <1>5 DEF session_snapshot_response
  <2> QED BY <1>3, <1>4, <2>1 DEF RefuseDisabled, repository
<1>6. CASE notify_snapshot_update_once
  BY <1>4, <1>6 DEF notify_snapshot_update_once, repository
<1>7. ASSUME NEW s \in Sessions, NEW latest \in BOOLEAN, session_detail_response(s, latest)
      PROVE  ProviderInv'
  <2>1. CASE RefuseDisabled
    BY <1>3, <2>1 DEF RefuseDisabled
  <2>2. CASE ~RefuseDisabled
    <3>1. PICK pc \in {"sign", "check"} :
             provider' = [Idle EXCEPT !.pc = pc, !.for = s, !.asked = Now, !.latest = latest]
      BY <1>7, <2>2 DEF session_detail_response
    <3>2. index' = index
      BY <1>7, <2>2 DEF session_detail_response, repository
    <3>3. /\ provider'.pc = pc /\ provider'.for = s /\ provider'.asked = Now /\ ProviderShape'
      BY <3>1 DEF Idle, ProviderShape
    <3>4. ASSUME NEW f \in Files PROVE Had(f, Now[f])'
      <4>1. Now[f].gen = files[f].gen /\ Now[f].lines = Complete(f)
        BY DEF Now
      <4>2. files[f].gen \in Nat /\ Complete(f) \in Nat
        BY <1>1, ContentTyped
      <4>3. files'[f].gen = files[f].gen /\ Complete(f)' = Complete(f) /\ Now' = Now
        BY <1>2 DEF Complete, Now
      <4> QED BY <4>1, <4>2, <4>3 DEF Had
    <3>5. AskedInv'
      <4>1. SUFFICES ASSUME NEW f \in Files, NEW then, then = provider'.asked[f] PROVE Had(f, then)'
        BY <3>3 DEF AskedInv
      <4>2. then = Now[f] /\ Now' = Now
        BY <1>2, <3>3, <4>1 DEF Now, Complete
      <4> QED BY <3>4, <4>2 DEF Had
    <3>6. RefreshInv' /\ AnswerInv'
      BY <3>3 DEF RefreshInv, AnswerInv, Detailing
    <3> QED BY <1>1, <3>2, <3>3, <3>5, <3>6, IndexKept DEF ProviderInv
  <2> QED BY <2>1, <2>2
<1>8. CASE snapshot_context
  <2> DEFINE kept(f) == {index[s] : s \in {t \in Sessions : /\ index[t].file = f
                                                           /\ index[t].sign = Modification(f)}}
             nexts == [f \in Files |-> IF tool = "codex" /\ kept(f) # {}
                                       THEN CHOOSE e \in kept(f) : TRUE ELSE NoEntry]
             signs == [f \in Files |-> Modification(f)]
  <2>1. provider' = [provider EXCEPT !.pc = "parse", !.signs = signs, !.next = nexts]
        /\ index' = index
    BY <1>8 DEF snapshot_context, repository
  <2>2. ASSUME NEW f \in Files PROVE Signed(f, signs[f])
    <3>1. signs[f] = <<files[f].gen, files[f].len>> /\ files[f].gen \in Nat /\ files[f].len \in Nat
      BY <1>1, ContentTyped DEF Modification
    <3> QED BY <3>1 DEF Signed
  <2>3. ASSUME NEW f \in Files, nexts[f] # NoEntry PROVE Indexed(nexts[f])
    <3>1. nexts[f] \in kept(f)
      BY <2>3
    <3>2. PICK s \in Sessions : nexts[f] = index[s]
      BY <3>1
    <3> HIDE DEF nexts
    <3> QED BY <1>1, <2>3, <3>2 DEF IndexInv
  <2> HIDE DEF kept, nexts, signs
  <2>4. /\ provider'.pc = "parse" /\ provider'.for = provider.for
        /\ provider'.asked = provider.asked
        /\ provider'.signs = signs /\ provider'.next = nexts /\ ProviderShape'
    BY <1>1, <2>1 DEF ProviderShape
  <2>5. RefreshInv'
    <3>1. ASSUME NEW f \in Files, NEW sign, sign = signs[f] PROVE Signed(f, sign)'
      BY <1>1, <2>2, <3>1, SignedKept
    <3>2. ASSUME NEW f \in Files, NEW e, e = nexts[f], e # NoEntry PROVE Indexed(e)'
      BY <1>1, <2>3, <3>2, IndexedKept
    <3> QED BY <2>4, <3>1, <3>2 DEF RefreshInv
  <2>6. AnswerInv'
    BY <2>4 DEF AnswerInv, Detailing
  <2> QED BY <1>1, <2>1, <2>4, <2>5, <2>6, IndexKept, AskedKept DEF ProviderInv
<1>9. CASE build_snapshot_refresh
  <2> DEFINE nexts == [f \in Files |-> IF provider.next[f] # NoEntry THEN provider.next[f]
                                      ELSE scan_session_file_index(f, provider.signs[f])]
  <2>1. provider' = [provider EXCEPT !.pc = "apply", !.next = nexts] /\ index' = index
        /\ provider.pc = "parse"
    BY <1>1, <1>9 DEF build_snapshot_refresh, repository, ProviderShape
  <2>2. ASSUME NEW f \in Files PROVE Indexed(nexts[f])
    <3>1. CASE provider.next[f] # NoEntry
      BY <1>1, <2>1, <3>1 DEF RefreshInv
    <3>2. CASE provider.next[f] = NoEntry
      <4>1. PICK sign, e : sign = provider.signs[f] /\ e = scan_session_file_index(f, sign)
        OBVIOUS
      <4>2. Signed(f, sign) /\ e = nexts[f]
        BY <1>1, <2>1, <3>2, <4>1 DEF RefreshInv
      <4>3. Indexed(e)
        BY <1>1, <4>1, <4>2, ScannedEntry
      <4> QED BY <4>2, <4>3
    <3> QED BY <3>1, <3>2
  <2> HIDE DEF nexts
  <2>3. /\ provider'.pc = "apply" /\ provider'.for = provider.for
        /\ provider'.asked = provider.asked /\ provider'.next = nexts /\ ProviderShape'
    BY <1>1, <2>1 DEF ProviderShape
  <2>4. RefreshInv'
    <3>1. ASSUME NEW f \in Files, NEW e, e = nexts[f] PROVE Indexed(e)'
      BY <1>1, <2>2, <3>1, IndexedKept
    <3> QED BY <2>3, <3>1 DEF RefreshInv
  <2>5. AnswerInv'
    BY <2>3 DEF AnswerInv, Detailing
  <2> QED BY <1>1, <2>1, <2>3, <2>4, <2>5, IndexKept, AskedKept DEF ProviderInv
<1>10. CASE apply_snapshot_refresh
  <2> DEFINE claims(s) == {f \in Files : SessionOf(provider.next[f]) = s}
  <2>1. /\ index' = [s \in Sessions |-> IF claims(s) = {} THEN NoEntry
                                        ELSE provider.next[CHOOSE f \in claims(s) : TRUE]]
        /\ provider.pc = "apply"
        /\ \/ /\ provider.for # None
              /\ provider' = [provider EXCEPT !.pc = "check", !.signs = << >>, !.next = << >>]
           \/ ProviderRests
    BY <1>10 DEF apply_snapshot_refresh
  <2>2. IndexInv'
    <3> SUFFICES ASSUME NEW s \in Sessions, NEW e, e = index'[s], e # NoEntry
                 PROVE  Indexed(e)' /\ SessionOf(e) = s
      BY DEF IndexInv, SessionOf
    <3>1. claims(s) # {} /\ e = provider.next[CHOOSE f \in claims(s) : TRUE]
      BY <2>1
    <3>2. PICK f \in claims(s) : e = provider.next[f]
      BY <3>1
    <3>3. f \in Files /\ SessionOf(e) = s
      BY <3>2
    <3>4. Indexed(e)
      BY <1>1, <2>1, <3>2, <3>3 DEF RefreshInv
    <3> QED BY <1>1, <3>3, <3>4, IndexedKept
  <2> HIDE DEF claims
  <2>3. CASE ProviderRests
    BY <1>1, <2>2, <2>3, ProviderStops DEF ProviderRests
  <2>4. CASE /\ provider.for # None
             /\ provider' = [provider EXCEPT !.pc = "check", !.signs = << >>, !.next = << >>]
    <3>1. /\ provider'.pc = "check" /\ provider'.for = provider.for
          /\ provider'.asked = provider.asked /\ ProviderShape'
      BY <1>1, <2>4 DEF ProviderShape
    <3>2. provider.for \in Sessions
      BY <1>1, <2>4 DEF AskedInv
    <3>3. RefreshInv' /\ AnswerInv'
      BY <3>1, <3>2 DEF RefreshInv, AnswerInv, Detailing
    <3> QED BY <1>1, <2>2, <3>1, <3>3, AskedKept DEF ProviderInv
  <2> QED BY <2>1, <2>3, <2>4
<1>11. ASSUME NEW pc \in Detailing \ {"check"}, NEW a, provider.for \in Sessions, IndexInv',
              /\ provider'.pc = pc /\ provider'.for = provider.for
              /\ provider'.latest = provider.latest /\ provider'.asked = provider.asked
              /\ provider'.answer = a /\ ProviderShape',
              pc \in {"resign", "reparse", "page", "lines", "answered"} => IsEntry(a),
              pc = "reparse" => Signed(a.file, a.sign),
              pc \in {"page", "lines", "answered"} => SessionOf(a) = provider.for /\ UpToDate(a),
              pc = "lines" => provider'.page \subseteq 1..a.lines,
              pc \in {"lines", "answered"} => AsIndexed(a, provider'.got),
              pc = "lookup" => \A e \in {index'[provider.for]} : e # NoEntry => UpToDate(e)
       PROVE  ProviderInv'
  <2>1. RefreshInv'
    BY <1>11 DEF RefreshInv, Detailing
  <2>2. \A e : UpToDate(e)' <=> UpToDate(e)
    BY <1>2, <1>11 DEF UpToDate
  <2>3. IsEntry(a) => IsEntry(a)'
    BY <1>1, EntryKept
  <2>4. ASSUME pc = "reparse" PROVE Signed(a.file, a.sign)'
    <3>1. a.file \in Files /\ Signed(a.file, a.sign)
      BY <1>11, <2>4 DEF IsEntry
    <3> QED BY <1>1, <3>1, SignedKept
  <2>5. AnswerInv'
    <3> SUFFICES ASSUME NEW b, b = provider'.answer
                 PROVE  /\ pc \in {"resign", "reparse", "page", "lines", "answered"} => IsEntry(b)'
                        /\ pc = "reparse" => Signed(b.file, b.sign)'
                        /\ pc \in {"page", "lines", "answered"} =>
                              SessionOf(b) = provider.for /\ UpToDate(b)'
                        /\ pc = "lines" => provider'.page \subseteq 1..b.lines
                        /\ pc \in {"lines", "answered"} => AsIndexed(b, provider'.got)
                        /\ pc = "lookup" =>
                              \A e \in {index'[provider.for]} : e # NoEntry => UpToDate(e)'
      BY <1>11 DEF AnswerInv, SessionOf, AsIndexed
    <3>1. b = a
      BY <1>11
    <3> QED BY <1>11, <2>2, <2>3, <2>4, <3>1
  <2> QED BY <1>1, <1>11, <2>1, <2>5, AskedKept DEF ProviderInv
<1>12. provider.pc \in Detailing => provider.for \in Sessions
  BY <1>1 DEF AnswerInv
<1>13. CASE session_detail
  <2>1. PICK entry : entry = index[provider.for]
    OBVIOUS
  <2>2. /\ provider.pc = "check" /\ index' = index
        /\ IF entry = NoEntry THEN ProviderRests
           ELSE IF tool = "codex" /\ provider.latest /\ entry.sign # Modification(entry.file)
           THEN provider' = [provider EXCEPT !.pc = "resign", !.answer = entry]
           ELSE provider' = [provider EXCEPT !.pc = "page", !.answer = entry]
    BY <1>13, <2>1 DEF session_detail, repository
  <2>3. CASE entry = NoEntry
    BY <1>3, <2>2, <2>3
  <2>4. CASE entry # NoEntry
    <3>1. provider.for \in Sessions
      BY <1>12, <2>2 DEF Detailing
    <3>2. /\ Indexed(entry) /\ SessionOf(entry) = provider.for
          /\ IsEntry(entry) /\ entry.file \in Files
      BY <1>1, <2>1, <2>4, <3>1 DEF IndexInv, Indexed, IsEntry
    <3>3. IndexInv'
      BY <1>1, <2>2, IndexKept
    <3>4. CASE tool = "codex" /\ provider.latest /\ entry.sign # Modification(entry.file)
      <4>1. provider' = [provider EXCEPT !.pc = "resign", !.answer = entry]
        BY <2>2, <2>4, <3>4
      <4>2. /\ provider'.pc = "resign" /\ provider'.for = provider.for
            /\ provider'.latest = provider.latest /\ provider'.asked = provider.asked
            /\ provider'.answer = entry /\ ProviderShape'
        BY <1>1, <4>1 DEF ProviderShape
      <4>3. "resign" \in Detailing \ {"check"}
        BY DEF Detailing
      <4> QED BY <1>11, <3>1, <3>2, <3>3, <4>2, <4>3
    <3>5. CASE ~(tool = "codex" /\ provider.latest /\ entry.sign # Modification(entry.file))
      <4>1. provider' = [provider EXCEPT !.pc = "page", !.answer = entry]
        BY <2>2, <2>4, <3>5
      <4>2. /\ provider'.pc = "page" /\ provider'.for = provider.for
            /\ provider'.latest = provider.latest /\ provider'.asked = provider.asked
            /\ provider'.answer = entry /\ ProviderShape'
        BY <1>1, <4>1 DEF ProviderShape
      <4>3. "page" \in Detailing \ {"check"}
        BY DEF Detailing
      <4>4. UpToDate(entry)
        <5>1. SUFFICES ASSUME provider.latest /\ tool = "codex"
                       PROVE  Newer(entry, provider.asked[entry.file])
          BY DEF UpToDate
        <5>2. entry.sign = Modification(entry.file)
          BY <3>5, <5>1
        <5> PICK then : then = provider.asked[entry.file]
          OBVIOUS
        <5>3. Had(entry.file, then)
          BY <1>1, <3>1, <3>2, AskedHad
        <5> QED BY <1>1, <3>2, <5>2, <5>3, CurrentEntry
      <4> QED BY <1>11, <3>1, <3>2, <3>3, <4>2, <4>3, <4>4
    <3> QED BY <3>4, <3>5
  <2> QED BY <2>3, <2>4
<1>14. CASE rebuild_session_index_from_file
  <2>1. PICK a, b : a = provider.answer /\ b = [a EXCEPT !.sign = Modification(a.file)]
    OBVIOUS
  <2>2. /\ provider.pc = "resign" /\ index' = index
        /\ provider' = [provider EXCEPT !.pc = "reparse", !.answer.sign = Modification(a.file)]
    BY <1>14, <2>1 DEF rebuild_session_index_from_file, repository
  <2>3. provider.for \in Sessions /\ IsEntry(a)
    BY <1>1, <1>12, <2>1, <2>2 DEF AnswerInv, Detailing
  <2>4. provider' = [provider EXCEPT !.pc = "reparse", !.answer = b]
    BY <1>1, <2>1, <2>2 DEF ProviderShape
  <2>5. /\ provider'.pc = "reparse" /\ provider'.for = provider.for
        /\ provider'.latest = provider.latest /\ provider'.asked = provider.asked
        /\ provider'.answer = b /\ ProviderShape'
    BY <1>1, <2>4 DEF ProviderShape
  <2>6. /\ b.file = a.file /\ b.script = a.script /\ b.gen = a.gen /\ b.lines = a.lines
        /\ b.sign = Modification(a.file)
        /\ b = [file |-> b.file, script |-> b.script, gen |-> b.gen, lines |-> b.lines,
                sign |-> b.sign]
    BY <2>1, <2>3 DEF IsEntry
  <2>7. IsEntry(b)
    BY <2>3, <2>6 DEF IsEntry
  <2>8. Signed(b.file, b.sign)
    <3>1. a.file \in Files
      BY <2>3 DEF IsEntry
    <3>2. files[a.file].gen \in Nat /\ files[a.file].len \in Nat
      BY <1>1, <3>1, ContentTyped
    <3> QED BY <2>6, <3>2 DEF Signed, Modification
  <2>9. IndexInv' /\ "reparse" \in Detailing \ {"check"}
    BY <1>1, <2>2, IndexKept DEF Detailing
  <2> QED BY <1>11, <2>3, <2>5, <2>7, <2>8, <2>9
<1>15. CASE replace_session_index
  <2>1. PICK a, e : /\ a = provider.answer
                    /\ e = scan_session_file_index(a.file, a.sign)
    OBVIOUS
  <2>2. /\ provider.pc = "reparse"
        /\ index' = [s \in Sessions |-> IF s = SessionOf(e) THEN e
                                        ELSE IF s = provider.for THEN NoEntry ELSE index[s]]
        /\ IF SessionOf(e) = provider.for
           THEN provider' = [provider EXCEPT !.pc = "lookup", !.answer = NoEntry]
           ELSE ProviderRests
    BY <1>15, <2>1 DEF replace_session_index
  <2>3. provider.for \in Sessions /\ IsEntry(a) /\ Signed(a.file, a.sign) /\ a.file \in Files
    BY <1>1, <1>12, <2>1, <2>2 DEF AnswerInv, Detailing, IsEntry
  <2>4. Indexed(e) /\ e.file = a.file /\ \A then : Had(a.file, then) => Newer(e, then)
    BY <1>1, <2>1, <2>3, ScannedEntry
  <2>5. IndexInv'
    <3> SUFFICES ASSUME NEW s \in Sessions, NEW i, i = index'[s], i # NoEntry
                 PROVE  Indexed(i)' /\ SessionOf(i) = s
      BY DEF IndexInv, SessionOf
    <3>1. CASE s = SessionOf(e)
      <4>1. i = e
        BY <2>2, <3>1
      <4> QED BY <1>1, <2>4, <3>1, <4>1, IndexedKept
    <3>2. CASE s # SessionOf(e)
      <4>1. i = index[s]
        BY <2>2, <3>2
      <4>2. Indexed(i) /\ SessionOf(i) = s
        BY <1>1, <4>1 DEF IndexInv
      <4> QED BY <1>1, <4>2, IndexedKept
    <3> QED BY <3>1, <3>2
  <2>6. CASE SessionOf(e) # provider.for
    BY <1>1, <2>2, <2>5, <2>6, ProviderStops DEF ProviderRests
  <2>7. CASE SessionOf(e) = provider.for
    <3>1. provider' = [provider EXCEPT !.pc = "lookup", !.answer = NoEntry]
      BY <2>2, <2>7
    <3>2. /\ provider'.pc = "lookup" /\ provider'.for = provider.for
          /\ provider'.latest = provider.latest /\ provider'.asked = provider.asked
          /\ provider'.answer = NoEntry /\ ProviderShape'
      BY <1>1, <3>1 DEF ProviderShape
    <3>3. index'[provider.for] = e
      BY <2>2, <2>3, <2>7
    <3>4. UpToDate(e)
      <4>1. Had(a.file, provider.asked[a.file])
        BY <1>1, <2>3, AskedHad
      <4> QED BY <2>4, <4>1 DEF UpToDate
    <3>5. "lookup" \in Detailing \ {"check"}
      BY DEF Detailing
    <3>6. \A i \in {index'[provider.for]} : i # NoEntry => UpToDate(i)
      BY <3>3, <3>4
    <3> QED BY <1>11, <2>3, <2>5, <3>2, <3>5, <3>6
  <2> QED BY <2>6, <2>7
<1>16. CASE session_index
  <2>1. PICK e : e = index[provider.for]
    OBVIOUS
  <2>2. /\ provider.pc = "lookup" /\ index' = index
        /\ IF e = NoEntry THEN ProviderRests
           ELSE provider' = [provider EXCEPT !.pc = "page", !.answer = e]
    BY <1>16, <2>1 DEF session_index, repository
  <2>3. CASE e = NoEntry
    BY <1>3, <2>2, <2>3
  <2>4. CASE e # NoEntry
    <3>1. provider.for \in Sessions
      BY <1>12, <2>2 DEF Detailing
    <3>2. IsEntry(e) /\ SessionOf(e) = provider.for
      BY <1>1, <2>1, <2>4, <3>1 DEF IndexInv, Indexed
    <3>3. UpToDate(e)
      BY <1>1, <2>1, <2>2, <2>4 DEF AnswerInv
    <3>4. provider' = [provider EXCEPT !.pc = "page", !.answer = e]
      BY <2>2, <2>4
    <3>5. /\ provider'.pc = "page" /\ provider'.for = provider.for
          /\ provider'.latest = provider.latest /\ provider'.asked = provider.asked
          /\ provider'.answer = e /\ ProviderShape'
      BY <1>1, <3>4 DEF ProviderShape
    <3>6. IndexInv' /\ "page" \in Detailing \ {"check"}
      BY <1>1, <2>2, IndexKept DEF Detailing
    <3> QED BY <1>11, <3>1, <3>2, <3>3, <3>5, <3>6
  <2> QED BY <2>3, <2>4
\* The index does not hold.
<1>17. ASSUME Stale, index' = index, NEW a, a = provider.answer, IsEntry(a),
              provider.for \in Sessions
       PROVE  ProviderInv'
  <2>1. CASE ProviderRests
    BY <1>3, <1>17, <2>1
  <2>2. CASE provider' = [provider EXCEPT !.pc = "resign", !.retried = TRUE]
    <3>1. /\ provider'.pc = "resign" /\ provider'.for = provider.for
          /\ provider'.latest = provider.latest /\ provider'.asked = provider.asked
          /\ provider'.answer = a /\ ProviderShape'
      BY <1>1, <1>17, <2>2 DEF ProviderShape
    <3>2. IndexInv' /\ "resign" \in Detailing \ {"check"}
      BY <1>1, <1>17, IndexKept DEF Detailing
    <3> QED BY <1>11, <1>17, <3>1, <3>2
  <2> QED BY <1>17, <2>1, <2>2 DEF Stale
<1>18. CASE detail_from_index
  <2>1. PICK a : a = provider.answer
    OBVIOUS
  <2>2. /\ provider.pc = "page" /\ index' = index
        /\ \/ \E page \in SUBSET (1..a.lines) :
                 provider' = [provider EXCEPT !.pc = "lines", !.page = page, !.got = {}]
           \/ Stale
    BY <1>18, <2>1 DEF detail_from_index, repository
  <2>3. provider.for \in Sessions /\ IsEntry(a) /\ SessionOf(a) = provider.for /\ UpToDate(a)
    BY <1>1, <1>12, <2>1, <2>2 DEF AnswerInv, Detailing
  <2>4. CASE Stale
    BY <1>17, <2>1, <2>2, <2>3, <2>4
  <2>5. ASSUME NEW page \in SUBSET (1..a.lines),
               provider' = [provider EXCEPT !.pc = "lines", !.page = page, !.got = {}]
        PROVE  ProviderInv'
    <3>1. /\ provider'.pc = "lines" /\ provider'.for = provider.for
          /\ provider'.latest = provider.latest /\ provider'.asked = provider.asked
          /\ provider'.answer = a /\ ProviderShape'
          /\ provider'.page = page /\ provider'.got = {}
      BY <1>1, <2>1, <2>5 DEF ProviderShape
    <3>2. provider'.page \subseteq 1..a.lines /\ AsIndexed(a, provider'.got)
      BY <3>1 DEF AsIndexed
    <3>3. IndexInv' /\ "lines" \in Detailing \ {"check"}
      BY <1>1, <2>2, IndexKept DEF Detailing
    <3> QED BY <1>11, <2>3, <3>1, <3>2, <3>3
  <2> QED BY <2>2, <2>4, <2>5
\* A line that is taken is the one that was indexed.
<1>19. CASE read_messages_by_range
  <2>1. PICK a : a = provider.answer
    OBVIOUS
  <2>2. /\ provider.pc = "lines" /\ index' = index
        /\ \/ At("answered")
           \/ \E n \in provider.page :
                 \/ /\ Holds(a, n)
                    /\ provider' = [provider EXCEPT !.page = @ \ {n},
                                        !.got = @ \cup {<<n, Content(a.file)[n]>>}]
                 \/ Stale
    BY <1>19, <2>1 DEF read_messages_by_range, repository
  <2>3. /\ provider.for \in Sessions /\ IsEntry(a) /\ SessionOf(a) = provider.for /\ UpToDate(a)
        /\ provider.page \subseteq 1..a.lines /\ AsIndexed(a, provider.got)
    BY <1>1, <1>12, <2>1, <2>2 DEF AnswerInv, Detailing
  <2>4. IndexInv' /\ {"lines", "answered"} \subseteq Detailing \ {"check"}
    BY <1>1, <2>2, IndexKept DEF Detailing
  <2>5. CASE Stale
    BY <1>17, <2>1, <2>2, <2>3, <2>5
  <2>6. CASE At("answered")
    <3>1. /\ provider'.pc = "answered" /\ provider'.for = provider.for
          /\ provider'.latest = provider.latest /\ provider'.asked = provider.asked
          /\ provider'.answer = a /\ ProviderShape' /\ provider'.got = provider.got
      BY <1>1, <2>1, <2>6 DEF ProviderShape, At
    <3> QED BY <1>11, <2>3, <2>4, <3>1
  <2>7. ASSUME NEW n \in provider.page, Holds(a, n),
               provider' = [provider EXCEPT !.page = @ \ {n},
                                !.got = @ \cup {<<n, Content(a.file)[n]>>}]
        PROVE  ProviderInv'
    <3>1. /\ provider'.pc = "lines" /\ provider'.for = provider.for
          /\ provider'.latest = provider.latest /\ provider'.asked = provider.asked
          /\ provider'.answer = a /\ ProviderShape'
          /\ provider'.page = provider.page \ {n}
          /\ provider'.got = provider.got \cup {<<n, Content(a.file)[n]>>}
      BY <1>1, <2>1, <2>2, <2>7 DEF ProviderShape
    <3>2. n \in 1..a.lines /\ Content(a.file)[n] = a.script[n]
      BY <2>3, <2>7 DEF Holds
    <3>3. provider'.page \subseteq 1..a.lines /\ AsIndexed(a, provider'.got)
      BY <2>3, <3>1, <3>2 DEF AsIndexed
    <3> QED BY <1>11, <2>3, <2>4, <3>1, <3>3
  <2> QED BY <2>2, <2>5, <2>6, <2>7
<1>20. CASE write_provider_message
  BY <1>3, <1>20 DEF write_provider_message, repository
<1> QED BY <1>5, <1>6, <1>7, <1>8, <1>9, <1>10, <1>13, <1>14, <1>15, <1>16, <1>18, <1>19, <1>20
        DEF ProviderStep

\* Every step keeps it, and the initial states have it.
LEMMA ProviderInvKept ==
    ASSUME ProviderInv, [Next]_vars
    PROVE  ProviderInv'
<1>1. FilesStep
  BY StepKeepsFiles DEF ProviderInv
<1>2. CASE ProviderStep
  BY <1>1, <1>2, ProviderStepKeeps
<1>3. CASE ToolStep \/ SwitchListener \/ Settle
  BY <1>1, <1>3, ProviderWaits DEF ToolStep, AppendHalfLine, Rewrite, GrowsOld, SwitchListener,
     Settle, repository
<1>4. CASE WatcherStep
  <2>1. provider' = provider /\ (index' = index \/ clear_runtime_indexes)
    BY <1>4 DEF WatcherStep, StopListening, Listen, ReceivesNothing, flush_pending_dir,
       flush_pending_file, PlanScan, discover_recent_files, claude_discover_recent_files,
       NotDue, scan_active_files, scan_file, append_events, AppendFails, repository
  <2> QED BY <1>1, <2>1, ProviderWaits
<1>5. CASE UNCHANGED vars
  BY <1>1, <1>5, ProviderWaits DEF vars
<1> QED BY <1>2, <1>3, <1>4, <1>5 DEF Next

LEMMA InitProvides == Init => ProviderInv
<1> SUFFICES ASSUME Init PROVE ProviderInv
  OBVIOUS
<1>1. FilesInv
  BY InitScans DEF ScanInv
<1>2. provider = Idle /\ index = [s \in Sessions |-> NoEntry]
  BY DEF Init
<1>3. ProviderShape /\ AskedInv /\ RefreshInv /\ AnswerInv
  BY <1>2 DEF ProviderShape, AskedInv, RefreshInv, AnswerInv, Idle, Detailing
<1> QED BY <1>1, <1>2, <1>3 DEF ProviderInv, IndexInv

\* It is what was to be shown.
LEMMA ProviderInvAnswers == ProviderInv => DetailAnswersRequest
<1> SUFFICES ASSUME ProviderInv, provider.pc = "answered"
             PROVE  LET a == provider.answer
                        then == provider.asked[a.file]
                    IN /\ SessionOf(a) = provider.for
                       /\ \A read \in provider.got : /\ read[1] \in 1..a.lines
                                                     /\ read[2] = a.script[read[1]]
                       /\ provider.latest /\ tool = "codex" =>
                             a.gen > then.gen \/ (a.gen = then.gen /\ a.lines >= then.lines)
  BY DEF DetailAnswersRequest
<1>1. /\ SessionOf(provider.answer) = provider.for /\ UpToDate(provider.answer)
      /\ AsIndexed(provider.answer, provider.got)
  BY DEF ProviderInv, AnswerInv
<1> QED BY <1>1 DEF UpToDate, Newer, AsIndexed

\* Every line of a detail answer is the line that the session it was asked for has
\* there, although the file may be replaced between the check of its identity and the
\* reading of any line (verify_session_identity, read_indexed_line), and the latest page
\* of a Codex session is taken from an index of every line that was complete when the
\* request came in (rebuild_session_index_from_file).
THEOREM DetailAnswersRequestHolds == Spec => []DetailAnswersRequest
<1>1. ProviderInv /\ [Next]_vars => ProviderInv'
  BY ProviderInvKept
<1> QED BY <1>1, InitProvides, ProviderInvAnswers, PTL DEF Spec

=============================================================================

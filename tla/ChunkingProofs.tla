--------------------------- MODULE ChunkingProofs ---------------------------
(***************************************************************************)
(* A file read back from its chunks is what its author wrote.  Each loop   *)
(* of chunking.py keeps what was said: a paragraph its lines, the pieces   *)
(* and bodies their paragraphs, a passage its body once the head is cut    *)
(* off; and a reader who joins the passages takes for overlap exactly what *)
(* packing repeated.  The chunks of a section add what it says to those    *)
(* before, so line after line, or page after page, the chunks and the      *)
(* section that is still open say what has been read.                      *)
(***************************************************************************)
EXTENDS Chunking, NaturalSets, SequenceTheorems

-----------------------------------------------------------------------------
(* Loops, and sequences laid end to end *)

\* A function on 1..n is a sequence of n.
LEMMA IsSequence ==
  ASSUME NEW S, NEW n \in Nat, NEW f \in [1..n -> S]
  PROVE  f \in Seq(S) /\ Len(f) = n /\ DOMAIN f = 1..n
<1>1. f \in Seq(S)
  BY SeqDef
<1> QED BY <1>1, LenProperties

\* What holds of the empty sequence and passes to one element more holds of every sequence.
LEMMA OnSequences ==
  ASSUME NEW E, NEW S, <<>> \in S, \A s \in Seq(E), e \in E : s \in S => Append(s, e) \in S
  PROVE  Seq(E) \subseteq S
<1> SUFFICES ASSUME NEW s \in Seq(E) PROVE s \in S
  OBVIOUS
<1> DEFINE T == {n \in 0..Len(s) : SubSeq(s, 1, n) \in S}
<1>0. Len(s) \in Nat /\ \A i \in 1..Len(s) : s[i] \in E
  BY LenProperties, ElementOfSeq
<1>1. 0 \in T
  <2>1. SubSeq(s, 1, 0) = <<>>
    BY SubSeqEmpty
  <2>2. 0 \in 0..Len(s)
    BY <1>0
  <2>3. SubSeq(s, 1, 0) \in S
    BY <2>1, Zenon
  <2> QED BY <2>2, <2>3, Zenon
<1>2. ASSUME NEW n \in 1..Len(s), n - 1 \in T PROVE n \in T
  <2>1. SubSeq(s, 1, n - 1) \in Seq(E) /\ s[n] \in E
    BY <1>0, SubSeqProperties
  <2>2. SubSeq(s, 1, n) = SubSeq(s, 1, n - 1) \o <<s[n]>>
    BY <1>0, SubSeqRecursiveSecond
  <2>3. SubSeq(s, 1, n) = Append(SubSeq(s, 1, n - 1), s[n])
    BY <2>1, <2>2, AppendIsConcat
  <2>4. SubSeq(s, 1, n - 1) \in S
    BY <1>2
  <2>5. Append(SubSeq(s, 1, n - 1), s[n]) \in S
    BY <2>1, <2>4
  <2>6. n \in 0..Len(s)
    BY <1>0
  <2>7. SubSeq(s, 1, n) \in S
    BY <2>3, <2>5, Zenon
  <2> QED BY <2>6, <2>7, Zenon
<1>3. \A n \in 0..Len(s) : n \in T
  <2> HIDE DEF T
  <2> QED BY <1>0, <1>1, <1>2, UpTo
<1>4. SubSeq(s, 1, Len(s)) = s
  BY SubSeqFull
<1>5. Len(s) \in T
  <2> HIDE DEF T
  <2> QED BY <1>0, <1>3
<1> QED BY <1>4, <1>5

\* What leads from a value and an element to the next value.
Steps(X, E) == [X \X E -> X]

\* A step leads to a value of the loop.
LEMMA StepOf ==
  ASSUME NEW X, NEW E, NEW step \in Steps(X, E), NEW x \in X, NEW e \in E
  PROVE  step[<<x, e>>] \in X
BY DEF Steps

\* f goes through a loop over s.
Follows(f, step, start, s) ==
  f[0] = start /\ \A n \in 1..Len(s) : f[n] = step[<<f[n - 1], s[n]>>]

\* There is a function that follows the steps of a loop.
LEMMA Followed ==
  ASSUME NEW X, NEW E, NEW start \in X, NEW step \in Steps(X, E), NEW s \in Seq(E)
  PROVE  \E f \in [0..Len(s) -> X] : Follows(f, step, start, s)
<1> DEFINE S == {m \in Nat : \E f \in [0..m -> X] :
                    f[0] = start /\ \A n \in 1..m : f[n] = step[<<f[n - 1], s[n]>>]}
<1>0. Len(s) \in Nat /\ \A i \in 1..Len(s) : s[i] \in E
  BY LenProperties, ElementOfSeq
<1>1. 0 \in S
  <2> DEFINE f == [i \in 0..0 |-> start]
  <2>1. f \in [0..0 -> X] /\ f[0] = start /\ \A n \in 1..0 : FALSE
    OBVIOUS
  <2> HIDE DEF f
  <2> QED BY <2>1
<1>2. ASSUME NEW m \in 1..Len(s), m - 1 \in S PROVE m \in S
  <2>1. PICK f \in [0..(m - 1) -> X] :
          f[0] = start /\ \A n \in 1..(m - 1) : f[n] = step[<<f[n - 1], s[n]>>]
    BY <1>2
  <2> DEFINE g == [i \in 0..m |-> IF i = m THEN step[<<f[m - 1], s[m]>>] ELSE f[i]]
  <2>2. m \in Nat /\ m > 0
    BY <1>0
  <2>3. \A i \in 0..m : i # m => i \in 0..(m - 1)
    BY <2>2
  <2>4. m - 1 \in 0..(m - 1) /\ f[m - 1] \in X /\ s[m] \in E
    BY <2>2, <1>0
  <2>5. step[<<f[m - 1], s[m]>>] \in X
    BY <2>4, StepOf
  <2>6. g \in [0..m -> X]
    BY <2>3, <2>5
  <2>7. g[0] = start
    BY <2>1, <2>2
  <2>8. ASSUME NEW n \in 1..m PROVE g[n] = step[<<g[n - 1], s[n]>>]
    <3>1. n - 1 \in 0..m /\ n - 1 # m /\ n \in 0..m
      BY <2>2
    <3>2. g[n - 1] = f[n - 1]
      BY <3>1
    <3>3. CASE n = m
      BY <3>1, <3>2, <3>3
    <3>4. CASE n # m
      <4>1. n \in 1..(m - 1)
        BY <2>2, <3>4
      <4>2. g[n] = f[n]
        BY <3>1, <3>4
      <4> QED BY <2>1, <3>2, <4>1, <4>2
    <3> QED BY <3>3, <3>4
  <2> HIDE DEF g
  <2> QED BY <2>2, <2>6, <2>7, <2>8
<1>3. Len(s) \in 0..Len(s)
  BY <1>0
<1> HIDE DEF S
<1>4. Len(s) \in S
  BY <1>0, <1>1, <1>2, <1>3, UpTo
<1> QED BY <1>4 DEF S, Follows

\* What a loop comes to is what any function that follows its steps ends with.
LEMMA TakenInIs ==
  ASSUME NEW X, NEW E, NEW start \in X, NEW step \in Steps(X, E), NEW s \in Seq(E),
         NEW f \in [0..Len(s) -> X], Follows(f, step, start, s)
  PROVE  TakenIn(step, start, s) = f[Len(s)]
<1> DEFINE Solves(g) == g = [n \in 0..Len(s) |->
                                IF n = 0 THEN start ELSE step[<<g[n - 1], s[n]>>]]
           c == CHOOSE g : Solves(g)
           S == {n \in 0..Len(s) : c[n] = f[n]}
<1>0. Len(s) \in Nat
  BY LenProperties
<1>1. Solves(f)
  <2> DEFINE h == [n \in 0..Len(s) |-> IF n = 0 THEN start ELSE step[<<f[n - 1], s[n]>>]]
  <2>1. \A n \in 0..Len(s) : h[n] = f[n]
    <3> TAKE n \in 0..Len(s)
    <3>1. CASE n = 0
      BY <3>1 DEF Follows
    <3>2. CASE n # 0
      <4>1. n \in 1..Len(s)
        BY <3>2, <1>0
      <4> QED BY <4>1, <3>2 DEF Follows
    <3> QED BY <3>1, <3>2
  <2> QED BY <2>1
<1>2. Solves(c)
  <2> HIDE DEF Solves
  <2> QED BY <1>1
<1>3. c[0] = start /\ \A n \in 1..Len(s) : c[n] = step[<<c[n - 1], s[n]>>]
  <2> HIDE DEF c
  <2>1. \A n \in 0..Len(s) : c[n] = IF n = 0 THEN start ELSE step[<<c[n - 1], s[n]>>]
    BY <1>2
  <2>2. 0 \in 0..Len(s) /\ \A n \in 1..Len(s) : n \in 0..Len(s) /\ n # 0
    BY <1>0
  <2> QED BY <2>1, <2>2
<1>4. 0 \in S
  BY <1>0, <1>3 DEF Follows
<1>5. ASSUME NEW n \in 1..Len(s), n - 1 \in S PROVE n \in S
  <2>1. c[n - 1] = f[n - 1] /\ n \in 0..Len(s)
    BY <1>0, <1>5
  <2>2. c[n] = step[<<c[n - 1], s[n]>>] /\ f[n] = step[<<f[n - 1], s[n]>>]
    BY <1>3 DEF Follows
  <2> QED BY <2>1, <2>2
<1>6. Len(s) \in S
  <2> HIDE DEF S
  <2>1. Len(s) \in 0..Len(s)
    BY <1>0
  <2> QED BY <1>0, <1>4, <1>5, <2>1, UpTo
<1>7. TakenIn(step, start, s) = c[Len(s)]
  BY DEF TakenIn
<1> QED BY <1>6, <1>7

\* A loop over one element more takes one step more.
LEMMA TakenInSteps ==
  ASSUME NEW X, NEW E, NEW start \in X, NEW step \in Steps(X, E)
  PROVE  /\ TakenIn(step, start, <<>>) = start
         /\ \A s \in Seq(E) : TakenIn(step, start, s) \in X
         /\ \A s \in Seq(E), e \in E :
              TakenIn(step, start, Append(s, e)) = step[<<TakenIn(step, start, s), e>>]
<1>0. ASSUME NEW s \in Seq(E), NEW f \in [0..Len(s) -> X], Follows(f, step, start, s)
      PROVE  TakenIn(step, start, s) = f[Len(s)]
  BY <1>0, TakenInIs
<1>1. TakenIn(step, start, <<>>) = start
  <2>1. <<>> \in Seq(E) /\ Len(<<>>) = 0
    BY EmptySeq
  <2>2. PICK f \in [0..Len(<<>>) -> X] : Follows(f, step, start, <<>>)
    BY <2>1, Followed
  <2>3. TakenIn(step, start, <<>>) = f[Len(<<>>)]
    BY <2>1, <2>2, <1>0
  <2> QED BY <2>1, <2>2, <2>3 DEF Follows
<1>2. ASSUME NEW s \in Seq(E)
      PROVE  \E f \in [0..Len(s) -> X] :
               /\ Follows(f, step, start, s)
               /\ TakenIn(step, start, s) = f[Len(s)]
  <2>1. PICK f \in [0..Len(s) -> X] : Follows(f, step, start, s)
    BY Followed
  <2>2. TakenIn(step, start, s) = f[Len(s)]
    BY <2>1, <1>0
  <2> QED BY <2>1, <2>2
<1>3. ASSUME NEW s \in Seq(E)
      PROVE  TakenIn(step, start, s) \in X
  <2>1. Len(s) \in 0..Len(s)
    BY LenProperties
  <2> QED BY <2>1, <1>2
<1>4. ASSUME NEW s \in Seq(E), NEW e \in E
      PROVE  TakenIn(step, start, Append(s, e)) = step[<<TakenIn(step, start, s), e>>]
  <2> DEFINE t == Append(s, e)
  <2>1. /\ t \in Seq(E) /\ Len(t) = Len(s) + 1 /\ Len(s) \in Nat
        /\ \A i \in 1..Len(s) : t[i] = s[i]
        /\ t[Len(s) + 1] = e
    BY AppendProperties, LenProperties
  <2> HIDE DEF t
  <2>2. PICK g \in [0..Len(t) -> X] :
          /\ Follows(g, step, start, t)
          /\ TakenIn(step, start, t) = g[Len(t)]
    BY <2>1, <1>2
  <2> DEFINE f == [n \in 0..Len(s) |-> g[n]]
  <2>3. f \in [0..Len(s) -> X] /\ f[0] = start
    BY <2>1, <2>2 DEF Follows
  <2>4. ASSUME NEW n \in 1..Len(s) PROVE f[n] = step[<<f[n - 1], s[n]>>]
    <3>1. n \in 0..Len(s) /\ n - 1 \in 0..Len(s) /\ n \in 1..Len(t)
      BY <2>1
    <3> QED BY <3>1, <2>1, <2>2 DEF Follows
  <2>5. f[Len(s)] = g[Len(s)]
    BY <2>1
  <2> HIDE DEF f
  <2>6. TakenIn(step, start, s) = f[Len(s)]
    <3>1. Follows(f, step, start, s)
      BY <2>3, <2>4 DEF Follows
    <3> QED BY <2>3, <3>1, <1>0
  <2>7. g[Len(s) + 1] = step[<<g[Len(s)], e>>]
    BY <2>1, <2>2 DEF Follows
  <2> QED BY <2>1, <2>2, <2>5, <2>6, <2>7 DEF t
<1> QED BY <1>1, <1>3, <1>4

\* Laying one sequence after another is a step.
LEMMA CatSteps ==
  ASSUME NEW E, NEW cat, cat = [p \in Seq(E) \X Seq(E) |-> p[1] \o p[2]]
  PROVE  /\ cat \in Steps(Seq(E), Seq(E))
         /\ \A s, t \in Seq(E) : cat[<<s, t>>] = s \o t
<1>1. ASSUME NEW p \in Seq(E) \X Seq(E) PROVE p[1] \o p[2] \in Seq(E)
  <2>1. p[1] \in Seq(E) /\ p[2] \in Seq(E)
    OBVIOUS
  <2> QED BY <2>1, ConcatProperties
<1>2. cat \in Steps(Seq(E), Seq(E))
  BY <1>1 DEF Steps
<1>3. ASSUME NEW s \in Seq(E), NEW t \in Seq(E) PROVE cat[<<s, t>>] = s \o t
  <2>1. <<s, t>> \in Seq(E) \X Seq(E)
    OBVIOUS
  <2> QED BY <2>1
<1> QED BY <1>2, <1>3

\* FlattenSeq is a loop.
LEMMA FlattenIs ==
  ASSUME NEW E, NEW ss \in Seq(Seq(E)), NEW cat,
         cat = [p \in Seq(E) \X Seq(E) |-> p[1] \o p[2]]
  PROVE  FlattenSeq(ss) = TakenIn(cat, <<>>, ss)
<1> DEFINE N == Len(ss)
<1>0. N \in Nat /\ \A i \in 1..N : ss[i] \in Seq(E)
  BY LenProperties, ElementOfSeq
<1>1. /\ cat \in Steps(Seq(E), Seq(E)) /\ <<>> \in Seq(E)
      /\ \A s, t \in Seq(E) : cat[<<s, t>>] = s \o t
  BY CatSteps, EmptySeq
<1>2. CASE N = 0
  <2>1. ss = <<>>
    BY <1>2, EmptySeq
  <2>2. FlattenSeq(ss) = ss
    BY <1>2 DEF FlattenSeq
  <2>3. TakenIn(cat, <<>>, <<>>) = <<>>
    BY <1>1, TakenInSteps
  <2> QED BY <2>1, <2>2, <2>3
<1>3. CASE N # 0
  <2> HIDE DEF N
  <2>0. PICK f \in [0..Len(ss) -> Seq(E)] : Follows(f, cat, <<>>, ss)
    BY <1>1, Followed
  <2>1. f \in [0..N -> Seq(E)] /\ Follows(f, cat, <<>>, ss)
    BY <2>0 DEF N
  <2>2. TakenIn(cat, <<>>, ss) = f[N]
    <3>1. \A X, start : start \in X /\ cat \in Steps(X, X) /\ ss \in Seq(X)
                         /\ f \in [0..Len(ss) -> X] /\ Follows(f, cat, start, ss)
                         => TakenIn(cat, start, ss) = f[Len(ss)]
      BY TakenInIs
    <3>2. TakenIn(cat, <<>>, ss) = f[Len(ss)]
      BY <1>1, <2>0, <3>1
    <3> QED BY <3>2 DEF N
  <2>3. f[0] = <<>> /\ \A n \in 1..N : f[n] = cat[<<f[n - 1], ss[n]>>]
    BY <2>1 DEF Follows, N
  <2>4. ASSUME NEW n \in 1..N
        PROVE  f[n] = IF n = 1 THEN ss[n] ELSE f[n - 1] \o ss[n]
    <3>1. f[n - 1] \in Seq(E) /\ ss[n] \in Seq(E)
      <4>1. n - 1 \in 0..N
        BY <1>0
      <4> QED BY <1>0, <2>1, <4>1
    <3>2. f[n] = f[n - 1] \o ss[n]
      BY <1>1, <2>3, <3>1
    <3>3. CASE n = 1
      <4>1. f[n - 1] = <<>>
        BY <2>3, <3>3
      <4>2. <<>> \o ss[n] = ss[n]
        BY <3>1, ConcatEmptySeq
      <4> QED BY <3>2, <3>3, <4>1, <4>2
    <3> QED BY <3>2, <3>3
  <2> DEFINE Solves(g) == g = [i \in 1..N |-> IF i = 1 THEN ss[i] ELSE g[i - 1] \o ss[i]]
             c == CHOOSE g : Solves(g)
             h == [i \in 1..N |-> f[i]]
  <2>5. Solves(h)
    <3>1. ASSUME NEW n \in 1..N
          PROVE  h[n] = IF n = 1 THEN ss[n] ELSE h[n - 1] \o ss[n]
      <4>1. n # 1 => n - 1 \in 1..N
        BY <1>0
      <4>2. n # 1 => h[n - 1] = f[n - 1]
        BY <4>1
      <4> QED BY <2>4, <4>2
    <3>2. h = [i \in 1..N |-> h[i]]
      OBVIOUS
    <3> HIDE DEF h
    <3> QED BY <3>1, <3>2
  <2>6. Solves(c)
    <3> HIDE DEF Solves, h
    <3> QED BY <2>5
  <2>7. \A n \in 1..N : c[n] = IF n = 1 THEN ss[n] ELSE c[n - 1] \o ss[n]
    <3> HIDE DEF c
    <3> QED BY <2>6
  <2> DEFINE S == {n \in 0..N : n # 0 => c[n] = f[n]}
  <2>8. \A n \in 0..N : n \in S
    <3>1. 0 \in S
      BY <1>0
    <3>2. ASSUME NEW n \in 1..N, n - 1 \in S PROVE n \in S
      <4>1. n # 1 => c[n - 1] = f[n - 1]
        BY <1>0, <3>2
      <4>2. c[n] = f[n]
        <5> HIDE DEF c
        <5> QED BY <2>4, <2>7, <4>1
      <4> QED BY <1>0, <4>2
    <3> HIDE DEF S
    <3> QED BY <1>0, <3>1, <3>2, UpTo
  <2>9. c[N] = f[N]
    <3>1. N \in 0..N
      BY <1>0
    <3>2. N \in S
      <4> HIDE DEF S
      <4> QED BY <2>8, <3>1
    <3> QED BY <1>3, <3>2
  <2>10. FlattenSeq(ss) = c[N]
    BY <1>3 DEF FlattenSeq, N
  <2> QED BY <2>2, <2>9, <2>10
<1> QED BY <1>2, <1>3

\* What FlattenSeq gives, one sequence after another.
LEMMA Flattened ==
  ASSUME NEW E
  PROVE  /\ FlattenSeq(<<>>) = <<>>
         /\ \A ss \in Seq(Seq(E)) : FlattenSeq(ss) \in Seq(E)
         /\ \A ss \in Seq(Seq(E)), s \in Seq(E) :
              FlattenSeq(Append(ss, s)) = FlattenSeq(ss) \o s
<1> DEFINE cat == [p \in Seq(E) \X Seq(E) |-> p[1] \o p[2]]
<1>1. /\ cat \in Steps(Seq(E), Seq(E)) /\ <<>> \in Seq(E) /\ <<>> \in Seq(Seq(E))
      /\ \A s, t \in Seq(E) : cat[<<s, t>>] = s \o t
  BY CatSteps, EmptySeq
<1>2. \A ss \in Seq(Seq(E)) : FlattenSeq(ss) = TakenIn(cat, <<>>, ss)
  BY FlattenIs
<1> HIDE DEF cat
<1>3. /\ TakenIn(cat, <<>>, <<>>) = <<>>
      /\ \A ss \in Seq(Seq(E)) : TakenIn(cat, <<>>, ss) \in Seq(E)
      /\ \A ss \in Seq(Seq(E)), s \in Seq(E) :
           TakenIn(cat, <<>>, Append(ss, s)) = cat[<<TakenIn(cat, <<>>, ss), s>>]
  BY <1>1, TakenInSteps
<1>4. \A ss \in Seq(Seq(E)), s \in Seq(E) : Append(ss, s) \in Seq(Seq(E))
  BY AppendProperties
<1>5. FlattenSeq(<<>>) = <<>>
  BY <1>1, <1>2, <1>3
<1>6. \A ss \in Seq(Seq(E)) : FlattenSeq(ss) \in Seq(E)
  BY <1>2, <1>3
<1>7. ASSUME NEW ss \in Seq(Seq(E)), NEW s \in Seq(E)
      PROVE  FlattenSeq(Append(ss, s)) = FlattenSeq(ss) \o s
  <2>1. TakenIn(cat, <<>>, ss) \in Seq(E) /\ FlattenSeq(ss) = TakenIn(cat, <<>>, ss)
    BY <1>2, <1>3
  <2>2. FlattenSeq(Append(ss, s)) = cat[<<TakenIn(cat, <<>>, ss), s>>]
    BY <1>2, <1>3, <1>4
  <2> QED BY <1>1, <2>1, <2>2
<1> QED BY <1>5, <1>6, <1>7

\* A single sequence, flattened, is itself.
LEMMA FlattenOne ==
  ASSUME NEW E, NEW s \in Seq(E)
  PROVE  FlattenSeq(<<s>>) = s
<1>1. <<>> \in Seq(Seq(E)) /\ <<>> \in Seq(E)
  BY EmptySeq
<1>2. Append(<<>>, s) = <<>> \o <<s>>
  BY <1>1, AppendIsConcat
<1>3. <<s>> \in Seq(Seq(E))
  OBVIOUS
<1>4. <<>> \o <<s>> = <<s>>
  BY <1>3, ConcatEmptySeq
<1>5. FlattenSeq(Append(<<>>, s)) = <<>> \o s
  BY <1>1, Flattened
<1>6. <<>> \o s = s
  BY ConcatEmptySeq
<1> QED BY <1>2, <1>4, <1>5, <1>6

\* An element at the end of two sequences is at the end of the second.
LEMMA ConcatAppend ==
  ASSUME NEW E, NEW s \in Seq(E), NEW t \in Seq(E), NEW e \in E
  PROVE  s \o Append(t, e) = Append(s \o t, e)
<1>1. <<e>> \in Seq(E) /\ s \o t \in Seq(E)
  BY ConcatProperties
<1>2. Append(t, e) = t \o <<e>> /\ Append(s \o t, e) = (s \o t) \o <<e>>
  BY <1>1, AppendIsConcat
<1>3. (s \o t) \o <<e>> = s \o (t \o <<e>>)
  BY <1>1, ConcatAssociative
<1> QED BY <1>2, <1>3

\* Flattening one sequence of sequences after another.
LEMMA FlattenConcat ==
  ASSUME NEW E, NEW ss \in Seq(Seq(E)), NEW tt \in Seq(Seq(E))
  PROVE  FlattenSeq(ss \o tt) = FlattenSeq(ss) \o FlattenSeq(tt)
<1> DEFINE S == {t \in Seq(Seq(E)) : FlattenSeq(ss \o t) = FlattenSeq(ss) \o FlattenSeq(t)}
<1>1. <<>> \in S
  <2>1. <<>> \in Seq(Seq(E)) /\ FlattenSeq(<<>>) = <<>> /\ FlattenSeq(ss) \in Seq(E)
    BY EmptySeq, Flattened
  <2>2. ss \o <<>> = ss /\ FlattenSeq(ss) \o <<>> = FlattenSeq(ss)
    BY <2>1, ConcatEmptySeq
  <2>3. FlattenSeq(ss \o <<>>) = FlattenSeq(ss) \o FlattenSeq(<<>>)
    BY <2>1, <2>2
  <2> QED BY <2>1, <2>3, Zenon
<1>2. ASSUME NEW t \in Seq(Seq(E)), NEW e \in Seq(E), t \in S PROVE Append(t, e) \in S
  <2>1. FlattenSeq(ss \o t) = FlattenSeq(ss) \o FlattenSeq(t)
    BY <1>2
  <2>2. /\ FlattenSeq(ss) \in Seq(E) /\ FlattenSeq(t) \in Seq(E) /\ ss \o t \in Seq(Seq(E))
        /\ Append(t, e) \in Seq(Seq(E)) /\ <<e>> \in Seq(Seq(E))
    BY Flattened, ConcatProperties, AppendProperties
  <2>3. ss \o Append(t, e) = Append(ss \o t, e)
    BY ConcatAppend
  <2>4. FlattenSeq(Append(ss \o t, e)) = FlattenSeq(ss \o t) \o e
    BY <2>2, Flattened
  <2>5. FlattenSeq(Append(t, e)) = FlattenSeq(t) \o e
    BY Flattened
  <2>6. (FlattenSeq(ss) \o FlattenSeq(t)) \o e = FlattenSeq(ss) \o (FlattenSeq(t) \o e)
    BY <2>2, ConcatAssociative
  <2>7. FlattenSeq(ss \o Append(t, e)) = FlattenSeq(ss) \o FlattenSeq(Append(t, e))
    BY <2>1, <2>3, <2>4, <2>5, <2>6
  <2> QED BY <2>2, <2>7, Zenon
<1>3. Seq(Seq(E)) \subseteq S
  <2> HIDE DEF S
  <2> QED BY <1>1, <1>2, OnSequences
<1> QED BY <1>3

-----------------------------------------------------------------------------
(* What a text says, and what leaves it as it is *)

\* The ends of a set of places.
LEMMA EndsOf ==
  ASSUME NEW N \in Nat, NEW S, S \subseteq 1..N, S # {}
  PROVE  /\ Min(S) \in S /\ \A x \in S : Min(S) <= x
         /\ Max(S) \in S /\ \A x \in S : x <= Max(S)
<1>1. S \subseteq Nat
  OBVIOUS
<1>2. IsFiniteSet(S)
  <2>1. IsFiniteSet(1..N)
    BY FS_Interval
  <2> QED BY <2>1, FS_Subset
<1>3. \E x \in S : \A y \in S : x <= y
  BY <1>1, LeastOf
<1>4. \E x \in S : \A y \in S : x >= y
  <2>1. PICK x \in S : \A y \in S : y <= x
    BY <1>1, <1>2, GreatestOf
  <2>2. \A y \in S : x >= y
    BY <1>1, <2>1
  <2> QED BY <2>2
<1> QED BY <1>1, <1>3, <1>4 DEF Min, Max

\* A piece has room beside the overlap and what joins the two.
LEMMA Sizes ==
  /\ Target \in Nat /\ Overlap \in Nat /\ Piece \in Nat
  /\ Piece >= 1 /\ Piece = Target - Overlap - 2
<1>1. Target \in Nat /\ Overlap \in Nat /\ Overlap + 2 < Target
  BY ChunkingAssumption
<1> DEFINE room == Target - Overlap - 2
<1>2. room \in Nat /\ room >= 1
  BY <1>1
<1> HIDE DEF room
<1>3. {1, room} \subseteq 1..room /\ {1, room} # {}
  BY <1>2
<1>4. Max({1, room}) \in {1, room} /\ \A x \in {1, room} : x <= Max({1, room})
  BY <1>2, <1>3, EndsOf
<1>5. Max({1, room}) = room
  BY <1>2, <1>4
<1>6. Piece = Max({1, room})
  BY DEF Piece, room
<1> QED BY <1>1, <1>2, <1>5, <1>6 DEF room

\* What is of one author: the characters of a text, each under its path.
Spoken == Seq(Texts) \X Characters

\* The text's characters one by one, those that are white as nothing.
Letters(path, s) == [i \in DOMAIN s |-> IF White(s[i]) THEN <<>> ELSE << <<path, s[i]>> >>]

\* Each character says itself, or nothing.
LEMMA LettersAre ==
  ASSUME NEW path \in Seq(Texts), NEW s \in Texts
  PROVE  /\ Letters(path, s) \in Seq(Seq(Spoken)) /\ Len(Letters(path, s)) = Len(s)
         /\ \A i \in 1..Len(s) :
              Letters(path, s)[i] = IF White(s[i]) THEN <<>> ELSE << <<path, s[i]>> >>
<1>1. Len(s) \in Nat /\ DOMAIN s = 1..Len(s) /\ \A i \in 1..Len(s) : s[i] \in Characters
  BY LenProperties, ElementOfSeq DEF Texts
<1>2. ASSUME NEW i \in 1..Len(s)
      PROVE  (IF White(s[i]) THEN <<>> ELSE << <<path, s[i]>> >>) \in Seq(Spoken)
  <2>1. <<path, s[i]>> \in Spoken
    BY <1>1 DEF Spoken
  <2>2. << <<path, s[i]>> >> \in Seq(Spoken) /\ <<>> \in Seq(Spoken)
    BY <2>1, EmptySeq
  <2> QED BY <2>2
<1>3. Letters(path, s) \in [1..Len(s) -> Seq(Spoken)]
  BY <1>1, <1>2 DEF Letters
<1>4. Letters(path, s) \in Seq(Seq(Spoken)) /\ Len(Letters(path, s)) = Len(s)
  BY <1>1, <1>3, IsSequence
<1> QED BY <1>1, <1>4 DEF Letters

\* The letters of two texts are those of the one, then those of the other.
LEMMA LettersConcat ==
  ASSUME NEW path \in Seq(Texts), NEW s \in Texts, NEW t \in Texts
  PROVE  Letters(path, s \o t) = Letters(path, s) \o Letters(path, t)
<1> DEFINE a == Letters(path, s)
           b == Letters(path, t)
           c == Letters(path, s \o t)
<1>1. /\ s \o t \in Texts /\ Len(s \o t) = Len(s) + Len(t)
      /\ \A i \in 1..Len(s) + Len(t) :
           (s \o t)[i] = IF i <= Len(s) THEN s[i] ELSE t[i - Len(s)]
      /\ Len(s) \in Nat /\ Len(t) \in Nat
  BY ConcatProperties, LenProperties DEF Texts
<1>2. /\ a \in Seq(Seq(Spoken)) /\ Len(a) = Len(s)
      /\ \A i \in 1..Len(s) : a[i] = IF White(s[i]) THEN <<>> ELSE << <<path, s[i]>> >>
  BY LettersAre
<1>3. /\ b \in Seq(Seq(Spoken)) /\ Len(b) = Len(t)
      /\ \A i \in 1..Len(t) : b[i] = IF White(t[i]) THEN <<>> ELSE << <<path, t[i]>> >>
  BY LettersAre
<1>4. /\ c \in Seq(Seq(Spoken)) /\ Len(c) = Len(s) + Len(t)
      /\ \A i \in 1..Len(s) + Len(t) :
           c[i] = IF White((s \o t)[i]) THEN <<>> ELSE << <<path, (s \o t)[i]>> >>
  BY <1>1, LettersAre
<1> HIDE DEF a, b, c
<1>5. /\ a \o b \in Seq(Seq(Spoken)) /\ Len(a \o b) = Len(s) + Len(t)
      /\ \A i \in 1..Len(s) + Len(t) :
           (a \o b)[i] = IF i <= Len(s) THEN a[i] ELSE b[i - Len(s)]
  <2>1. PICK X : X = Seq(Spoken)
    OBVIOUS
  <2>2. a \in Seq(X) /\ b \in Seq(X) /\ Len(a) = Len(s) /\ Len(b) = Len(t)
    BY <1>2, <1>3, <2>1
  <2>3. /\ a \o b \in Seq(X) /\ Len(a \o b) = Len(a) + Len(b)
        /\ \A i \in 1..Len(a) + Len(b) :
             (a \o b)[i] = IF i <= Len(a) THEN a[i] ELSE b[i - Len(a)]
    BY <2>2, ConcatProperties
  <2> QED BY <2>1, <2>2, <2>3
<1>6. ASSUME NEW i \in 1..Len(s) + Len(t) PROVE c[i] = (a \o b)[i]
  <2>1. CASE i <= Len(s)
    <3>1. i \in 1..Len(s) /\ (s \o t)[i] = s[i]
      BY <1>1, <2>1
    <3> QED BY <1>2, <1>4, <1>5, <2>1, <3>1
  <2>2. CASE ~(i <= Len(s))
    <3>1. i - Len(s) \in 1..Len(t) /\ (s \o t)[i] = t[i - Len(s)]
      BY <1>1, <2>2
    <3> QED BY <1>3, <1>4, <1>5, <2>2, <3>1
  <2> QED BY <2>1, <2>2
<1>7. c = a \o b
  BY <1>4, <1>5, <1>6, SeqEqual
<1> QED BY <1>7 DEF a, b, c

\* What a text says, part after part.
LEMMA SaidIs ==
  ASSUME NEW path \in Seq(Texts)
  PROVE  /\ Said(path, <<>>) = <<>>
         /\ \A s \in Texts : Said(path, s) \in Seq(Spoken)
         /\ \A s, t \in Texts : Said(path, s \o t) = Said(path, s) \o Said(path, t)
<1>0. \A s : Said(path, s) = FlattenSeq(Letters(path, s))
  BY DEF Said, Letters
<1>1. Said(path, <<>>) = <<>>
  <2>1. Letters(path, <<>>) = <<>>
    BY DEF Letters
  <2>2. FlattenSeq(<<>>) = <<>>
    BY Flattened
  <2> QED BY <1>0, <2>1, <2>2
<1>2. ASSUME NEW s \in Texts PROVE Said(path, s) \in Seq(Spoken)
  BY <1>0, LettersAre, Flattened
<1>3. ASSUME NEW s \in Texts, NEW t \in Texts
      PROVE  Said(path, s \o t) = Said(path, s) \o Said(path, t)
  <2>1. Letters(path, s) \in Seq(Seq(Spoken)) /\ Letters(path, t) \in Seq(Seq(Spoken))
    BY LettersAre
  <2>2. FlattenSeq(Letters(path, s) \o Letters(path, t))
          = FlattenSeq(Letters(path, s)) \o FlattenSeq(Letters(path, t))
    BY <2>1, FlattenConcat
  <2>3. Letters(path, s \o t) = Letters(path, s) \o Letters(path, t)
    BY LettersConcat
  <2>4. /\ Said(path, s) = FlattenSeq(Letters(path, s))
        /\ Said(path, t) = FlattenSeq(Letters(path, t))
        /\ Said(path, s \o t) = FlattenSeq(Letters(path, s \o t))
    BY <1>0, Zenon
  <2> QED BY <2>2, <2>3, <2>4, Zenon
<1> QED BY <1>1, <1>2, <1>3

\* What one character says.
LEMMA SaidOne ==
  ASSUME NEW path \in Seq(Texts), NEW c \in Characters
  PROVE  Said(path, <<c>>) = IF White(c) THEN <<>> ELSE << <<path, c>> >>
<1> DEFINE one == IF White(c) THEN <<>> ELSE << <<path, c>> >>
<1>1. Letters(path, <<c>>) = <<one>>
  BY DEF Letters
<1>2. <<c>> \in Texts
  BY DEF Texts
<1>3. Len(<<c>>) = 1 /\ <<c>>[1] = c
  OBVIOUS
<1>4. one \in Seq(Spoken)
  <2>1. <<path, c>> \in Spoken
    BY DEF Spoken
  <2> QED BY <2>1, EmptySeq
<1> HIDE DEF one
<1>5. FlattenSeq(<<one>>) = one
  BY <1>4, FlattenOne
<1>6. Said(path, <<c>>) = one
  BY <1>1, <1>5 DEF Said, Letters
<1> QED BY <1>6 DEF one

\* A text says nothing when all of it is white, and only then.
LEMMA SaidNothing ==
  ASSUME NEW path \in Seq(Texts), NEW s \in Texts
  PROVE  Said(path, s) = <<>> <=> Visible(s) = {}
<1> DEFINE T == {t \in Texts : Said(path, t) = <<>> <=> Visible(t) = {}}
<1>1. <<>> \in T
  <2>1. <<>> \in Texts /\ Said(path, <<>>) = <<>>
    BY EmptySeq, SaidIs DEF Texts
  <2>2. Visible(<<>>) = {}
    BY DEF Visible
  <2> QED BY <2>1, <2>2, Zenon
<1>2. ASSUME NEW t \in Seq(Characters), NEW c \in Characters, t \in T
      PROVE  Append(t, c) \in T
  <2>1. t \in Texts /\ (Said(path, t) = <<>> <=> Visible(t) = {})
    BY <1>2 DEF Texts
  <2>2. /\ Append(t, c) \in Texts /\ Append(t, c) = t \o <<c>> /\ <<c>> \in Texts
        /\ Len(Append(t, c)) = Len(t) + 1 /\ Len(t) \in Nat
        /\ \A i \in 1..Len(t) : Append(t, c)[i] = t[i]
        /\ Append(t, c)[Len(t) + 1] = c
        /\ DOMAIN t = 1..Len(t) /\ DOMAIN Append(t, c) = 1..Len(t) + 1
    BY AppendProperties, AppendIsConcat, LenProperties DEF Texts
  <2>3. Said(path, Append(t, c)) = Said(path, t) \o Said(path, <<c>>)
    BY <2>1, <2>2, SaidIs
  <2>4. Said(path, t) \in Seq(Spoken) /\ Said(path, <<c>>) \in Seq(Spoken)
    BY <2>1, <2>2, SaidIs
  <2>5. Said(path, Append(t, c)) = <<>> <=> Said(path, t) = <<>> /\ Said(path, <<c>>) = <<>>
    BY <2>3, <2>4, ConcatEqualIffEmpty
  <2>6. Said(path, <<c>>) = <<>> <=> White(c)
    <3>1. << <<path, c>> >> # <<>>
      OBVIOUS
    <3> QED BY <3>1, SaidOne
  <2>7. Visible(Append(t, c)) = {} <=> Visible(t) = {} /\ White(c)
    <3>1. Visible(Append(t, c)) = {} <=> \A i \in 1..Len(t) + 1 : White(Append(t, c)[i])
      BY <2>2 DEF Visible
    <3>2. Visible(t) = {} <=> \A i \in 1..Len(t) : White(t[i])
      BY <2>2 DEF Visible
    <3>3. (\A i \in 1..Len(t) + 1 : White(Append(t, c)[i]))
            <=> (\A i \in 1..Len(t) : White(t[i])) /\ White(c)
      <4>1. \A i \in 1..Len(t) + 1 : i \in 1..Len(t) \/ i = Len(t) + 1
        BY <2>2
      <4>2. Len(t) + 1 \in 1..Len(t) + 1 /\ \A i \in 1..Len(t) : i \in 1..Len(t) + 1
        BY <2>2
      <4> QED BY <2>2, <4>1, <4>2
    <3> QED BY <3>1, <3>2, <3>3
  <2>8. Said(path, Append(t, c)) = <<>> <=> Visible(Append(t, c)) = {}
    BY <2>1, <2>5, <2>6, <2>7
  <2> QED BY <2>2, <2>8, Zenon
<1>3. Seq(Characters) \subseteq T
  <2> HIDE DEF T
  <2> QED BY <1>1, <1>2, OnSequences
<1> QED BY <1>3 DEF Texts

\* A sequence in two parts.
LEMMA InTwo ==
  ASSUME NEW E, NEW s \in Seq(E), NEW k \in 0..Len(s)
  PROVE  /\ SubSeq(s, 1, k) \in Seq(E) /\ Len(SubSeq(s, 1, k)) = k
         /\ From(s, k + 1) \in Seq(E) /\ Len(From(s, k + 1)) = Len(s) - k
         /\ s = SubSeq(s, 1, k) \o From(s, k + 1)
         /\ \A i \in 1..k : SubSeq(s, 1, k)[i] = s[i]
         /\ \A i \in 1..Len(s) - k : From(s, k + 1)[i] = s[k + i]
<1>0. Len(s) \in Nat /\ k \in Nat /\ k <= Len(s) /\ \A i \in 1..Len(s) : s[i] \in E
  BY LenProperties, ElementOfSeq
<1>1. /\ SubSeq(s, 1, k) \in Seq(E) /\ Len(SubSeq(s, 1, k)) = k
      /\ \A i \in 1..k : SubSeq(s, 1, k)[i] = s[i]
  <2>1. \A i \in 1..k : s[i] \in E
    BY <1>0
  <2>2. /\ SubSeq(s, 1, k) \in Seq(E)
        /\ Len(SubSeq(s, 1, k)) = IF 1 <= k THEN k - 1 + 1 ELSE 0
        /\ \A i \in 1..k - 1 + 1 : SubSeq(s, 1, k)[i] = s[1 + i - 1]
    BY <1>0, <2>1, SubSeqProperties
  <2>3. \A i \in 1..k : i \in 1..k - 1 + 1 /\ 1 + i - 1 = i
    BY <1>0
  <2> QED BY <1>0, <2>2, <2>3
<1>2. /\ From(s, k + 1) \in Seq(E) /\ Len(From(s, k + 1)) = Len(s) - k
      /\ \A i \in 1..Len(s) - k : From(s, k + 1)[i] = s[k + i]
  <2>1. \A i \in k + 1..Len(s) : s[i] \in E
    BY <1>0
  <2>2. /\ SubSeq(s, k + 1, Len(s)) \in Seq(E)
        /\ Len(SubSeq(s, k + 1, Len(s)))
             = IF k + 1 <= Len(s) THEN Len(s) - (k + 1) + 1 ELSE 0
        /\ \A i \in 1..Len(s) - (k + 1) + 1 : SubSeq(s, k + 1, Len(s))[i] = s[k + 1 + i - 1]
    BY <1>0, <2>1, SubSeqProperties
  <2>3. \A i \in 1..Len(s) - k : i \in 1..Len(s) - (k + 1) + 1 /\ k + 1 + i - 1 = k + i
    BY <1>0
  <2>4. Len(SubSeq(s, k + 1, Len(s))) = Len(s) - k
    BY <1>0, <2>2
  <2> QED BY <2>2, <2>3, <2>4 DEF From
<1>3. s = SubSeq(s, 1, k) \o From(s, k + 1)
  <2>1. SubSeq(s, 1, k) \o SubSeq(s, k + 1, Len(s)) = SubSeq(s, 1, Len(s))
    <3>1. 1 \in 1..Len(s) + 1 /\ k \in 1 - 1..Len(s) /\ Len(s) \in k..Len(s)
      BY <1>0
    <3> QED BY <3>1, ConcatAdjacentSubSeq
  <2>2. SubSeq(s, 1, Len(s)) = s
    BY SubSeqFull
  <2> QED BY <2>1, <2>2 DEF From
<1> QED BY <1>1, <1>2, <1>3

\* What a loop has come to after n elements.
After(step, start, s, n) == TakenIn(step, start, SubSeq(s, 1, n))

\* A sequence with its next element.
LEMMA OneLonger ==
  ASSUME NEW E, NEW s \in Seq(E), NEW n \in 1..Len(s)
  PROVE  /\ SubSeq(s, 1, n - 1) \in Seq(E) /\ s[n] \in E
         /\ SubSeq(s, 1, n) = Append(SubSeq(s, 1, n - 1), s[n])
<1>1. Len(s) \in Nat
  BY LenProperties
<1>2. n - 1 \in 0..Len(s) /\ n \in 0..Len(s) /\ 1 \in 1..Len(s)
  BY <1>1
<1>3. PICK front \in Seq(E), e \in E : front = SubSeq(s, 1, n - 1) /\ e = s[n]
  BY <1>2, InTwo, ElementOfSeq
<1>4. SubSeq(s, 1, n) = front \o <<e>>
  BY <1>2, <1>3, SubSeqRecursiveSecond
<1>5. Append(front, e) = front \o <<e>>
  BY AppendIsConcat
<1> QED BY <1>3, <1>4, <1>5

\* A loop, element by element.
LEMMA AfterIs ==
  ASSUME NEW X, NEW E, NEW start \in X, NEW step \in Steps(X, E), NEW s \in Seq(E)
  PROVE  /\ After(step, start, s, 0) = start
         /\ \A n \in 0..Len(s) : After(step, start, s, n) \in X
         /\ \A n \in 1..Len(s) :
              After(step, start, s, n) = step[<<After(step, start, s, n - 1), s[n]>>]
         /\ After(step, start, s, Len(s)) = TakenIn(step, start, s)
<1>1. SubSeq(s, 1, 0) = <<>> /\ SubSeq(s, 1, Len(s)) = s
  <2>1. SubSeq(s, 1, 0) = <<>>
    BY SubSeqEmpty
  <2> QED BY <2>1, SubSeqFull
<1>2. TakenIn(step, start, <<>>) = start
  BY TakenInSteps
<1>3. ASSUME NEW n \in 0..Len(s) PROVE After(step, start, s, n) \in X
  <2>1. SubSeq(s, 1, n) \in Seq(E)
    BY InTwo
  <2> QED BY <2>1, TakenInSteps DEF After
<1>4. ASSUME NEW n \in 1..Len(s)
      PROVE  After(step, start, s, n) = step[<<After(step, start, s, n - 1), s[n]>>]
  <2>1. PICK front \in Seq(E), e \in E :
          front = SubSeq(s, 1, n - 1) /\ e = s[n] /\ SubSeq(s, 1, n) = Append(front, e)
    BY OneLonger
  <2>2. TakenIn(step, start, Append(front, e)) = step[<<TakenIn(step, start, front), e>>]
    BY TakenInSteps
  <2> QED BY <2>1, <2>2, Zenon DEF After
<1> QED BY <1>1, <1>2, <1>3, <1>4, Zenon DEF After

\* What sequences come to, laid end to end, one of them more.
LEMMA FlattenOneMore ==
  ASSUME NEW E, NEW each \in Seq(Seq(E)), NEW n \in 1..Len(each)
  PROVE  FlattenSeq(SubSeq(each, 1, n)) = FlattenSeq(SubSeq(each, 1, n - 1)) \o each[n]
<1>1. PICK C : C = Seq(E) /\ each \in Seq(C)
  OBVIOUS
<1>2. PICK front \in Seq(C), s \in C :
        front = SubSeq(each, 1, n - 1) /\ s = each[n] /\ SubSeq(each, 1, n) = Append(front, s)
  BY <1>1, OneLonger
<1>3. FlattenSeq(Append(front, s)) = FlattenSeq(front) \o s
  BY <1>1, Flattened
<1> QED BY <1>2, <1>3, Zenon

\* A text says what its two parts say.
LEMMA SaidInTwo ==
  ASSUME NEW path \in Seq(Texts), NEW s \in Texts, NEW k \in 0..Len(s)
  PROVE  Said(path, s) = Said(path, SubSeq(s, 1, k)) \o Said(path, From(s, k + 1))
<1>1. /\ SubSeq(s, 1, k) \in Texts /\ From(s, k + 1) \in Texts
      /\ s = SubSeq(s, 1, k) \o From(s, k + 1)
  BY InTwo DEF Texts
<1>2. Said(path, SubSeq(s, 1, k) \o From(s, k + 1))
        = Said(path, SubSeq(s, 1, k)) \o Said(path, From(s, k + 1))
  BY <1>1, SaidIs
<1> QED BY <1>1, <1>2

\* White at an end of a text says nothing.
LEMMA WithoutItsEnd ==
  ASSUME NEW path \in Seq(Texts), NEW s \in Texts, NEW k \in 0..Len(s),
         \A i \in k + 1..Len(s) : White(s[i])
  PROVE  Said(path, SubSeq(s, 1, k)) = Said(path, s)
<1> DEFINE a == SubSeq(s, 1, k)
           b == From(s, k + 1)
<1>1. /\ a \in Texts /\ b \in Texts /\ Len(b) = Len(s) - k
      /\ \A i \in 1..Len(s) - k : b[i] = s[k + i]
  BY InTwo DEF Texts
<1>2. Visible(b) = {}
  <2>1. DOMAIN b = 1..Len(b)
    BY <1>1, LenProperties DEF Texts
  <2>2. Len(s) \in Nat /\ k \in Nat
    BY LenProperties DEF Texts
  <2>3. \A i \in 1..Len(s) - k : White(b[i])
    BY <1>1, <2>2
  <2> HIDE DEF b
  <2> QED BY <1>1, <2>1, <2>3 DEF Visible
<1>3. Said(path, b) = <<>> /\ Said(path, a) \in Seq(Spoken)
  BY <1>1, <1>2, SaidNothing, SaidIs
<1>4. Said(path, s) = Said(path, a) \o Said(path, b)
  BY SaidInTwo
<1>5. Said(path, a) \o <<>> = Said(path, a)
  BY <1>3, ConcatEmptySeq
<1> QED BY <1>3, <1>4, <1>5

\* White space at the beginning says nothing.
LEMMA WithoutItsBeginning ==
  ASSUME NEW path \in Seq(Texts), NEW s \in Texts, NEW k \in 0..Len(s),
         \A i \in 1..k : White(s[i])
  PROVE  Said(path, From(s, k + 1)) = Said(path, s)
<1> DEFINE a == SubSeq(s, 1, k)
           b == From(s, k + 1)
<1>1. /\ a \in Texts /\ b \in Texts /\ Len(a) = k
      /\ \A i \in 1..k : a[i] = s[i]
  BY InTwo DEF Texts
<1>2. Visible(a) = {}
  <2>1. DOMAIN a = 1..Len(a)
    BY <1>1, LenProperties DEF Texts
  <2> HIDE DEF a
  <2> QED BY <1>1, <2>1 DEF Visible
<1>3. Said(path, a) = <<>> /\ Said(path, b) \in Seq(Spoken)
  BY <1>1, <1>2, SaidNothing, SaidIs
<1>4. Said(path, s) = Said(path, a) \o Said(path, b)
  BY SaidInTwo
<1>5. <<>> \o Said(path, b) = Said(path, b)
  BY <1>3, ConcatEmptySeq
<1> QED BY <1>3, <1>4, <1>5

\* The places of the characters that are not white.
LEMMA VisibleIs ==
  ASSUME NEW s \in Texts
  PROVE  /\ Len(s) \in Nat /\ DOMAIN s = 1..Len(s) /\ Visible(s) \subseteq 1..Len(s)
         /\ \A i \in 1..Len(s) : i \in Visible(s) <=> ~White(s[i])
<1>1. Len(s) \in Nat /\ DOMAIN s = 1..Len(s)
  BY LenProperties DEF Texts
<1> QED BY <1>1 DEF Visible

\* The empty text says as much as one that is white.
LEMMA EmptySays ==
  ASSUME NEW path \in Seq(Texts), NEW s \in Texts, Visible(s) = {}
  PROVE  <<>> \in Texts /\ Len(<<>>) = 0 /\ Said(path, <<>>) = Said(path, s)
<1>1. <<>> \in Texts /\ Len(<<>>) = 0
  BY EmptySeq DEF Texts
<1> QED BY <1>1, SaidNothing, SaidIs

\* rstrip() takes nothing that is said.
LEMMA RStripKeeps ==
  ASSUME NEW path \in Seq(Texts), NEW s \in Texts
  PROVE  /\ RStrip(s) \in Texts /\ Len(RStrip(s)) <= Len(s)
         /\ Said(path, RStrip(s)) = Said(path, s)
<1>0. /\ Len(s) \in Nat /\ Visible(s) \subseteq 1..Len(s)
      /\ \A i \in 1..Len(s) : i \in Visible(s) <=> ~White(s[i])
  BY VisibleIs
<1>1. CASE Visible(s) = {}
  <2>1. RStrip(s) = <<>>
    BY <1>1 DEF RStrip
  <2> QED BY <1>0, <1>1, <2>1, EmptySays
<1>2. CASE Visible(s) # {}
  <2> DEFINE k == Max(Visible(s))
  <2>1. k \in Visible(s) /\ \A i \in Visible(s) : i <= k
    BY <1>0, <1>2, EndsOf
  <2> HIDE DEF k
  <2>2. k \in 0..Len(s) /\ \A i \in k + 1..Len(s) : White(s[i])
    BY <1>0, <2>1
  <2>3. RStrip(s) = SubSeq(s, 1, k)
    BY <1>2 DEF RStrip, k
  <2>4. SubSeq(s, 1, k) \in Texts /\ Len(SubSeq(s, 1, k)) = k
    BY <2>2, InTwo DEF Texts
  <2>5. Said(path, SubSeq(s, 1, k)) = Said(path, s)
    BY <2>2, WithoutItsEnd
  <2> QED BY <2>2, <2>3, <2>4, <2>5
<1> QED BY <1>1, <1>2

\* Nor does lstrip().
LEMMA LStripKeeps ==
  ASSUME NEW path \in Seq(Texts), NEW s \in Texts
  PROVE  /\ LStrip(s) \in Texts /\ Len(LStrip(s)) <= Len(s)
         /\ Said(path, LStrip(s)) = Said(path, s)
<1>0. /\ Len(s) \in Nat /\ Visible(s) \subseteq 1..Len(s)
      /\ \A i \in 1..Len(s) : i \in Visible(s) <=> ~White(s[i])
  BY VisibleIs
<1>1. CASE Visible(s) = {}
  <2>1. LStrip(s) = <<>>
    BY <1>1 DEF LStrip
  <2> QED BY <1>0, <1>1, <2>1, EmptySays
<1>2. CASE Visible(s) # {}
  <2> DEFINE k == Min(Visible(s)) - 1
  <2>1. Min(Visible(s)) \in Visible(s) /\ \A i \in Visible(s) : Min(Visible(s)) <= i
    BY <1>0, <1>2, EndsOf
  <2>2. k \in 0..Len(s) /\ k + 1 = Min(Visible(s)) /\ \A i \in 1..k : i \notin Visible(s)
    BY <1>0, <2>1
  <2> HIDE DEF k
  <2>3. \A i \in 1..k : White(s[i])
    BY <1>0, <2>2
  <2>4. LStrip(s) = From(s, k + 1)
    BY <1>2, <2>2 DEF LStrip
  <2>5. From(s, k + 1) \in Texts /\ Len(From(s, k + 1)) = Len(s) - k
    BY <2>2, InTwo DEF Texts
  <2>6. Said(path, From(s, k + 1)) = Said(path, s)
    BY <2>2, <2>3, WithoutItsBeginning
  <2> QED BY <1>0, <2>2, <2>4, <2>5, <2>6
<1> QED BY <1>1, <1>2

\* Nor does keeping the places from the first to the last of a set with all that is visible.
LEMMA TrimmedKeeps ==
  ASSUME NEW path \in Seq(Texts), NEW s \in Texts, NEW kept, kept \subseteq 1..Len(s),
         Visible(s) \subseteq kept
  PROVE  /\ Trimmed(s, kept) \in Texts /\ Len(Trimmed(s, kept)) <= Len(s)
         /\ Said(path, Trimmed(s, kept)) = Said(path, s)
<1>0. /\ Len(s) \in Nat /\ \A i \in 1..Len(s) : i \in Visible(s) <=> ~White(s[i])
  BY VisibleIs
<1>1. CASE kept = {}
  <2>1. Trimmed(s, kept) = <<>> /\ Visible(s) = {}
    BY <1>1 DEF Trimmed
  <2> QED BY <1>0, <2>1, EmptySays
<1>2. CASE kept # {}
  <2> DEFINE a == Min(kept)
             b == Max(kept)
             t == SubSeq(s, 1, b)
  <2>1. a \in kept /\ b \in kept /\ \A i \in kept : a <= i /\ i <= b
    BY <1>0, <1>2, EndsOf
  <2>2. Trimmed(s, kept) = SubSeq(s, a, b)
    BY <1>2 DEF Trimmed
  <2> HIDE DEF a, b
  <2>3. a \in 1..Len(s) /\ b \in 1..Len(s) /\ a <= b
    BY <2>1
  <2>4. \A i \in 1..Len(s) : i < a \/ i > b => White(s[i])
    BY <1>0, <2>1, <2>3
  <2>5. t \in Texts /\ Len(t) = b /\ \A i \in 1..b : t[i] = s[i]
    BY <2>3, InTwo DEF Texts
  <2>6. Said(path, t) = Said(path, s)
    <3>1. b \in 0..Len(s) /\ \A i \in b + 1..Len(s) : White(s[i])
      BY <1>0, <2>3, <2>4
    <3> QED BY <3>1, WithoutItsEnd
  <2>7. SubSeq(s, a, b) = From(t, a)
    <3>1. 1 \in 1..Len(s) /\ a \in 1..b - 1 + 1 /\ b \in 1..b - 1 + 1
      BY <1>0, <2>3
    <3>2. SubSeq(SubSeq(s, 1, b), a, b) = SubSeq(s, 1 + a - 1, 1 + b - 1)
      BY <2>3, <3>1, SubSeqOfSubSeq DEF Texts
    <3>3. 1 + a - 1 = a /\ 1 + b - 1 = b
      BY <2>3
    <3>4. SubSeq(SubSeq(s, 1, b), a, b) = SubSeq(s, a, b)
      BY <3>2, <3>3
    <3> QED BY <2>5, <3>4 DEF From
  <2> HIDE DEF t
  <2>8. a - 1 \in 0..Len(t) /\ a - 1 + 1 = a
    BY <2>3, <2>5
  <2>9. From(t, a) \in Texts /\ Len(From(t, a)) = Len(t) - (a - 1)
    <3>1. From(t, a - 1 + 1) \in Texts /\ Len(From(t, a - 1 + 1)) = Len(t) - (a - 1)
      BY <2>5, <2>8, InTwo DEF Texts
    <3> QED BY <2>8, <3>1
  <2>10. Said(path, From(t, a)) = Said(path, t)
    <3>1. \A i \in 1..a - 1 : White(t[i])
      BY <1>0, <2>3, <2>4, <2>5
    <3>2. Said(path, From(t, a - 1 + 1)) = Said(path, t)
      BY <2>5, <2>8, <3>1, WithoutItsBeginning
    <3> QED BY <2>8, <3>2
  <2> QED BY <2>2, <2>3, <2>5, <2>6, <2>7, <2>9, <2>10
<1> QED BY <1>1, <1>2

\* Nor does strip().
LEMMA StripKeeps ==
  ASSUME NEW path \in Seq(Texts), NEW s \in Texts
  PROVE  /\ Strip(s) \in Texts /\ Len(Strip(s)) <= Len(s)
         /\ Said(path, Strip(s)) = Said(path, s)
<1>1. Visible(s) \subseteq 1..Len(s)
  BY VisibleIs
<1> QED BY <1>1, TrimmedKeeps DEF Strip

\* The functions from A to B.
Maps(A, B) == [A -> B]

\* F of each element.
Mapped(F, s) == [i \in DOMAIN s |-> F[s[i]]]

\* F of the elements of a sequence, of one more, of two sequences.
LEMMA MappedIs ==
  ASSUME NEW A, NEW B, NEW F \in Maps(A, B)
  PROVE  /\ Mapped(F, <<>>) = <<>>
         /\ \A s \in Seq(A) :
              /\ Mapped(F, s) \in Seq(B) /\ Len(Mapped(F, s)) = Len(s)
              /\ \A i \in 1..Len(s) : Mapped(F, s)[i] = F[s[i]]
         /\ \A s \in Seq(A), a \in A : Mapped(F, Append(s, a)) = Append(Mapped(F, s), F[a])
         /\ \A s, t \in Seq(A) : Mapped(F, s \o t) = Mapped(F, s) \o Mapped(F, t)
<1>1. Mapped(F, <<>>) = <<>>
  BY DEF Mapped
<1>2. ASSUME NEW s \in Seq(A)
      PROVE  /\ Mapped(F, s) \in Seq(B) /\ Len(Mapped(F, s)) = Len(s)
             /\ \A i \in 1..Len(s) : Mapped(F, s)[i] = F[s[i]]
  <2>1. Len(s) \in Nat /\ DOMAIN s = 1..Len(s) /\ \A i \in 1..Len(s) : s[i] \in A
    BY LenProperties, ElementOfSeq
  <2>2. Mapped(F, s) \in [1..Len(s) -> B] /\ \A i \in 1..Len(s) : Mapped(F, s)[i] = F[s[i]]
    BY <2>1 DEF Mapped, Maps
  <2> QED BY <2>1, <2>2, IsSequence
<1>3. ASSUME NEW s \in Seq(A), NEW t \in Seq(A)
      PROVE  Mapped(F, s \o t) = Mapped(F, s) \o Mapped(F, t)
  <2> DEFINE a == Mapped(F, s)
             b == Mapped(F, t)
             c == Mapped(F, s \o t)
  <2>1. /\ s \o t \in Seq(A) /\ Len(s \o t) = Len(s) + Len(t)
        /\ \A i \in 1..Len(s) + Len(t) :
             (s \o t)[i] = IF i <= Len(s) THEN s[i] ELSE t[i - Len(s)]
        /\ Len(s) \in Nat /\ Len(t) \in Nat
    BY ConcatProperties, LenProperties
  <2>2. /\ a \in Seq(B) /\ Len(a) = Len(s) /\ \A i \in 1..Len(s) : a[i] = F[s[i]]
        /\ b \in Seq(B) /\ Len(b) = Len(t) /\ \A i \in 1..Len(t) : b[i] = F[t[i]]
    BY <1>2
  <2>3. /\ c \in Seq(B) /\ Len(c) = Len(s) + Len(t)
        /\ \A i \in 1..Len(s) + Len(t) : c[i] = F[(s \o t)[i]]
    BY <1>2, <2>1
  <2> HIDE DEF a, b, c
  <2>4. /\ a \o b \in Seq(B) /\ Len(a \o b) = Len(s) + Len(t)
        /\ \A i \in 1..Len(s) + Len(t) :
             (a \o b)[i] = IF i <= Len(s) THEN a[i] ELSE b[i - Len(s)]
    <3>1. /\ a \o b \in Seq(B) /\ Len(a \o b) = Len(a) + Len(b)
          /\ \A i \in 1..Len(a) + Len(b) :
               (a \o b)[i] = IF i <= Len(a) THEN a[i] ELSE b[i - Len(a)]
      BY <2>2, ConcatProperties
    <3> QED BY <2>2, <3>1
  <2>5. ASSUME NEW i \in 1..Len(s) + Len(t) PROVE c[i] = (a \o b)[i]
    <3>1. CASE i <= Len(s)
      <4>1. i \in 1..Len(s) /\ (s \o t)[i] = s[i]
        BY <2>1, <3>1
      <4> QED BY <2>2, <2>3, <2>4, <3>1, <4>1
    <3>2. CASE ~(i <= Len(s))
      <4>1. i - Len(s) \in 1..Len(t) /\ (s \o t)[i] = t[i - Len(s)]
        BY <2>1, <3>2
      <4> QED BY <2>2, <2>3, <2>4, <3>2, <4>1
    <3> QED BY <3>1, <3>2
  <2>6. c = a \o b
    BY <2>3, <2>4, <2>5, SeqEqual
  <2> QED BY <2>6 DEF a, b, c
<1>4. ASSUME NEW s \in Seq(A), NEW a \in A
      PROVE  Mapped(F, Append(s, a)) = Append(Mapped(F, s), F[a])
  <2>1. <<a>> \in Seq(A) /\ Append(s, a) = s \o <<a>>
    BY AppendIsConcat
  <2>2. Mapped(F, <<a>>) = <<F[a]>>
    BY DEF Mapped
  <2>3. Mapped(F, s) \in Seq(B) /\ F[a] \in B
    BY <1>2 DEF Maps
  <2>4. Append(Mapped(F, s), F[a]) = Mapped(F, s) \o <<F[a]>>
    BY <2>3, AppendIsConcat
  <2>5. Mapped(F, s \o <<a>>) = Mapped(F, s) \o Mapped(F, <<a>>)
    BY <1>3, <2>1
  <2> QED BY <2>1, <2>2, <2>4, <2>5
<1> QED BY <1>1, <1>2, <1>3, <1>4

\* What is flattened of what F makes of each element.
LEMMA FlatMapped ==
  ASSUME NEW A, NEW B, NEW F \in Maps(A, Seq(B))
  PROVE  /\ FlattenSeq(Mapped(F, <<>>)) = <<>>
         /\ \A s \in Seq(A) : FlattenSeq(Mapped(F, s)) \in Seq(B)
         /\ \A s \in Seq(A), a \in A :
              FlattenSeq(Mapped(F, Append(s, a))) = FlattenSeq(Mapped(F, s)) \o F[a]
         /\ \A s, t \in Seq(A) :
              FlattenSeq(Mapped(F, s \o t)) = FlattenSeq(Mapped(F, s)) \o FlattenSeq(Mapped(F, t))
         /\ \A a \in A : FlattenSeq(Mapped(F, <<a>>)) = F[a]
<1>0. PICK C : C = Seq(B)
  OBVIOUS
<1>a. F \in Maps(A, C)
  BY <1>0
<1>b. /\ Mapped(F, <<>>) = <<>>
      /\ \A s \in Seq(A) : Mapped(F, s) \in Seq(C)
      /\ \A s \in Seq(A), a \in A : Mapped(F, Append(s, a)) = Append(Mapped(F, s), F[a])
      /\ \A s, t \in Seq(A) : Mapped(F, s \o t) = Mapped(F, s) \o Mapped(F, t)
  BY <1>a, MappedIs
<1>1. Mapped(F, <<>>) = <<>> /\ FlattenSeq(<<>>) = <<>>
  BY <1>b, Flattened
<1>2. \A s \in Seq(A) : Mapped(F, s) \in Seq(Seq(B))
  BY <1>0, <1>b
<1>3. ASSUME NEW s \in Seq(A) PROVE FlattenSeq(Mapped(F, s)) \in Seq(B)
  BY <1>2, Flattened
<1>4. ASSUME NEW s \in Seq(A), NEW a \in A
      PROVE  FlattenSeq(Mapped(F, Append(s, a))) = FlattenSeq(Mapped(F, s)) \o F[a]
  <2>1. Mapped(F, Append(s, a)) = Append(Mapped(F, s), F[a])
    BY <1>b, Zenon
  <2>2. F[a] \in Seq(B)
    BY DEF Maps
  <2>3. FlattenSeq(Append(Mapped(F, s), F[a])) = FlattenSeq(Mapped(F, s)) \o F[a]
    BY <1>2, <2>2, Flattened
  <2> QED BY <2>1, <2>3, Zenon
<1>5. ASSUME NEW s \in Seq(A), NEW t \in Seq(A)
      PROVE  FlattenSeq(Mapped(F, s \o t)) = FlattenSeq(Mapped(F, s)) \o FlattenSeq(Mapped(F, t))
  <2>1. Mapped(F, s \o t) = Mapped(F, s) \o Mapped(F, t)
    BY <1>b, Zenon
  <2>2. FlattenSeq(Mapped(F, s) \o Mapped(F, t))
          = FlattenSeq(Mapped(F, s)) \o FlattenSeq(Mapped(F, t))
    BY <1>2, FlattenConcat
  <2> QED BY <2>1, <2>2, Zenon
<1>6. ASSUME NEW a \in A PROVE FlattenSeq(Mapped(F, <<a>>)) = F[a]
  <2>1. Mapped(F, <<a>>) = <<F[a]>>
    BY DEF Mapped
  <2>2. FlattenSeq(<<F[a]>>) = F[a]
    <3>1. F[a] \in Seq(B)
      BY DEF Maps
    <3> QED BY <3>1, FlattenOne
  <2> QED BY <2>1, <2>2, Zenon
<1>7. FlattenSeq(Mapped(F, <<>>)) = <<>>
  BY <1>1
<1> QED BY <1>3, <1>4, <1>5, <1>6, <1>7, Zenon

\* What several texts say, one after another.
SaidByAll(path, texts) == FlattenSeq(Mapped([t \in Texts |-> Said(path, t)], texts))

\* What texts say is what each of them does, in order.
LEMMA SaidByAllIs ==
  ASSUME NEW path \in Seq(Texts)
  PROVE  /\ SaidByAll(path, <<>>) = <<>>
         /\ \A ts \in Seq(Texts) : SaidByAll(path, ts) \in Seq(Spoken)
         /\ \A ts \in Seq(Texts), t \in Texts :
              SaidByAll(path, Append(ts, t)) = SaidByAll(path, ts) \o Said(path, t)
         /\ \A ts, us \in Seq(Texts) :
              SaidByAll(path, ts \o us) = SaidByAll(path, ts) \o SaidByAll(path, us)
         /\ \A t \in Texts : SaidByAll(path, <<t>>) = Said(path, t)
<1> DEFINE F == [t \in Texts |-> Said(path, t)]
<1>1. F \in Maps(Texts, Seq(Spoken)) /\ \A t \in Texts : F[t] = Said(path, t)
  BY SaidIs DEF Maps
<1>2. \A ts : SaidByAll(path, ts) = FlattenSeq(Mapped(F, ts))
  BY DEF SaidByAll
<1> HIDE DEF F
<1>3. /\ FlattenSeq(Mapped(F, <<>>)) = <<>>
      /\ \A ts \in Seq(Texts) : FlattenSeq(Mapped(F, ts)) \in Seq(Spoken)
      /\ \A ts \in Seq(Texts), t \in Texts :
           FlattenSeq(Mapped(F, Append(ts, t))) = FlattenSeq(Mapped(F, ts)) \o F[t]
      /\ \A ts, us \in Seq(Texts) : FlattenSeq(Mapped(F, ts \o us))
           = FlattenSeq(Mapped(F, ts)) \o FlattenSeq(Mapped(F, us))
      /\ \A t \in Texts : FlattenSeq(Mapped(F, <<t>>)) = F[t]
  BY <1>1, FlatMapped
<1> QED BY <1>1, <1>2, <1>3, Zenon

-----------------------------------------------------------------------------
(* Cutting: the pieces of a paragraph *)

\* None of the texts is longer than n.
NoLonger(texts, n) == \A i \in DOMAIN texts : Len(texts[i]) <= n

\* One text more that is short enough.
LEMMA NoLongerAppend ==
  ASSUME NEW ts \in Seq(Texts), NEW t \in Texts, NEW n \in Nat, NoLonger(ts, n), Len(t) <= n
  PROVE  NoLonger(Append(ts, t), n)
<1>1. /\ Append(ts, t) \in Seq(Texts) /\ Len(Append(ts, t)) = Len(ts) + 1 /\ Len(ts) \in Nat
      /\ \A i \in 1..Len(ts) : Append(ts, t)[i] = ts[i]
      /\ Append(ts, t)[Len(ts) + 1] = t /\ DOMAIN ts = 1..Len(ts)
  BY AppendProperties, LenProperties
<1>2. DOMAIN Append(ts, t) = 1..Len(ts) + 1
  BY <1>1, LenProperties
<1>3. ASSUME NEW i \in 1..Len(ts) + 1 PROVE Len(Append(ts, t)[i]) <= n
  <2>1. CASE i \in 1..Len(ts)
    BY <1>1, <2>1 DEF NoLonger
  <2>2. CASE i = Len(ts) + 1
    BY <1>1, <2>2
  <2> QED BY <1>1, <2>1, <2>2
<1> QED BY <1>2, <1>3 DEF NoLonger

\* The two parts of a text are texts.
LEMMA FromTheNext ==
  ASSUME NEW s \in Texts, NEW k \in 0..Len(s)
  PROVE  /\ SubSeq(s, 1, k) \in Texts /\ Len(SubSeq(s, 1, k)) = k
         /\ From(s, k + 1) \in Texts /\ Len(From(s, k + 1)) = Len(s) - k
BY InTwo DEF Texts

\* A text that is too long is cut before a piece is full.
LEMMA CutNextIs ==
  ASSUME NEW acc \in Cutting, ~(Len(acc.rest) <= Piece)
  PROVE  \E cut \in 1..Piece :
           CutNext(acc) = [pieces |-> Append(acc.pieces, RStrip(SubSeq(acc.rest, 1, cut))),
                           rest   |-> LStrip(From(acc.rest, cut + 1))]
<1> DEFINE marks == {i \in 2..Piece + 1 : White(acc.rest[i])}
           cut == IF marks = {} THEN Piece ELSE Max(marks) - 1
<1>1. Piece \in Nat /\ Piece >= 1
  BY Sizes
<1>2. marks \subseteq 1..Piece + 1 /\ marks \subseteq 2..Piece + 1
  BY <1>1
<1>3. CutNext(acc) = [pieces |-> Append(acc.pieces, RStrip(SubSeq(acc.rest, 1, cut))),
                      rest   |-> LStrip(From(acc.rest, cut + 1))]
  BY DEF CutNext
<1> HIDE DEF marks
<1>4. cut \in 1..Piece
  <2>1. CASE marks = {}
    BY <1>1, <2>1
  <2>2. CASE marks # {}
    <3>1. Max(marks) \in marks
      <4>1. PICK N \in Nat : N = Piece + 1
        BY <1>1
      <4>2. marks \subseteq 1..N
        BY <1>2, <4>1
      <4> QED BY <2>2, <4>2, EndsOf
    <3>2. Max(marks) \in 2..Piece + 1
      BY <1>2, <3>1
    <3> QED BY <1>1, <2>2, <3>2
  <2> QED BY <2>1, <2>2
<1> HIDE DEF cut
<1> QED BY <1>3, <1>4

\* What has been cut off of s, and what there still is to cut.
CutInv(path, s, acc, n) ==
  /\ acc \in Cutting /\ NoLonger(acc.pieces, Piece)
  /\ SaidByAll(path, acc.pieces) \o Said(path, acc.rest) = Said(path, s)
  /\ Len(acc.rest) <= Piece \/ Len(acc.rest) + n <= Len(s)

\* A cut keeps the invariant of cutting.
LEMMA CutNextKeeps ==
  ASSUME NEW path \in Seq(Texts), NEW s \in Texts, NEW acc, NEW n \in Nat,
         CutInv(path, s, acc, n)
  PROVE  CutInv(path, s, CutNext(acc), n + 1)
<1>1. /\ acc \in Cutting /\ acc.pieces \in Seq(Texts) /\ acc.rest \in Texts
      /\ NoLonger(acc.pieces, Piece)
      /\ SaidByAll(path, acc.pieces) \o Said(path, acc.rest) = Said(path, s)
      /\ Len(acc.rest) <= Piece \/ Len(acc.rest) + n <= Len(s)
  BY DEF CutInv, Cutting
<1>2. Piece \in Nat /\ Piece >= 1 /\ Len(acc.rest) \in Nat /\ Len(s) \in Nat
  BY <1>1, Sizes, LenProperties DEF Texts
<1>3. CASE Len(acc.rest) <= Piece
  <2>1. CutNext(acc) = acc
    BY <1>3 DEF CutNext
  <2> QED BY <1>1, <1>2, <1>3, <2>1 DEF CutInv
<1>4. CASE ~(Len(acc.rest) <= Piece)
  <2>1. PICK cut \in 1..Piece :
          CutNext(acc) = [pieces |-> Append(acc.pieces, RStrip(SubSeq(acc.rest, 1, cut))),
                          rest   |-> LStrip(From(acc.rest, cut + 1))]
    BY <1>1, <1>4, CutNextIs
  <2> DEFINE piece == RStrip(SubSeq(acc.rest, 1, cut))
             rest == LStrip(From(acc.rest, cut + 1))
  <2>2. CutNext(acc) = [pieces |-> Append(acc.pieces, piece), rest |-> rest]
    BY <2>1
  <2>3. cut \in 0..Len(acc.rest)
    BY <1>2, <1>4, <2>1
  <2>4. /\ SubSeq(acc.rest, 1, cut) \in Texts /\ Len(SubSeq(acc.rest, 1, cut)) = cut
        /\ From(acc.rest, cut + 1) \in Texts
        /\ Len(From(acc.rest, cut + 1)) = Len(acc.rest) - cut
    BY <1>1, <2>3, FromTheNext
  <2>5. /\ piece \in Texts /\ Len(piece) <= cut
        /\ Said(path, piece) = Said(path, SubSeq(acc.rest, 1, cut))
    BY <2>4, RStripKeeps
  <2>6. /\ rest \in Texts /\ Len(rest) <= Len(acc.rest) - cut
        /\ Said(path, rest) = Said(path, From(acc.rest, cut + 1))
    BY <2>4, LStripKeeps
  <2>7. Said(path, acc.rest) = Said(path, piece) \o Said(path, rest)
    <3>1. Said(path, acc.rest) = Said(path, SubSeq(acc.rest, 1, cut))
                                   \o Said(path, From(acc.rest, cut + 1))
      BY <1>1, <2>3, SaidInTwo
    <3> QED BY <2>5, <2>6, <3>1
  <2> HIDE DEF piece, rest
  <2>8. SaidByAll(path, Append(acc.pieces, piece)) \o Said(path, rest) = Said(path, s)
    <3>1. SaidByAll(path, Append(acc.pieces, piece))
            = SaidByAll(path, acc.pieces) \o Said(path, piece)
      BY <1>1, <2>5, SaidByAllIs
    <3>2. /\ SaidByAll(path, acc.pieces) \in Seq(Spoken) /\ Said(path, piece) \in Seq(Spoken)
          /\ Said(path, rest) \in Seq(Spoken)
      BY <1>1, <2>5, <2>6, SaidByAllIs, SaidIs
    <3>3. (SaidByAll(path, acc.pieces) \o Said(path, piece)) \o Said(path, rest)
            = SaidByAll(path, acc.pieces) \o (Said(path, piece) \o Said(path, rest))
      BY <3>2, ConcatAssociative
    <3> QED BY <1>1, <2>7, <3>1, <3>3
  <2>9. NoLonger(Append(acc.pieces, piece), Piece)
    <3>1. Len(piece) <= Piece
      <4>1. Len(piece) \in Nat
        BY <2>5, LenProperties DEF Texts
      <4> QED BY <1>2, <2>1, <2>5, <4>1
    <3> QED BY <1>1, <1>2, <2>5, <3>1, NoLongerAppend
  <2>10. Len(rest) + (n + 1) <= Len(s)
    <3>1. Len(rest) \in Nat
      BY <2>6, LenProperties DEF Texts
    <3> QED BY <1>1, <1>2, <1>4, <2>1, <2>6, <3>1
  <2>11. [pieces |-> Append(acc.pieces, piece), rest |-> rest] \in Cutting
    <3>1. Append(acc.pieces, piece) \in Seq(Texts)
      BY <1>1, <2>5, AppendProperties
    <3> QED BY <2>6, <3>1 DEF Cutting
  <2>12. PICK next : next = [pieces |-> Append(acc.pieces, piece), rest |-> rest]
    OBVIOUS
  <2>13. next.pieces = Append(acc.pieces, piece) /\ next.rest = rest
    BY <2>12
  <2>14. CutInv(path, s, next, n + 1)
    BY <2>8, <2>9, <2>10, <2>11, <2>12, <2>13 DEF CutInv
  <2> QED BY <2>2, <2>12, <2>14
<1> QED BY <1>3, <1>4

\* The loop of _split_long.
CutStep == [p \in Cutting \X Nat |-> CutNext(p[1])]

\* A cut is a step of the loop.
LEMMA CutStepIs ==
  /\ CutStep \in Steps(Cutting, Nat)
  /\ \A acc \in Cutting, n \in Nat : CutStep[<<acc, n>>] = CutNext(acc)
<1>1. ASSUME NEW acc \in Cutting PROVE CutNext(acc) \in Cutting
  <2>1. acc.pieces \in Seq(Texts) /\ acc.rest \in Texts /\ <<>> \in Seq(Texts)
    BY EmptySeq DEF Cutting
  <2>2. Piece \in Nat /\ Piece >= 1 /\ Len(acc.rest) \in Nat
    BY <2>1, Sizes, LenProperties DEF Texts
  <2>3. CASE Len(acc.rest) <= Piece
    BY <2>3 DEF CutNext
  <2>4. CASE ~(Len(acc.rest) <= Piece)
    <3>1. PICK cut \in 1..Piece :
            CutNext(acc) = [pieces |-> Append(acc.pieces, RStrip(SubSeq(acc.rest, 1, cut))),
                            rest   |-> LStrip(From(acc.rest, cut + 1))]
      BY <2>4, CutNextIs
    <3>3. cut \in 0..Len(acc.rest)
      BY <2>2, <2>4, <3>1
    <3>4. SubSeq(acc.rest, 1, cut) \in Texts /\ From(acc.rest, cut + 1) \in Texts
      BY <2>1, <3>3, FromTheNext
    <3>5. RStrip(SubSeq(acc.rest, 1, cut)) \in Texts /\ LStrip(From(acc.rest, cut + 1)) \in Texts
      BY <2>1, <3>4, RStripKeeps, LStripKeeps
    <3>6. Append(acc.pieces, RStrip(SubSeq(acc.rest, 1, cut))) \in Seq(Texts)
      BY <2>1, <3>5, AppendProperties
    <3> QED BY <3>1, <3>5, <3>6 DEF Cutting
  <2> QED BY <2>3, <2>4
<1>2. ASSUME NEW p \in Cutting \X Nat PROVE CutNext(p[1]) \in Cutting
  <2>1. p[1] \in Cutting
    OBVIOUS
  <2> QED BY <1>1, <2>1
<1>3. CutStep \in Steps(Cutting, Nat)
  BY <1>2 DEF CutStep, Steps
<1>4. ASSUME NEW acc \in Cutting, NEW n \in Nat PROVE CutStep[<<acc, n>>] = CutNext(acc)
  <2>1. <<acc, n>> \in Cutting \X Nat /\ <<acc, n>>[1] = acc
    OBVIOUS
  <2> QED BY <2>1 DEF CutStep
<1> QED BY <1>3, <1>4

\* A long text is split into pieces that are short enough and say what it says.
LEMMA SplitLongKeeps ==
  ASSUME NEW path \in Seq(Texts), NEW s \in Texts
  PROVE  /\ SplitLong(s) \in Seq(Texts) /\ NoLonger(SplitLong(s), Piece)
         /\ SaidByAll(path, SplitLong(s)) = Said(path, s)
<1> DEFINE start == [pieces |-> <<>>, rest |-> s]
           loop == [n \in DOMAIN s |-> n]
           T == {u \in Seq(Nat) : CutInv(path, s, TakenIn(CutStep, start, u), Len(u))}
<1>0. Len(s) \in Nat /\ DOMAIN s = 1..Len(s)
  BY LenProperties DEF Texts
<1>1. start \in Cutting
  BY EmptySeq DEF Cutting
<1>2. /\ TakenIn(CutStep, start, <<>>) = start
      /\ \A u \in Seq(Nat) : TakenIn(CutStep, start, u) \in Cutting
      /\ \A u \in Seq(Nat), n \in Nat :
           TakenIn(CutStep, start, Append(u, n)) = CutStep[<<TakenIn(CutStep, start, u), n>>]
  <2> HIDE DEF start
  <2> QED BY <1>1, CutStepIs, TakenInSteps
<1>3. <<>> \in T
  <2>1. SaidByAll(path, <<>>) \o Said(path, s) = Said(path, s)
    BY SaidByAllIs, SaidIs, ConcatEmptySeq
  <2>2. CutInv(path, s, start, 0)
    BY <1>0, <1>1, <2>1 DEF CutInv, NoLonger
  <2>3. <<>> \in Seq(Nat) /\ Len(<<>>) = 0
    BY EmptySeq
  <2>4. CutInv(path, s, TakenIn(CutStep, start, <<>>), Len(<<>>))
    <3> HIDE DEF start
    <3> QED BY <1>2, <2>2, <2>3
  <2> QED BY <2>3, <2>4, Zenon
<1>4. ASSUME NEW u \in Seq(Nat), NEW n \in Nat, u \in T PROVE Append(u, n) \in T
  <2> HIDE DEF start
  <2>1. CutInv(path, s, TakenIn(CutStep, start, u), Len(u)) /\ Len(u) \in Nat
    BY <1>4, LenProperties
  <2>2. Append(u, n) \in Seq(Nat) /\ Len(Append(u, n)) = Len(u) + 1
    BY AppendProperties
  <2>3. CutInv(path, s, CutNext(TakenIn(CutStep, start, u)), Len(u) + 1)
    BY <2>1, CutNextKeeps
  <2>4. TakenIn(CutStep, start, Append(u, n)) = CutNext(TakenIn(CutStep, start, u))
    BY <1>2, CutStepIs
  <2>5. CutInv(path, s, TakenIn(CutStep, start, Append(u, n)), Len(Append(u, n)))
    BY <2>2, <2>3, <2>4
  <2> QED BY <2>2, <2>5, Zenon
<1>5. Seq(Nat) \subseteq T
  <2> HIDE DEF T
  <2> QED BY <1>3, <1>4, OnSequences
<1> DEFINE acc == TakenIn(CutStep, start, loop)
<1>6. loop \in Seq(Nat) /\ Len(loop) = Len(s)
  <2>1. loop \in [1..Len(s) -> Nat]
    BY <1>0
  <2> HIDE DEF loop
  <2> QED BY <1>0, <2>1, IsSequence
<1>7. CutInv(path, s, acc, Len(s))
  <2> HIDE DEF loop, start
  <2> QED BY <1>5, <1>6
<1>8. SplitLong(s) = IF acc.rest = <<>> THEN acc.pieces ELSE Append(acc.pieces, acc.rest)
  BY DEF SplitLong, CutStep
<1> HIDE DEF acc
<1>9. /\ acc.pieces \in Seq(Texts) /\ acc.rest \in Texts /\ NoLonger(acc.pieces, Piece)
      /\ SaidByAll(path, acc.pieces) \o Said(path, acc.rest) = Said(path, s)
      /\ Len(acc.rest) <= Piece
  <2>1. /\ acc \in Cutting /\ NoLonger(acc.pieces, Piece)
        /\ SaidByAll(path, acc.pieces) \o Said(path, acc.rest) = Said(path, s)
        /\ Len(acc.rest) <= Piece \/ Len(acc.rest) + Len(s) <= Len(s)
    BY <1>7 DEF CutInv
  <2>2. acc.pieces \in Seq(Texts) /\ acc.rest \in Texts
    BY <2>1 DEF Cutting
  <2>3. Len(acc.rest) \in Nat
    BY <2>2, LenProperties DEF Texts
  <2> QED BY <1>0, <2>1, <2>2, <2>3, Sizes
<1>10. CASE acc.rest = <<>>
  <2>1. Said(path, acc.rest) = <<>> /\ SaidByAll(path, acc.pieces) \in Seq(Spoken)
    BY <1>9, <1>10, SaidIs, SaidByAllIs
  <2>2. SaidByAll(path, acc.pieces) \o <<>> = SaidByAll(path, acc.pieces)
    BY <2>1, ConcatEmptySeq
  <2> QED BY <1>8, <1>9, <1>10, <2>1, <2>2
<1>11. CASE acc.rest # <<>>
  <2>1. SaidByAll(path, Append(acc.pieces, acc.rest))
          = SaidByAll(path, acc.pieces) \o Said(path, acc.rest)
    BY <1>9, SaidByAllIs
  <2>2. NoLonger(Append(acc.pieces, acc.rest), Piece)
    BY <1>9, Sizes, NoLongerAppend
  <2>3. Append(acc.pieces, acc.rest) \in Seq(Texts)
    BY <1>9, AppendProperties
  <2> QED BY <1>8, <1>9, <1>11, <2>1, <2>2, <2>3
<1> QED BY <1>10, <1>11

-----------------------------------------------------------------------------
(* The overlap: what is repeated, and what is taken for it *)

\* The rest of a text is a text.
LEMMA FromIsText ==
  ASSUME NEW s \in Texts, NEW k \in Nat
  PROVE  From(s, k + 1) \in Texts
<1>1. Len(s) \in Nat /\ \A i \in 1..Len(s) : s[i] \in Characters
  BY LenProperties, ElementOfSeq DEF Texts
<1>2. \A i \in k + 1..Len(s) : s[i] \in Characters
  BY <1>1
<1>3. SubSeq(s, k + 1, Len(s)) \in Seq(Characters)
  BY <1>1, <1>2, SubSeqProperties
<1> QED BY <1>3 DEF From, Texts

\* The parts of two sequences in one.
LEMMA InConcat ==
  ASSUME NEW E, NEW s \in Seq(E), NEW t \in Seq(E), NEW k \in 0..Len(s)
  PROVE  /\ SubSeq(s \o t, 1, k) = SubSeq(s, 1, k)
         /\ From(s \o t, k + 1) = From(s, k + 1) \o t
<1>1. /\ s \o t \in Seq(E) /\ Len(s \o t) = Len(s) + Len(t)
      /\ \A i \in 1..Len(s) + Len(t) :
           (s \o t)[i] = IF i <= Len(s) THEN s[i] ELSE t[i - Len(s)]
      /\ Len(s) \in Nat /\ Len(t) \in Nat
  BY ConcatProperties, LenProperties
<1> DEFINE w == s \o t
           a == SubSeq(w, 1, k)
           b == From(w, k + 1)
           c == SubSeq(s, 1, k)
           d == From(s, k + 1)
<1>2. k \in Nat /\ k <= Len(s) /\ k \in 0..Len(w)
  BY <1>1
<1>3. /\ c \in Seq(E) /\ Len(c) = k /\ \A i \in 1..k : c[i] = s[i]
      /\ d \in Seq(E) /\ Len(d) = Len(s) - k /\ \A i \in 1..Len(s) - k : d[i] = s[k + i]
  BY InTwo
<1>4. /\ a \in Seq(E) /\ Len(a) = k /\ \A i \in 1..k : a[i] = w[i]
      /\ b \in Seq(E) /\ Len(b) = Len(w) - k /\ \A i \in 1..Len(w) - k : b[i] = w[k + i]
  <2> HIDE DEF w
  <2> QED BY <1>1, <1>2, InTwo DEF w
<1>5. a = c
  <2> HIDE DEF a, c
  <2>1. \A i \in 1..k : a[i] = c[i]
    BY <1>1, <1>2, <1>3, <1>4
  <2> QED BY <1>3, <1>4, <2>1, SeqEqual
<1>6. b = d \o t
  <2> HIDE DEF b, d
  <2>1. /\ d \o t \in Seq(E) /\ Len(d \o t) = Len(d) + Len(t)
        /\ \A i \in 1..Len(d) + Len(t) :
             (d \o t)[i] = IF i <= Len(d) THEN d[i] ELSE t[i - Len(d)]
    BY <1>3, ConcatProperties
  <2>2. ASSUME NEW i \in 1..Len(s) + Len(t) - k PROVE b[i] = (d \o t)[i]
    <3>1. k + i \in 1..Len(s) + Len(t) /\ i \in 1..Len(w) - k /\ i \in 1..Len(d) + Len(t)
      BY <1>1, <1>2, <1>3
    <3>2. CASE k + i <= Len(s)
      <4>1. i \in 1..Len(s) - k /\ i <= Len(d)
        BY <1>1, <1>2, <1>3, <3>2
      <4> QED BY <1>1, <1>3, <1>4, <2>1, <3>1, <3>2, <4>1
    <3>3. CASE ~(k + i <= Len(s))
      <4>1. ~(i <= Len(d)) /\ i - Len(d) = k + i - Len(s)
        BY <1>1, <1>2, <1>3, <3>3
      <4> QED BY <1>1, <1>4, <2>1, <3>1, <3>3, <4>1
    <3> QED BY <3>2, <3>3
  <2>3. Len(b) = Len(s) + Len(t) - k /\ Len(d \o t) = Len(s) + Len(t) - k
    BY <1>1, <1>2, <1>3, <1>4, <2>1
  <2> QED BY <1>4, <2>1, <2>2, <2>3, SeqEqual
<1> QED BY <1>5, <1>6

\* Where one sequence ends in two, and what comes after.
LEMMA AfterTheFirst ==
  ASSUME NEW E, NEW s \in Seq(E), NEW t \in Seq(E)
  PROVE  /\ SubSeq(s \o t, 1, Len(s)) = s
         /\ From(s \o t, Len(s) + 1) = t
<1>1. Len(s) \in 0..Len(s) /\ Len(s) \in Nat
  BY LenProperties
<1>2. /\ SubSeq(s \o t, 1, Len(s)) = SubSeq(s, 1, Len(s))
      /\ From(s \o t, Len(s) + 1) = From(s, Len(s) + 1) \o t
  BY <1>1, InConcat
<1>3. SubSeq(s, 1, Len(s)) = s
  BY SubSeqFull
<1>4. From(s, Len(s) + 1) = <<>>
  BY <1>1, SubSeqEmpty DEF From
<1>5. <<>> \o t = t
  BY ConcatEmptySeq
<1> QED BY <1>2, <1>3, <1>4, <1>5

\* From the first place on, a sequence is itself.
LEMMA FromTheFirst ==
  ASSUME NEW E, NEW s \in Seq(E)
  PROVE  From(s, 1) = s
BY SubSeqFull DEF From

\* A text goes on as it began.
LEMMA StillStarts ==
  ASSUME NEW s \in Texts, NEW more \in Texts, NEW head \in Texts, StartsWith(s, head)
  PROVE  StartsWith(s \o more, head)
<1>1. Len(head) <= Len(s) /\ SubSeq(s, 1, Len(head)) = head
  BY DEF StartsWith
<1>2. /\ Len(head) \in Nat /\ Len(s) \in Nat /\ Len(more) \in Nat
      /\ Len(s \o more) = Len(s) + Len(more)
  BY LenProperties, ConcatProperties DEF Texts
<1>3. Len(head) \in 0..Len(s)
  BY <1>1, <1>2
<1>4. SubSeq(s \o more, 1, Len(head)) = SubSeq(s, 1, Len(head))
  BY <1>3, InConcat DEF Texts
<1> QED BY <1>1, <1>2, <1>4 DEF StartsWith

\* A text starts with what it was put behind.
LEMMA Starts ==
  ASSUME NEW s \in Texts, NEW head \in Texts
  PROVE  StartsWith(head \o s, head)
<1>1. /\ Len(head) \in Nat /\ Len(s) \in Nat
      /\ Len(head \o s) = Len(head) + Len(s)
  BY LenProperties, ConcatProperties DEF Texts
<1>2. SubSeq(head \o s, 1, Len(head)) = head
  BY AfterTheFirst DEF Texts
<1> QED BY <1>1, <1>2 DEF StartsWith

\* One or two white characters are a text in which nothing is visible.
LEMMA WhiteTexts ==
  ASSUME NEW c \in Characters, White(c)
  PROVE  /\ <<c>> \in Texts /\ Len(<<c>>) = 1 /\ Visible(<<c>>) = {}
         /\ <<c, c>> \in Texts /\ Len(<<c, c>>) = 2 /\ Visible(<<c, c>>) = {}
<1>1. <<c>> \in Texts /\ Len(<<c>>) = 1 /\ <<c, c>> \in Texts /\ Len(<<c, c>>) = 2
  BY DEF Texts
<1>2. DOMAIN <<c>> = 1..1 /\ <<c>>[1] = c /\ \A i \in 1..1 : i = 1
  OBVIOUS
<1>3. DOMAIN <<c, c>> = 1..2 /\ \A i \in 1..2 : <<c, c>>[i] = c
  OBVIOUS
<1> QED BY <1>1, <1>2, <1>3 DEF Visible

\* What joins two units.
Joiners == {Blank, <<" ">>}

\* The joiners, and the end of a line.
LEMMA Whites ==
  /\ Blank \in Texts /\ <<" ">> \in Texts /\ <<"/">> \in Texts /\ <<>> \in Texts
  /\ Len(Blank) = 2 /\ Len(<<" ">>) = 1 /\ Len(<<"/">>) = 1 /\ Len(<<>>) = 0
  /\ Visible(Blank) = {} /\ Visible(<<" ">>) = {} /\ Visible(<<"/">>) = {}
<1>1. "/" \in Characters /\ " " \in Characters /\ White("/") /\ White(" ")
  BY ChunkingAssumption DEF White
<1>2. <<>> \in Texts /\ Len(<<>>) = 0
  BY EmptySeq DEF Texts
<1> QED BY <1>1, <1>2, WhiteTexts DEF Blank

\* A joiner is white, and of one or two characters.
LEMMA JoinersAre ==
  ASSUME NEW joiner \in Joiners
  PROVE  /\ joiner \in Texts /\ Len(joiner) \in Nat /\ Len(joiner) <= 2
         /\ 1 <= Len(joiner) /\ Visible(joiner) = {}
         /\ joiner = Blank \/ joiner = <<" ">>
<1>1. joiner = Blank \/ joiner = <<" ">>
  BY DEF Joiners
<1>2. Len(joiner) \in Nat /\ Len(joiner) <= 2 /\ 1 <= Len(joiner)
  <2>1. Len(joiner) = 1 \/ Len(joiner) = 2
    BY <1>1, Whites
  <2> QED BY <2>1
<1>3. joiner \in Texts /\ Visible(joiner) = {}
  BY <1>1, Whites
<1> QED BY <1>1, <1>2, <1>3

\* The overlap is no longer than it may be.
LEMMA TailIs ==
  ASSUME NEW body \in Texts
  PROVE  TailOf(body) \in Texts /\ Len(TailOf(body)) <= Overlap
<1>0. Overlap \in Nat /\ Len(body) \in Nat /\ <<>> \in Seq(Texts)
  BY Sizes, LenProperties, EmptySeq DEF Texts
<1>1. CASE Overlap = 0
  <2>1. TailOf(body) = <<>> /\ <<>> \in Texts /\ Len(<<>>) = 0
    BY <1>1, EmptySeq DEF TailOf, Texts
  <2> QED BY <1>0, <2>1
<1>2. CASE Overlap # 0 /\ Len(body) <= Overlap
  BY <1>0, <1>2 DEF TailOf
<1>3. CASE Overlap # 0 /\ ~(Len(body) <= Overlap)
  <2> DEFINE start == Len(body) - Overlap + 1
             marks == {i \in start..Len(body) : White(body[i])}
             from == IF marks = {} THEN start ELSE Min(marks) + 1
  <2>1. TailOf(body) = Strip(From(body, from))
    BY <1>3 DEF TailOf
  <2>2. start \in 1..Len(body) /\ start = Len(body) - Overlap + 1
    BY <1>0, <1>3
  <2>3. marks \subseteq 1..Len(body) /\ marks \subseteq start..Len(body)
    BY <1>0, <2>2
  <2> HIDE DEF marks, start
  <2>4. from - 1 \in 0..Len(body) /\ from - 1 >= start - 1 /\ from - 1 + 1 = from
    <3>1. CASE marks = {}
      BY <1>0, <2>2, <3>1
    <3>2. CASE marks # {}
      <4>1. Min(marks) \in marks
        BY <1>0, <2>3, <3>2, EndsOf
      <4>2. Min(marks) \in start..Len(body)
        BY <2>3, <4>1
      <4> QED BY <1>0, <2>2, <3>2, <4>2
    <3> QED BY <3>1, <3>2
  <2> HIDE DEF from
  <2>5. From(body, from) \in Texts /\ Len(From(body, from)) = Len(body) - (from - 1)
    <3>1. PICK k \in 0..Len(body) : k = from - 1 /\ k + 1 = from
      BY <2>4
    <3>2. From(body, k + 1) \in Texts /\ Len(From(body, k + 1)) = Len(body) - k
      BY InTwo DEF Texts
    <3> QED BY <3>1, <3>2
  <2>6. /\ Strip(From(body, from)) \in Texts
        /\ Len(Strip(From(body, from))) <= Len(From(body, from))
    BY <1>0, <2>5, StripKeeps
  <2>7. Len(Strip(From(body, from))) \in Nat
    BY <2>6, LenProperties DEF Texts
  <2> QED BY <1>0, <2>1, <2>2, <2>4, <2>5, <2>6, <2>7
<1> QED BY <1>1, <1>2, <1>3

\* next is what comes after prev: it opens with the tail of it, and the two do not fit in one.
Opens(prev, next) ==
  LET rest == From(next, Len(TailOf(prev)) + 1)
  IN  /\ Len(prev) > Overlap /\ StartsWith(next, TailOf(prev))
      /\ TailOf(prev) # <<>> =>
           /\ StartsWith(rest, Blank) \/ StartsWith(rest, <<" ">>)
           /\ Len(prev) + Len(rest) > Target

\* What is taken for overlap is the tail that was repeated.
LEMMA OverlapIs ==
  ASSUME NEW prev \in Texts, NEW next \in Texts, Opens(prev, next)
  PROVE  OverlapLength(prev, next) = Len(TailOf(prev))
<1>1. TailOf(prev) \in Texts /\ Overlap \in Nat
  BY TailIs, Sizes
<1>2. CASE TailOf(prev) = <<>>
  BY <1>2 DEF OverlapLength
<1>3. CASE TailOf(prev) # <<>>
  <2>1. Overlap # 0
    BY <1>3 DEF TailOf
  <2>2. Overlap > 0
    BY <1>1, <2>1
  <2> QED BY <1>3, <2>2 DEF OverlapLength, Opens
<1> QED BY <1>2, <1>3

\* A body opens with the tail of the last one however it goes on.
LEMMA StillOpens ==
  ASSUME NEW prev \in Texts, NEW next \in Texts, NEW more \in Texts, Opens(prev, next)
  PROVE  Opens(prev, next \o more)
<1> DEFINE k == Len(TailOf(prev))
           rest == From(next, k + 1)
<1>1. TailOf(prev) \in Texts /\ k \in Nat /\ k <= Len(next)
  BY TailIs, LenProperties DEF Texts, Opens, StartsWith
<1>2. k \in 0..Len(next) /\ Len(next) \in Nat /\ Len(prev) \in Nat /\ Len(more) \in Nat
  BY <1>1, LenProperties DEF Texts
<1> HIDE DEF k
<1>3. From(next \o more, k + 1) = rest \o more /\ rest \in Texts
  BY <1>2, InConcat, InTwo DEF Texts
<1>4. Len(rest) \in Nat /\ Len(rest \o more) = Len(rest) + Len(more)
  BY <1>3, LenProperties, ConcatProperties DEF Texts
<1>5. StartsWith(next \o more, TailOf(prev))
  BY <1>1, StillStarts DEF Opens
<1> HIDE DEF rest
<1>6. /\ Len(prev) > Overlap
      /\ TailOf(prev) # <<>> =>
           /\ StartsWith(rest, Blank) \/ StartsWith(rest, <<" ">>)
           /\ Len(prev) + Len(rest) > Target
  BY DEF Opens, k, rest
<1>7. /\ StartsWith(rest, Blank) => StartsWith(rest \o more, Blank)
      /\ StartsWith(rest, <<" ">>) => StartsWith(rest \o more, <<" ">>)
  BY <1>3, Whites, StillStarts
<1>8. TailOf(prev) # <<>> => Len(prev) + Len(rest \o more) > Target
  <2>1. Target \in Nat
    BY Sizes
  <2>2. PICK n \in Nat, m \in Nat, l \in Nat, w \in Nat :
          n = Len(prev) /\ m = Len(rest) /\ l = Len(more) /\ w = Len(rest \o more)
    BY <1>2, <1>4
  <2>3. w = m + l
    BY <1>4, <2>2
  <2>4. n + m > Target => n + w > Target
    BY <2>1, <2>3
  <2> QED BY <1>6, <2>2, <2>4
<1> QED BY <1>3, <1>5, <1>6, <1>7, <1>8 DEF Opens, k

\* A body that is full is followed by its tail and a unit that did not fit.
LEMMA OpensAfter ==
  ASSUME NEW prev \in Texts, NEW text \in Texts, NEW joiner \in Joiners,
         Len(text) <= Piece, Len(prev) + Len(joiner) + Len(text) > Target
  PROVE  /\ Opens(prev, IF TailOf(prev) = <<>> THEN text ELSE TailOf(prev) \o joiner \o text)
         /\ TailOf(prev) # <<>> =>
              /\ TailOf(prev) \o joiner \o text \in Texts
              /\ Len(TailOf(prev) \o joiner \o text) <= Target
              /\ From(TailOf(prev) \o joiner \o text, Len(TailOf(prev)) + 1) = joiner \o text
<1>0. /\ Target \in Nat /\ Overlap \in Nat /\ Piece = Target - Overlap - 2
      /\ Len(prev) \in Nat /\ Len(text) \in Nat
      /\ joiner \in Texts /\ Len(joiner) \in Nat /\ Len(joiner) <= 2
      /\ TailOf(prev) \in Texts /\ Len(TailOf(prev)) <= Overlap /\ Len(TailOf(prev)) \in Nat
  BY Sizes, LenProperties, JoinersAre, TailIs DEF Texts
<1>b. PICK n \in Nat, m \in Nat, j \in Nat :
        n = Len(prev) /\ m = Len(text) /\ j = Len(joiner) /\ j <= 2
  BY <1>0
<1>c. n + j + m > Target /\ m <= Piece
  BY <1>b
<1>1. Len(prev) > Overlap
  <2>1. n > Overlap
    BY <1>0, <1>b, <1>c
  <2> QED BY <1>b, <2>1
<1>2. CASE TailOf(prev) = <<>>
  <2>1. StartsWith(text, <<>>)
    <3>1. SubSeq(text, 1, 0) = <<>>
      BY SubSeqEmpty
    <3>2. Len(<<>>) = 0 /\ 0 <= Len(text)
      BY <1>0, EmptySeq
    <3>3. SubSeq(text, 1, Len(<<>>)) = <<>>
      BY <3>1, <3>2, Zenon
    <3> QED BY <3>2, <3>3 DEF StartsWith
  <2> QED BY <1>1, <1>2, <2>1 DEF Opens
<1>3. CASE TailOf(prev) # <<>>
  <2> DEFINE t == TailOf(prev)
             r == joiner \o text
  <2>1. r \in Texts /\ Len(r) = Len(joiner) + Len(text)
    BY <1>0, ConcatProperties DEF Texts
  <2>2. t \o joiner \o text = t \o r
    <3>1. t \in Seq(Characters) /\ joiner \in Seq(Characters) /\ text \in Seq(Characters)
      BY <1>0 DEF Texts
    <3> HIDE DEF t
    <3>2. (t \o joiner) \o text = t \o (joiner \o text)
      BY <3>1, ConcatAssociative
    <3> QED BY <3>2
  <2> HIDE DEF t, r
  <2>3. t \in Texts /\ Len(t) <= Overlap /\ Len(t) \in Nat
    BY <1>0 DEF t
  <2>4. /\ t \o r \in Texts /\ Len(t \o r) = Len(t) + Len(r)
        /\ From(t \o r, Len(t) + 1) = r
    <3>1. t \in Seq(Characters) /\ r \in Seq(Characters)
      BY <2>1, <2>3 DEF Texts
    <3>2. t \o r \in Seq(Characters) /\ Len(t \o r) = Len(t) + Len(r)
      BY <3>1, ConcatProperties
    <3>3. From(t \o r, Len(t) + 1) = r
      BY <3>1, AfterTheFirst
    <3> QED BY <3>2, <3>3 DEF Texts
  <2>5. StartsWith(t \o r, t)
    BY <2>1, <2>3, Starts
  <2>6. StartsWith(r, Blank) \/ StartsWith(r, <<" ">>)
    <3>1. StartsWith(r, joiner)
      BY <1>0, Starts DEF r
    <3> QED BY <3>1, JoinersAre
  <2>7. Len(prev) + Len(r) > Target /\ Len(t \o r) <= Target
    <3>1. PICK k \in Nat : k = Len(t) /\ k <= Overlap
      BY <2>3
    <3>2. Len(r) = j + m /\ Len(t \o r) = k + (j + m)
      BY <1>b, <2>1, <2>4, <3>1
    <3>3. n + (j + m) > Target /\ k + (j + m) <= Target
      BY <1>0, <1>b, <1>c, <3>1
    <3> QED BY <1>b, <3>2, <3>3
  <2>8. Opens(prev, t \o r)
    BY <1>1, <2>4, <2>5, <2>6, <2>7 DEF Opens, t
  <2> QED BY <1>3, <2>2, <2>4, <2>7, <2>8 DEF t, r
<1> QED BY <1>2, <1>3

-----------------------------------------------------------------------------
(* Packing: bodies that say, without what they repeat, what their units do *)

\* A sequence that is one element longer, and otherwise the same.
LEMMA OneMore ==
  ASSUME NEW E, NEW a \in Seq(E), NEW b \in Seq(E), Len(b) = Len(a) + 1,
         \A i \in 1..Len(a) : b[i] = a[i]
  PROVE  b = Append(a, b[Len(a) + 1]) /\ b[Len(a) + 1] \in E
<1>1. Len(a) \in Nat /\ Len(a) + 1 \in 1..Len(b)
  BY LenProperties
<1>2. PICK e \in E : e = b[Len(a) + 1]
  BY <1>1, ElementOfSeq
<1>3. /\ Append(a, e) \in Seq(E) /\ Len(Append(a, e)) = Len(a) + 1
      /\ \A i \in 1..Len(a) : Append(a, e)[i] = a[i]
      /\ Append(a, e)[Len(a) + 1] = e
  BY AppendProperties
<1>4. ASSUME NEW i \in 1..Len(b) PROVE b[i] = Append(a, e)[i]
  <2>1. i \in 1..Len(a) \/ i = Len(a) + 1
    BY <1>1
  <2> QED BY <1>2, <1>3, <2>1
<1>5. b = Append(a, e)
  BY <1>3, <1>4, SeqEqual
<1> QED BY <1>2, <1>5

\* The units that there is room for.
ShortUnit == {u \in Unit : Len(u.text) <= Piece}

SaidByUnits(path, units) == FlattenSeq(Mapped([u \in Unit |-> Said(path, u.text)], units))

\* The fields of a unit.
LEMMA UnitIs ==
  ASSUME NEW u \in ShortUnit
  PROVE  /\ u \in Unit /\ u.text \in Texts /\ u.continues \in BOOLEAN
         /\ Len(u.text) <= Piece /\ Len(u.text) \in Nat
<1>1. u \in Unit /\ Len(u.text) <= Piece
  BY DEF ShortUnit
<1>2. u.text \in Texts /\ u.continues \in BOOLEAN
  BY <1>1 DEF Unit
<1> QED BY <1>1, <1>2, LenProperties DEF Texts

\* Sequences over more are more.
LEMMA SeqOfMore ==
  ASSUME NEW A, NEW B, A \subseteq B
  PROVE  Seq(A) \subseteq Seq(B)
BY SeqMonotonic

\* What units say is what each of them does, in order.
LEMMA SaidByUnitsIs ==
  ASSUME NEW path \in Seq(Texts)
  PROVE  /\ SaidByUnits(path, <<>>) = <<>>
         /\ \A us \in Seq(ShortUnit) : SaidByUnits(path, us) \in Seq(Spoken)
         /\ \A us \in Seq(ShortUnit), u \in ShortUnit :
              SaidByUnits(path, Append(us, u)) = SaidByUnits(path, us) \o Said(path, u.text)
         /\ \A us, vs \in Seq(ShortUnit) :
              SaidByUnits(path, us \o vs) = SaidByUnits(path, us) \o SaidByUnits(path, vs)
<1> DEFINE F == [u \in Unit |-> Said(path, u.text)]
<1>0. Seq(ShortUnit) \subseteq Seq(Unit) /\ ShortUnit \subseteq Unit
  <2>1. ShortUnit \subseteq Unit
    BY DEF ShortUnit
  <2> QED BY <2>1, SeqOfMore
<1>1. F \in Maps(Unit, Seq(Spoken)) /\ \A u \in Unit : F[u] = Said(path, u.text)
  <2>1. ASSUME NEW u \in Unit PROVE Said(path, u.text) \in Seq(Spoken)
    <3>1. u.text \in Texts
      BY DEF Unit
    <3> QED BY <3>1, SaidIs
  <2> QED BY <2>1 DEF Maps
<1>2. \A us : SaidByUnits(path, us) = FlattenSeq(Mapped(F, us))
  BY DEF SaidByUnits
<1> HIDE DEF F
<1>3. /\ FlattenSeq(Mapped(F, <<>>)) = <<>>
      /\ \A us \in Seq(Unit) : FlattenSeq(Mapped(F, us)) \in Seq(Spoken)
      /\ \A us \in Seq(Unit), u \in Unit :
           FlattenSeq(Mapped(F, Append(us, u))) = FlattenSeq(Mapped(F, us)) \o F[u]
      /\ \A us, vs \in Seq(Unit) : FlattenSeq(Mapped(F, us \o vs))
           = FlattenSeq(Mapped(F, us)) \o FlattenSeq(Mapped(F, vs))
  BY <1>1, FlatMapped
<1>4. SaidByUnits(path, <<>>) = <<>>
  BY <1>2, <1>3, Zenon
<1>5. ASSUME NEW us \in Seq(ShortUnit) PROVE SaidByUnits(path, us) \in Seq(Spoken)
  BY <1>0, <1>2, <1>3
<1>6. ASSUME NEW us \in Seq(ShortUnit), NEW u \in ShortUnit
      PROVE  SaidByUnits(path, Append(us, u)) = SaidByUnits(path, us) \o Said(path, u.text)
  <2>1. us \in Seq(Unit) /\ u \in Unit
    BY <1>0
  <2> QED BY <2>1, <1>1, <1>2, <1>3, Zenon
<1>7. ASSUME NEW us \in Seq(ShortUnit), NEW vs \in Seq(ShortUnit)
      PROVE  SaidByUnits(path, us \o vs) = SaidByUnits(path, us) \o SaidByUnits(path, vs)
  <2>1. us \in Seq(Unit) /\ vs \in Seq(Unit)
    BY <1>0
  <2> QED BY <2>1, <1>2, <1>3, Zenon
<1> QED BY <1>4, <1>5, <1>6, <1>7, Zenon

\* The units of a paragraph are short, and say what it says.
LEMMA UnitsIs ==
  ASSUME NEW path \in Seq(Texts), NEW paragraph \in Texts
  PROVE  /\ Units(paragraph) \in Seq(ShortUnit)
         /\ SaidByUnits(path, Units(paragraph)) = Said(path, paragraph)
<1> DEFINE parts == IF Len(paragraph) > Piece THEN SplitLong(Strip(paragraph)) ELSE <<paragraph>>
           FU == [u \in Unit |-> Said(path, u.text)]
           FT == [t \in Texts |-> Said(path, t)]
<1>0. Piece \in Nat /\ Len(paragraph) \in Nat
  BY Sizes, LenProperties DEF Texts
<1>1. /\ parts \in Seq(Texts) /\ NoLonger(parts, Piece)
      /\ SaidByAll(path, parts) = Said(path, paragraph)
  <2>1. CASE Len(paragraph) > Piece
    <3>1. Strip(paragraph) \in Texts /\ Said(path, Strip(paragraph)) = Said(path, paragraph)
      BY StripKeeps
    <3>2. /\ SplitLong(Strip(paragraph)) \in Seq(Texts)
          /\ NoLonger(SplitLong(Strip(paragraph)), Piece)
          /\ SaidByAll(path, SplitLong(Strip(paragraph))) = Said(path, Strip(paragraph))
      BY <3>1, SplitLongKeeps
    <3> QED BY <2>1, <3>1, <3>2
  <2>2. CASE ~(Len(paragraph) > Piece)
    <3>1. <<paragraph>> \in Seq(Texts)
      OBVIOUS
    <3>2. NoLonger(<<paragraph>>, Piece)
      <4>1. DOMAIN <<paragraph>> = {1} /\ <<paragraph>>[1] = paragraph
        OBVIOUS
      <4>2. Len(paragraph) <= Piece
        BY <1>0, <2>2
      <4> QED BY <4>1, <4>2 DEF NoLonger
    <3>3. SaidByAll(path, <<paragraph>>) = Said(path, paragraph)
      BY SaidByAllIs
    <3> QED BY <2>2, <3>1, <3>2, <3>3
  <2> QED BY <2>1, <2>2
<1>2. Units(paragraph) = [i \in DOMAIN parts |-> [text |-> parts[i], continues |-> i > 1]]
  BY DEF Units
<1> HIDE DEF parts
<1>3. /\ Len(parts) \in Nat /\ DOMAIN parts = 1..Len(parts)
      /\ \A i \in 1..Len(parts) : parts[i] \in Texts
  BY <1>1, LenProperties, ElementOfSeq
<1>4. ASSUME NEW i \in 1..Len(parts)
      PROVE  /\ [text |-> parts[i], continues |-> i > 1] \in ShortUnit
             /\ Units(paragraph)[i] \in Unit /\ Units(paragraph)[i].text = parts[i]
  <2>1. parts[i] \in Texts /\ Len(parts[i]) <= Piece /\ (i > 1) \in BOOLEAN
    BY <1>1, <1>3 DEF NoLonger
  <2> QED BY <1>2, <1>3, <2>1 DEF ShortUnit, Unit
<1>5. Units(paragraph) \in [1..Len(parts) -> ShortUnit]
  BY <1>2, <1>3, <1>4
<1>6. Units(paragraph) \in Seq(ShortUnit) /\ DOMAIN Units(paragraph) = 1..Len(parts)
  BY <1>3, <1>5, IsSequence
<1>7. Mapped(FU, Units(paragraph)) = Mapped(FT, parts)
  <2>1. \A i \in 1..Len(parts) : FU[Units(paragraph)[i]] = FT[parts[i]]
    BY <1>3, <1>4
  <2> HIDE DEF FU, FT
  <2> QED BY <1>3, <1>6, <2>1 DEF Mapped
<1>8. SaidByUnits(path, Units(paragraph)) = SaidByAll(path, parts)
  BY <1>7 DEF SaidByUnits, SaidByAll
<1> QED BY <1>1, <1>6, <1>8

\* The units of paragraphs.
AllUnits(paragraphs) == FlattenSeq([i \in DOMAIN paragraphs |-> Units(paragraphs[i])])

\* So are those of paragraphs, and so they do.
LEMMA AllUnitsAre ==
  ASSUME NEW path \in Seq(Texts)
  PROVE  /\ AllUnits(<<>>) = <<>>
         /\ \A ps \in Seq(Texts) :
              /\ AllUnits(ps) \in Seq(ShortUnit)
              /\ SaidByUnits(path, AllUnits(ps)) = SaidByAll(path, ps)
<1> DEFINE F == [p \in Texts |-> Units(p)]
<1>1. F \in Maps(Texts, Seq(ShortUnit)) /\ \A p \in Texts : F[p] = Units(p)
  BY UnitsIs DEF Maps
<1>2. ASSUME NEW ps \in Seq(Texts) PROVE AllUnits(ps) = FlattenSeq(Mapped(F, ps))
  <2>1. \A i \in DOMAIN ps : ps[i] \in Texts
    BY LenProperties, ElementOfSeq
  <2>2. Mapped(F, ps) = [i \in DOMAIN ps |-> Units(ps[i])]
    BY <2>1 DEF Mapped
  <2> QED BY <2>2 DEF AllUnits
<1> HIDE DEF F
<1>3. /\ FlattenSeq(Mapped(F, <<>>)) = <<>>
      /\ \A ps \in Seq(Texts) : FlattenSeq(Mapped(F, ps)) \in Seq(ShortUnit)
      /\ \A ps \in Seq(Texts), p \in Texts :
           FlattenSeq(Mapped(F, Append(ps, p))) = FlattenSeq(Mapped(F, ps)) \o F[p]
  BY <1>1, FlatMapped
<1> DEFINE T == {ps \in Seq(Texts) : SaidByUnits(path, AllUnits(ps)) = SaidByAll(path, ps)}
<1>4. <<>> \in Seq(Texts) /\ AllUnits(<<>>) = <<>>
  BY <1>2, <1>3, EmptySeq, Zenon
<1>5. <<>> \in T
  <2>1. SaidByUnits(path, <<>>) = <<>> /\ SaidByAll(path, <<>>) = <<>>
    BY SaidByUnitsIs, SaidByAllIs
  <2> QED BY <1>4, <2>1, Zenon
<1>6. ASSUME NEW ps \in Seq(Texts), NEW p \in Texts, ps \in T PROVE Append(ps, p) \in T
  <2>1. SaidByUnits(path, AllUnits(ps)) = SaidByAll(path, ps)
    BY <1>6
  <2>2. Append(ps, p) \in Seq(Texts)
    BY AppendProperties
  <2>3. AllUnits(Append(ps, p)) = AllUnits(ps) \o Units(p) /\ AllUnits(ps) \in Seq(ShortUnit)
    BY <1>1, <1>2, <1>3, <2>2, Zenon
  <2>4. Units(p) \in Seq(ShortUnit) /\ SaidByUnits(path, Units(p)) = Said(path, p)
    BY UnitsIs
  <2>5. SaidByUnits(path, AllUnits(ps) \o Units(p))
          = SaidByUnits(path, AllUnits(ps)) \o SaidByUnits(path, Units(p))
    BY <2>3, <2>4, SaidByUnitsIs
  <2>6. SaidByAll(path, Append(ps, p)) = SaidByAll(path, ps) \o Said(path, p)
    BY SaidByAllIs
  <2>7. SaidByUnits(path, AllUnits(Append(ps, p))) = SaidByAll(path, Append(ps, p))
    BY <2>1, <2>3, <2>4, <2>5, <2>6, Zenon
  <2> QED BY <2>2, <2>7, Zenon
<1>7. Seq(Texts) \subseteq T
  <2> HIDE DEF T
  <2> QED BY <1>5, <1>6, OnSequences
<1>8. \A ps \in Seq(Texts) : AllUnits(ps) \in Seq(ShortUnit)
  BY <1>2, <1>3, Zenon
<1> QED BY <1>4, <1>7, <1>8

\* How much of a body repeats the one before it.
Repeats(bodies, i) == IF i = 1 THEN 0 ELSE OverlapLength(bodies[i - 1], bodies[i])

\* What the bodies say one after another, without what they repeat.
Anew(path, bodies) ==
  FlattenSeq([i \in DOMAIN bodies |-> Said(path, From(bodies[i], Repeats(bodies, i) + 1))])

\* What is taken for overlap is a number of characters.
LEMMA OverlapIsNat ==
  ASSUME NEW prev \in Texts, NEW next \in Texts
  PROVE  OverlapLength(prev, next) \in Nat
<1>1. Len(TailOf(prev)) \in Nat
  BY TailIs, LenProperties DEF Texts
<1> QED BY <1>1 DEF OverlapLength

\* What each body says anew is something said.
LEMMA AnewSteps ==
  ASSUME NEW path \in Seq(Texts), NEW bodies \in Seq(Texts)
  PROVE  [i \in DOMAIN bodies |-> Said(path, From(bodies[i], Repeats(bodies, i) + 1))]
           \in [1..Len(bodies) -> Seq(Spoken)]
<1>1. /\ Len(bodies) \in Nat /\ DOMAIN bodies = 1..Len(bodies)
      /\ \A i \in 1..Len(bodies) : bodies[i] \in Texts
  BY LenProperties, ElementOfSeq
<1>2. ASSUME NEW i \in 1..Len(bodies)
      PROVE  Said(path, From(bodies[i], Repeats(bodies, i) + 1)) \in Seq(Spoken)
  <2>1. Repeats(bodies, i) \in Nat
    <3>1. CASE i = 1
      BY <3>1 DEF Repeats
    <3>2. CASE i # 1
      <4>1. i - 1 \in 1..Len(bodies)
        BY <1>1, <3>2
      <4>2. OverlapLength(bodies[i - 1], bodies[i]) \in Nat
        BY <1>1, <4>1, OverlapIsNat
      <4> QED BY <3>2, <4>2 DEF Repeats
    <3> QED BY <3>1, <3>2
  <2>2. PICK k \in Nat : k = Repeats(bodies, i)
    BY <2>1
  <2>3. From(bodies[i], k + 1) \in Texts
    BY <1>1, FromIsText
  <2> QED BY <2>2, <2>3, SaidIs
<1> QED BY <1>1, <1>2

\* One body more says anew what is not overlap with the last.
LEMMA AnewIs ==
  ASSUME NEW path \in Seq(Texts)
  PROVE  /\ Anew(path, <<>>) = <<>>
         /\ \A bodies \in Seq(Texts) : Anew(path, bodies) \in Seq(Spoken)
         /\ \A bodies \in Seq(Texts), b \in Texts :
              Anew(path, Append(bodies, b))
                = Anew(path, bodies)
                    \o Said(path, From(b, (IF bodies = <<>> THEN 0
                                           ELSE OverlapLength(bodies[Len(bodies)], b)) + 1))
<1> DEFINE each(bodies) ==
             [i \in DOMAIN bodies |-> Said(path, From(bodies[i], Repeats(bodies, i) + 1))]
<1>1. ASSUME NEW bodies \in Seq(Texts)
      PROVE  each(bodies) \in Seq(Seq(Spoken)) /\ Len(each(bodies)) = Len(bodies)
  <2>1. each(bodies) \in [1..Len(bodies) -> Seq(Spoken)] /\ Len(bodies) \in Nat
    BY AnewSteps, LenProperties
  <2> HIDE DEF each
  <2> QED BY <2>1, IsSequence
<1>2. \A bodies : Anew(path, bodies) = FlattenSeq(each(bodies))
  BY DEF Anew
<1>3. Anew(path, <<>>) = <<>>
  <2>1. each(<<>>) = <<>>
    OBVIOUS
  <2>2. FlattenSeq(<<>>) = <<>>
    BY Flattened
  <2> QED BY <1>2, <2>1, <2>2, Zenon
<1>4. \A bodies \in Seq(Texts) : Anew(path, bodies) \in Seq(Spoken)
  BY <1>1, <1>2, Flattened
<1>5. ASSUME NEW bodies \in Seq(Texts), NEW b \in Texts
      PROVE  Anew(path, Append(bodies, b))
               = Anew(path, bodies)
                   \o Said(path, From(b, (IF bodies = <<>> THEN 0
                                          ELSE OverlapLength(bodies[Len(bodies)], b)) + 1))
  <2> DEFINE more == Append(bodies, b)
             n == Len(bodies)
             k == IF bodies = <<>> THEN 0 ELSE OverlapLength(bodies[Len(bodies)], b)
  <2>1. /\ more \in Seq(Texts) /\ Len(more) = n + 1 /\ n \in Nat
        /\ \A i \in 1..n : more[i] = bodies[i]
        /\ more[n + 1] = b /\ DOMAIN more = 1..n + 1 /\ DOMAIN bodies = 1..n
    <3>1. /\ more \in Seq(Texts) /\ Len(more) = n + 1 /\ n \in Nat
          /\ \A i \in 1..n : more[i] = bodies[i]
          /\ more[n + 1] = b /\ DOMAIN bodies = 1..n
      BY AppendProperties, LenProperties
    <3>2. DOMAIN more = 1..Len(more)
      <4> HIDE DEF more
      <4> QED BY <3>1, LenProperties
    <3> QED BY <3>1, <3>2
  <2> HIDE DEF more
  <2>2. ASSUME NEW i \in 1..n PROVE each(more)[i] = each(bodies)[i]
    <3>1. Repeats(more, i) = Repeats(bodies, i)
      <4>1. CASE i = 1
        BY <4>1 DEF Repeats
      <4>2. CASE i # 1
        <5>1. i - 1 \in 1..n
          BY <2>1, <4>2
        <5> QED BY <2>1, <4>2, <5>1 DEF Repeats
      <4> QED BY <4>1, <4>2
    <3>2. more[i] = bodies[i] /\ i \in 1..n + 1
      BY <2>1
    <3> QED BY <2>1, <3>1, <3>2
  <2>3. Repeats(more, n + 1) = k
    <3>1. CASE bodies = <<>>
      <4>1. n = 0
        BY <3>1, EmptySeq
      <4> QED BY <3>1, <4>1 DEF Repeats
    <3>2. CASE bodies # <<>>
      <4>1. n # 0
        BY <3>2, EmptySeq
      <4>2. n \in 1..n /\ n + 1 # 1 /\ n + 1 - 1 = n
        BY <2>1, <4>1
      <4>3. more[n] = bodies[n] /\ more[n + 1] = b
        BY <2>1, <4>2
      <4> QED BY <3>2, <4>2, <4>3 DEF Repeats
    <3> QED BY <3>1, <3>2
  <2>4. each(more)[n + 1] = Said(path, From(b, k + 1))
    <3>1. n + 1 \in DOMAIN more
      BY <2>1
    <3>2. each(more)[n + 1] = Said(path, From(more[n + 1], Repeats(more, n + 1) + 1))
      BY <3>1
    <3> QED BY <2>1, <2>3, <3>2
  <2>5. /\ each(bodies) \in Seq(Seq(Spoken)) /\ Len(each(bodies)) = n
        /\ each(more) \in Seq(Seq(Spoken)) /\ Len(each(more)) = n + 1
    BY <1>1, <2>1
  <2> HIDE DEF each, k
  <2>6. /\ each(more) = Append(each(bodies), each(more)[n + 1])
        /\ each(more)[n + 1] \in Seq(Spoken)
    <3>1. PICK C : C = Seq(Spoken)
      OBVIOUS
    <3>2. each(bodies) \in Seq(C) /\ each(more) \in Seq(C)
      BY <2>5, <3>1
    <3>3. PICK a \in Seq(C), c \in Seq(C) : a = each(bodies) /\ c = each(more)
      BY <3>2
    <3>4. c = Append(a, c[Len(a) + 1]) /\ c[Len(a) + 1] \in C
      BY <2>2, <2>5, <3>3, OneMore
    <3>5. Len(a) = n
      BY <2>5, <3>3
    <3> QED BY <3>1, <3>3, <3>4, <3>5
  <2>7. FlattenSeq(Append(each(bodies), each(more)[n + 1]))
          = FlattenSeq(each(bodies)) \o each(more)[n + 1]
    BY <2>5, <2>6, Flattened
  <2>8. Anew(path, more) = Anew(path, bodies) \o Said(path, From(b, k + 1))
    BY <1>2, <2>4, <2>6, <2>7
  <2> QED BY <2>8 DEF more, k
<1> QED BY <1>3, <1>4, <1>5, Zenon

\* How much of what is being packed was packed before.
Again(bodies) == IF bodies = <<>> THEN 0 ELSE Len(TailOf(bodies[Len(bodies)]))

\* What has been packed of some units, and what is being packed.
PackInv(path, acc, units) ==
  /\ acc \in Packing /\ NoLonger(acc.bodies, Target) /\ Len(acc.cur) <= Target
  /\ ~acc.hasUnit => acc.bodies = <<>> /\ acc.cur = <<>>
  /\ acc.bodies # <<>> => Opens(acc.bodies[Len(acc.bodies)], acc.cur)
  /\ Anew(path, acc.bodies) \o Said(path, From(acc.cur, Again(acc.bodies) + 1))
       = SaidByUnits(path, units)

\* The fields of what is being packed.
LEMMA PackingIs ==
  ASSUME NEW path \in Seq(Texts), NEW acc \in Packing
  PROVE  /\ acc.bodies \in Seq(Texts) /\ acc.cur \in Texts /\ acc.hasUnit \in BOOLEAN
         /\ Len(acc.cur) \in Nat
         /\ acc.bodies # <<>> => acc.bodies[Len(acc.bodies)] \in Texts
         /\ Again(acc.bodies) \in Nat
         /\ acc.bodies # <<>> /\ Opens(acc.bodies[Len(acc.bodies)], acc.cur)
              => Again(acc.bodies) <= Len(acc.cur)
<1>1. acc.bodies \in Seq(Texts) /\ acc.cur \in Texts /\ acc.hasUnit \in BOOLEAN
  BY DEF Packing
<1>2. Len(acc.cur) \in Nat
  BY <1>1, LenProperties DEF Texts
<1>3. acc.bodies # <<>> => acc.bodies[Len(acc.bodies)] \in Texts
  <2>1. ASSUME acc.bodies # <<>> PROVE acc.bodies[Len(acc.bodies)] \in Texts
    <3>1. Len(acc.bodies) \in Nat /\ Len(acc.bodies) # 0
      BY <1>1, <2>1, LenProperties, EmptySeq
    <3>2. Len(acc.bodies) \in 1..Len(acc.bodies)
      BY <3>1
    <3> QED BY <1>1, <3>2, ElementOfSeq
  <2> QED BY <2>1
<1>4. acc.bodies # <<>> => Len(TailOf(acc.bodies[Len(acc.bodies)])) \in Nat
  BY <1>3, TailIs, LenProperties DEF Texts
<1>5. acc.bodies # <<>> /\ Opens(acc.bodies[Len(acc.bodies)], acc.cur)
        => Len(TailOf(acc.bodies[Len(acc.bodies)])) <= Len(acc.cur)
  BY DEF Opens, StartsWith
<1> QED BY <1>1, <1>2, <1>3, <1>4, <1>5 DEF Again

\* What AddUnit puts before a unit, and whether it begins a body with it.
JoinerOf(unit) == IF unit.continues THEN <<" ">> ELSE Blank

\* A unit is joined by a joiner.
LEMMA JoinerOfIs ==
  ASSUME NEW u
  PROVE  JoinerOf(u) \in Joiners
BY DEF JoinerOf, Joiners

Full(acc, u) == acc.hasUnit /\ Len(acc.cur) + Len(JoinerOf(u)) + Len(u.text) > Target

\* The two branches of AddUnit: the unit fits, or the body is full.
LEMMA AddUnitIs ==
  ASSUME NEW acc, NEW u
  PROVE  /\ ~Full(acc, u) =>
              AddUnit(acc, u) =
                [bodies  |-> acc.bodies,
                 cur     |-> IF acc.cur = <<>> THEN u.text
                             ELSE acc.cur \o JoinerOf(u) \o u.text,
                 hasUnit |-> TRUE]
         /\ Full(acc, u) =>
              AddUnit(acc, u) =
                [bodies  |-> Append(acc.bodies, acc.cur),
                 cur     |-> IF TailOf(acc.cur) = <<>> THEN u.text
                             ELSE TailOf(acc.cur) \o JoinerOf(u) \o u.text,
                 hasUnit |-> TRUE]
BY DEF AddUnit, Full, JoinerOf

\* A unit is added without its being said twice.
LEMMA AddedSays ==
  ASSUME NEW path \in Seq(Texts), NEW joiner \in Joiners, NEW text \in Texts
  PROVE  joiner \o text \in Texts /\ Said(path, joiner \o text) = Said(path, text)
<1>1. joiner \in Texts /\ Visible(joiner) = {}
  BY JoinersAre
<1>2. Said(path, joiner) = <<>> /\ Said(path, text) \in Seq(Spoken)
  BY <1>1, SaidNothing, SaidIs
<1>3. Said(path, joiner \o text) = Said(path, joiner) \o Said(path, text)
  BY <1>1, SaidIs
<1>4. <<>> \o Said(path, text) = Said(path, text)
  BY <1>2, ConcatEmptySeq
<1>5. joiner \o text \in Texts
  BY <1>1, ConcatProperties DEF Texts
<1> QED BY <1>2, <1>3, <1>4, <1>5

\* Three texts in a row.
LEMMA ThreeTexts ==
  ASSUME NEW a \in Texts, NEW b \in Texts, NEW c \in Texts
  PROVE  /\ (a \o b) \o c = a \o (b \o c) /\ b \o c \in Texts /\ a \o b \o c \in Texts
         /\ Len(a \o b \o c) = Len(a) + Len(b) + Len(c)
<1>1. a \in Seq(Characters) /\ b \in Seq(Characters) /\ c \in Seq(Characters)
  BY DEF Texts
<1>2. (a \o b) \o c = a \o (b \o c)
  BY <1>1, ConcatAssociative
<1>3. /\ a \o b \in Seq(Characters) /\ b \o c \in Seq(Characters)
      /\ Len(a \o b) = Len(a) + Len(b)
  BY <1>1, ConcatProperties
<1>4. /\ (a \o b) \o c \in Seq(Characters)
      /\ Len((a \o b) \o c) = Len(a \o b) + Len(c)
  BY <1>1, <1>3, ConcatProperties
<1> QED BY <1>2, <1>3, <1>4 DEF Texts

\* A unit more keeps the invariant of packing.
LEMMA AddUnitKeeps ==
  ASSUME NEW path \in Seq(Texts), NEW acc, NEW units \in Seq(ShortUnit), NEW u \in ShortUnit,
         PackInv(path, acc, units)
  PROVE  PackInv(path, AddUnit(acc, u), Append(units, u))
<1>0. /\ acc \in Packing /\ NoLonger(acc.bodies, Target) /\ Len(acc.cur) <= Target
      /\ ~acc.hasUnit => acc.bodies = <<>> /\ acc.cur = <<>>
      /\ acc.bodies # <<>> => Opens(acc.bodies[Len(acc.bodies)], acc.cur)
      /\ Anew(path, acc.bodies) \o Said(path, From(acc.cur, Again(acc.bodies) + 1))
           = SaidByUnits(path, units)
  BY DEF PackInv
<1> DEFINE k == Again(acc.bodies)
           text == u.text
           joiner == JoinerOf(u)
<1>1. /\ acc.bodies \in Seq(Texts) /\ acc.cur \in Texts /\ Len(acc.cur) \in Nat
      /\ acc.bodies # <<>> => acc.bodies[Len(acc.bodies)] \in Texts
      /\ k \in Nat /\ k \in 0..Len(acc.cur)
  <2>1. /\ acc.bodies \in Seq(Texts) /\ acc.cur \in Texts /\ Len(acc.cur) \in Nat
        /\ acc.bodies # <<>> => acc.bodies[Len(acc.bodies)] \in Texts
        /\ k \in Nat /\ (acc.bodies # <<>> => k <= Len(acc.cur))
    BY <1>0, PackingIs
  <2>2. acc.bodies = <<>> => k = 0
    BY DEF Again
  <2> QED BY <2>1, <2>2
<1>2. text \in Texts /\ Len(text) \in Nat /\ Len(text) <= Piece
  BY UnitIs
<1>3. joiner \in Joiners /\ joiner \in Texts /\ Len(joiner) \in Nat
  BY JoinerOfIs, JoinersAre
<1>4. Target \in Nat /\ Piece \in Nat /\ Piece <= Target
  BY Sizes
<1>5. /\ joiner \o text \in Texts /\ Said(path, joiner \o text) = Said(path, text)
      /\ Said(path, text) \in Seq(Spoken)
  BY <1>2, <1>3, AddedSays, SaidIs
<1>6. SaidByUnits(path, Append(units, u)) = SaidByUnits(path, units) \o Said(path, text)
  BY SaidByUnitsIs
<1>7. Anew(path, acc.bodies) \in Seq(Spoken) /\ SaidByUnits(path, units) \in Seq(Spoken)
  BY <1>1, AnewIs, SaidByUnitsIs
<1>8. CASE ~Full(acc, u)
  <2> DEFINE added == IF acc.cur = <<>> THEN text ELSE joiner \o text
             cur == acc.cur \o added
  <2>1. added \in Texts /\ Said(path, added) = Said(path, text) /\ Len(added) \in Nat
    <3>1. added \in Texts /\ Said(path, added) = Said(path, text)
      BY <1>2, <1>5
    <3> QED BY <3>1, LenProperties DEF Texts
  <2>2. AddUnit(acc, u) = [bodies |-> acc.bodies, cur |-> cur, hasUnit |-> TRUE]
    <3>1. (IF acc.cur = <<>> THEN text ELSE acc.cur \o joiner \o text) = cur
      <4>1. CASE acc.cur = <<>>
        <5>1. <<>> \o text = text
          BY <1>2, ConcatEmptySeq DEF Texts
        <5> QED BY <4>1, <5>1
      <4>2. CASE acc.cur # <<>>
        <5>2. (acc.cur \o joiner) \o text = acc.cur \o (joiner \o text)
          BY <1>1, <1>2, <1>3, ThreeTexts
        <5> QED BY <4>2, <5>2
      <4> QED BY <4>1, <4>2
    <3> QED BY <1>8, <3>1, AddUnitIs
  <2>3. Len(cur) <= Target
    <3>1. CASE acc.cur = <<>>
      <4>1. cur = text
        BY <1>2, <3>1, ConcatEmptySeq DEF Texts
      <4>2. Len(text) <= Target
        <5> HIDE DEF text
        <5> QED BY <1>2, <1>4
      <4> QED BY <4>1, <4>2
    <3>2. CASE acc.cur # <<>>
      <4>1. acc.hasUnit
        BY <1>0, <3>2
      <4>2. ~(Len(acc.cur) + Len(joiner) + Len(text) > Target)
        BY <1>8, <4>1 DEF Full
      <4>3. Len(joiner \o text) = Len(joiner) + Len(text)
        BY <1>2, <1>3, ConcatProperties DEF Texts
      <4>4. Len(cur) = Len(acc.cur) + Len(joiner \o text)
        BY <1>1, <1>5, <3>2, ConcatProperties DEF Texts
      <4>5. PICK a \in Nat, b \in Nat, c \in Nat :
              a = Len(acc.cur) /\ b = Len(joiner) /\ c = Len(text)
        BY <1>1, <1>2, <1>3
      <4>6. ~(a + b + c > Target) /\ Len(cur) = a + (b + c)
        BY <4>2, <4>3, <4>4, <4>5
      <4>7. a + (b + c) <= Target
        BY <1>4, <4>6
      <4> QED BY <4>6, <4>7
    <3> QED BY <3>1, <3>2
  <2> HIDE DEF added, k, text
  <2>4. cur \in Texts
    BY <1>1, <2>1, ConcatProperties DEF Texts
  <2>5. acc.bodies # <<>> => Opens(acc.bodies[Len(acc.bodies)], cur)
    BY <1>0, <1>1, <2>1, StillOpens
  <2>6. Said(path, From(cur, k + 1)) = Said(path, From(acc.cur, k + 1)) \o Said(path, text)
    <3>1. From(cur, k + 1) = From(acc.cur, k + 1) \o added
      BY <1>1, <2>1, InConcat DEF Texts
    <3>2. From(acc.cur, k + 1) \in Texts
      BY <1>1, FromIsText
    <3> QED BY <2>1, <3>1, <3>2, SaidIs
  <2>7. Anew(path, acc.bodies) \o Said(path, From(cur, k + 1))
          = SaidByUnits(path, Append(units, u))
    <3>1. Said(path, From(acc.cur, k + 1)) \in Seq(Spoken)
      BY <1>1, FromIsText, SaidIs
    <3>2. (Anew(path, acc.bodies) \o Said(path, From(acc.cur, k + 1))) \o Said(path, text)
            = Anew(path, acc.bodies) \o (Said(path, From(acc.cur, k + 1)) \o Said(path, text))
      BY <1>5, <1>7, <3>1, ConcatAssociative
    <3>3. Anew(path, acc.bodies) \o Said(path, From(acc.cur, k + 1)) = SaidByUnits(path, units)
      BY <1>0 DEF k
    <3> QED BY <1>6, <2>6, <3>2, <3>3
  <2> HIDE DEF cur
  <2>8. PICK next : next = [bodies |-> acc.bodies, cur |-> cur, hasUnit |-> TRUE]
    OBVIOUS
  <2>9. /\ next.bodies = acc.bodies /\ next.cur = cur /\ next.hasUnit = TRUE
        /\ next \in Packing
    BY <1>1, <2>4, <2>8 DEF Packing
  <2>10. PackInv(path, next, Append(units, u))
    BY <1>0, <2>3, <2>5, <2>7, <2>9 DEF PackInv, k
  <2> QED BY <2>2, <2>8, <2>10
<1>9. CASE Full(acc, u)
  <2> DEFINE tail == TailOf(acc.cur)
             cur == IF tail = <<>> THEN text ELSE tail \o joiner \o text
             bodies == Append(acc.bodies, acc.cur)
  <2>1. AddUnit(acc, u) = [bodies |-> bodies, cur |-> cur, hasUnit |-> TRUE]
    BY <1>9, AddUnitIs
  <2>2. Len(acc.cur) + Len(joiner) + Len(text) > Target
    BY <1>9 DEF Full
  <2>3. /\ Opens(acc.cur, cur)
        /\ tail # <<>> => /\ cur \in Texts /\ Len(cur) <= Target
                          /\ From(cur, Len(tail) + 1) = joiner \o text
    <3> HIDE DEF joiner, text
    <3>1. /\ Opens(acc.cur, cur)
          /\ tail # <<>> =>
               /\ tail \o joiner \o text \in Texts /\ Len(tail \o joiner \o text) <= Target
               /\ From(tail \o joiner \o text, Len(tail) + 1) = joiner \o text
      BY <1>1, <1>2, <1>3, <2>2, OpensAfter
    <3> HIDE DEF tail
    <3> QED BY <3>1
  <2>4. cur \in Texts /\ Len(cur) <= Target
    <3>1. text \in Texts /\ Len(text) <= Target
      <4> HIDE DEF text
      <4> QED BY <1>2, <1>4
    <3> QED BY <2>3, <3>1
  <2>5. Said(path, From(cur, Len(tail) + 1)) = Said(path, text)
    <3>1. CASE tail = <<>>
      <4>1. cur = text /\ Len(tail) = 0
        BY <3>1, EmptySeq
      <4>2. From(text, 1) = text
        BY <1>2, FromTheFirst DEF Texts
      <4>3. Len(tail) + 1 = 1
        BY <4>1
      <4> QED BY <4>1, <4>2, <4>3
    <3>2. CASE tail # <<>>
      BY <1>5, <2>3, <3>2
    <3> QED BY <3>1, <3>2
  <2> HIDE DEF cur, tail, text, joiner
  <2>6. /\ bodies \in Seq(Texts) /\ bodies # <<>> /\ bodies[Len(bodies)] = acc.cur
    <3>1. /\ bodies \in Seq(Texts) /\ Len(bodies) = Len(acc.bodies) + 1
          /\ bodies[Len(acc.bodies) + 1] = acc.cur /\ Len(acc.bodies) \in Nat
      BY <1>1, AppendProperties, LenProperties
    <3>2. bodies # <<>>
      <4> HIDE DEF bodies
      <4> QED BY <3>1, EmptySeq
    <3> HIDE DEF bodies
    <3> QED BY <3>1, <3>2
  <2>7. NoLonger(bodies, Target)
    BY <1>0, <1>1, <1>4, NoLongerAppend
  <2>8. Anew(path, bodies) = SaidByUnits(path, units)
    <3> DEFINE o == IF acc.bodies = <<>> THEN 0
                    ELSE OverlapLength(acc.bodies[Len(acc.bodies)], acc.cur)
    <3>1. Anew(path, bodies) = Anew(path, acc.bodies) \o Said(path, From(acc.cur, o + 1))
      BY <1>1, AnewIs
    <3>2. o = k
      <4>1. acc.bodies # <<>> => OverlapLength(acc.bodies[Len(acc.bodies)], acc.cur)
                                   = Len(TailOf(acc.bodies[Len(acc.bodies)]))
        BY <1>0, <1>1, OverlapIs
      <4> QED BY <4>1 DEF Again
    <3> QED BY <1>0, <3>1, <3>2
  <2>9. Again(bodies) = Len(tail)
    BY <2>6 DEF Again, tail
  <2>10. Anew(path, bodies) \o Said(path, From(cur, Again(bodies) + 1))
           = SaidByUnits(path, Append(units, u))
    BY <1>6, <2>5, <2>8, <2>9
  <2> HIDE DEF bodies
  <2>11. PICK next : next = [bodies |-> bodies, cur |-> cur, hasUnit |-> TRUE]
    OBVIOUS
  <2>12. /\ next.bodies = bodies /\ next.cur = cur /\ next.hasUnit = TRUE
         /\ next \in Packing
    BY <2>4, <2>6, <2>11 DEF Packing
  <2>13. PackInv(path, next, Append(units, u))
    BY <2>3, <2>4, <2>6, <2>7, <2>10, <2>12 DEF PackInv
  <2> QED BY <2>1, <2>11, <2>13
<1> QED BY <1>8, <1>9

\* The loop of _pack, and where it begins.
PackStep == [p \in Packing \X Unit |-> AddUnit(p[1], p[2])]

\* Adding a unit is a step of the loop.
LEMMA PackStepIs ==
  /\ PackStep \in Steps(Packing, Unit)
  /\ \A acc \in Packing, u \in Unit : PackStep[<<acc, u>>] = AddUnit(acc, u)
<1>1. ASSUME NEW acc \in Packing, NEW u \in Unit PROVE AddUnit(acc, u) \in Packing
  <2>1. acc.bodies \in Seq(Texts) /\ acc.cur \in Texts /\ TailOf(acc.cur) \in Texts
    BY TailIs DEF Packing
  <2>2. u.text \in Texts /\ JoinerOf(u) \in Texts
    BY JoinerOfIs, JoinersAre DEF Unit
  <2>3. /\ acc.cur \o JoinerOf(u) \o u.text \in Texts
        /\ TailOf(acc.cur) \o JoinerOf(u) \o u.text \in Texts
        /\ Append(acc.bodies, acc.cur) \in Seq(Texts)
    BY <2>1, <2>2, ThreeTexts, AppendProperties
  <2>4. CASE ~Full(acc, u)
    <3>1. PICK cur \in Texts :
            cur = IF acc.cur = <<>> THEN u.text ELSE acc.cur \o JoinerOf(u) \o u.text
      BY <2>2, <2>3
    <3>2. AddUnit(acc, u) = [bodies |-> acc.bodies, cur |-> cur, hasUnit |-> TRUE]
      BY <2>4, <3>1, AddUnitIs, Zenon
    <3> QED BY <2>1, <3>2 DEF Packing
  <2>5. CASE Full(acc, u)
    <3>1. PICK cur \in Texts :
            cur = IF TailOf(acc.cur) = <<>> THEN u.text
                  ELSE TailOf(acc.cur) \o JoinerOf(u) \o u.text
      BY <2>2, <2>3
    <3>2. AddUnit(acc, u)
            = [bodies |-> Append(acc.bodies, acc.cur), cur |-> cur, hasUnit |-> TRUE]
      BY <2>5, <3>1, AddUnitIs, Zenon
    <3> QED BY <2>3, <3>2 DEF Packing
  <2> QED BY <2>4, <2>5
<1>2. ASSUME NEW p \in Packing \X Unit PROVE AddUnit(p[1], p[2]) \in Packing
  <2>1. p[1] \in Packing /\ p[2] \in Unit
    OBVIOUS
  <2> QED BY <1>1, <2>1
<1>3. PackStep \in Steps(Packing, Unit)
  BY <1>2 DEF PackStep, Steps
<1>4. ASSUME NEW acc \in Packing, NEW u \in Unit PROVE PackStep[<<acc, u>>] = AddUnit(acc, u)
  <2>1. /\ <<acc, u>> \in Packing \X Unit
        /\ <<acc, u>>[1] = acc /\ <<acc, u>>[2] = u
    OBVIOUS
  <2> QED BY <2>1 DEF PackStep
<1> QED BY <1>3, <1>4

Unpacked == [bodies |-> <<>>, cur |-> <<>>, hasUnit |-> FALSE]

\* The packing of units, one after another.
LEMMA PackedSays ==
  ASSUME NEW path \in Seq(Texts), NEW units \in Seq(ShortUnit)
  PROVE  PackInv(path, TakenIn(PackStep, Unpacked, units), units)
<1> DEFINE T == {us \in Seq(ShortUnit) : PackInv(path, TakenIn(PackStep, Unpacked, us), us)}
<1>0. <<>> \in Seq(Texts) /\ <<>> \in Texts /\ Len(<<>>) = 0 /\ <<>> \in Seq(ShortUnit)
  BY EmptySeq DEF Texts
<1>1. Unpacked \in Packing
  BY <1>0 DEF Unpacked, Packing
<1>2. /\ TakenIn(PackStep, Unpacked, <<>>) = Unpacked
      /\ \A us \in Seq(Unit) : TakenIn(PackStep, Unpacked, us) \in Packing
      /\ \A us \in Seq(Unit), u \in Unit :
           TakenIn(PackStep, Unpacked, Append(us, u))
             = PackStep[<<TakenIn(PackStep, Unpacked, us), u>>]
  BY <1>1, PackStepIs, TakenInSteps
<1>3. <<>> \in T
  <2>1. Unpacked.bodies = <<>> /\ Unpacked.cur = <<>> /\ Unpacked.hasUnit = FALSE
    BY DEF Unpacked
  <2>2. NoLonger(<<>>, Target) /\ Len(<<>>) <= Target
    BY <1>0, Sizes DEF NoLonger
  <2>3. Anew(path, <<>>) \o Said(path, From(<<>>, Again(<<>>) + 1)) = SaidByUnits(path, <<>>)
    <3>1. Anew(path, <<>>) = <<>> /\ SaidByUnits(path, <<>>) = <<>> /\ Said(path, <<>>) = <<>>
      BY AnewIs, SaidByUnitsIs, SaidIs
    <3>2. Again(<<>>) + 1 = 1
      BY DEF Again
    <3>3. From(<<>>, 1) = <<>>
      BY <1>0, FromTheFirst DEF Texts
    <3>4. <<>> \o <<>> = <<>>
      BY <1>0, ConcatEmptySeq
    <3> QED BY <3>1, <3>2, <3>3, <3>4
  <2>4. PackInv(path, Unpacked, <<>>)
    BY <1>1, <2>1, <2>2, <2>3 DEF PackInv
  <2>5. PackInv(path, TakenIn(PackStep, Unpacked, <<>>), <<>>)
    BY <1>2, <2>4
  <2> QED BY <1>0, <2>5, Zenon
<1>4. ASSUME NEW us \in Seq(ShortUnit), NEW u \in ShortUnit, us \in T PROVE Append(us, u) \in T
  <2>1. PackInv(path, TakenIn(PackStep, Unpacked, us), us)
    BY <1>4
  <2>2. us \in Seq(Unit) /\ u \in Unit /\ Append(us, u) \in Seq(ShortUnit)
    <3>1. ShortUnit \subseteq Unit
      BY DEF ShortUnit
    <3> QED BY <3>1, SeqOfMore, AppendProperties
  <2>3. PackInv(path, AddUnit(TakenIn(PackStep, Unpacked, us), u), Append(us, u))
    BY <2>1, AddUnitKeeps
  <2>4. TakenIn(PackStep, Unpacked, Append(us, u)) = AddUnit(TakenIn(PackStep, Unpacked, us), u)
    BY <1>2, <2>2, PackStepIs
  <2>5. PackInv(path, TakenIn(PackStep, Unpacked, Append(us, u)), Append(us, u))
    BY <2>3, <2>4
  <2> QED BY <2>2, <2>5, Zenon
<1>5. Seq(ShortUnit) \subseteq T
  <2> HIDE DEF T
  <2> QED BY <1>3, <1>4, OnSequences
<1> QED BY <1>5

\* Packing loses nothing, says nothing twice but what overlaps, and goes over no size.
LEMMA PackKeeps ==
  ASSUME NEW path \in Seq(Texts), NEW paragraphs \in Seq(Texts)
  PROVE  /\ Pack(paragraphs) \in Seq(Texts) /\ NoLonger(Pack(paragraphs), Target)
         /\ Anew(path, Pack(paragraphs)) = SaidByAll(path, paragraphs)
         /\ paragraphs = <<>> => Pack(paragraphs) = <<>>
<1> DEFINE units == AllUnits(paragraphs)
           acc == TakenIn(PackStep, Unpacked, units)
<1>1. /\ units \in Seq(ShortUnit)
      /\ SaidByUnits(path, units) = SaidByAll(path, paragraphs)
      /\ paragraphs = <<>> => units = <<>>
  BY AllUnitsAre
<1>2. Pack(paragraphs) = IF acc.hasUnit /\ Strip(acc.cur) # <<>> THEN Append(acc.bodies, acc.cur)
                         ELSE acc.bodies
  BY DEF Pack, AllUnits, PackStep, Unpacked
<1> HIDE DEF units
<1>3. PackInv(path, acc, units)
  BY <1>1, PackedSays
<1>4. paragraphs = <<>> => acc = Unpacked
  <2>1. Unpacked \in Packing
    BY EmptySeq DEF Unpacked, Packing, Texts
  <2>2. TakenIn(PackStep, Unpacked, <<>>) = Unpacked
    BY <2>1, PackStepIs, TakenInSteps
  <2> QED BY <1>1, <2>2
<1> HIDE DEF acc
<1>5. /\ acc \in Packing /\ NoLonger(acc.bodies, Target) /\ Len(acc.cur) <= Target
      /\ ~acc.hasUnit => acc.bodies = <<>> /\ acc.cur = <<>>
      /\ acc.bodies # <<>> => Opens(acc.bodies[Len(acc.bodies)], acc.cur)
      /\ Anew(path, acc.bodies) \o Said(path, From(acc.cur, Again(acc.bodies) + 1))
           = SaidByUnits(path, units)
  BY <1>3 DEF PackInv
<1> DEFINE k == Again(acc.bodies)
<1>6. /\ acc.bodies \in Seq(Texts) /\ acc.cur \in Texts /\ Len(acc.cur) \in Nat
      /\ acc.bodies # <<>> => acc.bodies[Len(acc.bodies)] \in Texts
      /\ k \in Nat /\ k \in 0..Len(acc.cur)
  <2>1. /\ acc.bodies \in Seq(Texts) /\ acc.cur \in Texts /\ Len(acc.cur) \in Nat
        /\ acc.bodies # <<>> => acc.bodies[Len(acc.bodies)] \in Texts
        /\ k \in Nat /\ (acc.bodies # <<>> => k <= Len(acc.cur))
    BY <1>5, PackingIs
  <2>2. acc.bodies = <<>> => k = 0
    BY DEF Again
  <2> QED BY <2>1, <2>2
<1>7. Target \in Nat /\ Anew(path, acc.bodies) \in Seq(Spoken)
  BY <1>6, Sizes, AnewIs
<1>8. CASE acc.hasUnit /\ Strip(acc.cur) # <<>>
  <2> DEFINE o == IF acc.bodies = <<>> THEN 0
                  ELSE OverlapLength(acc.bodies[Len(acc.bodies)], acc.cur)
  <2>1. Anew(path, Append(acc.bodies, acc.cur))
          = Anew(path, acc.bodies) \o Said(path, From(acc.cur, o + 1))
    BY <1>6, AnewIs
  <2>2. o = k
    <3>1. acc.bodies # <<>> => OverlapLength(acc.bodies[Len(acc.bodies)], acc.cur)
                                 = Len(TailOf(acc.bodies[Len(acc.bodies)]))
      BY <1>5, <1>6, OverlapIs
    <3> QED BY <3>1 DEF Again
  <2>3. Anew(path, Append(acc.bodies, acc.cur)) = SaidByAll(path, paragraphs)
    BY <1>1, <1>5, <2>1, <2>2
  <2>4. /\ NoLonger(Append(acc.bodies, acc.cur), Target)
        /\ Append(acc.bodies, acc.cur) \in Seq(Texts)
    BY <1>5, <1>6, <1>7, NoLongerAppend, AppendProperties
  <2>5. paragraphs # <<>>
    BY <1>4, <1>8 DEF Unpacked
  <2> QED BY <1>2, <1>8, <2>3, <2>4, <2>5
<1>9. CASE ~(acc.hasUnit /\ Strip(acc.cur) # <<>>)
  <2>1. Said(path, acc.cur) = <<>>
    <3>1. CASE ~acc.hasUnit
      BY <1>5, <3>1, SaidIs
    <3>2. CASE Strip(acc.cur) = <<>>
      BY <1>6, <3>2, StripKeeps, SaidIs
    <3> QED BY <1>9, <3>1, <3>2
  <2>2. Said(path, From(acc.cur, k + 1)) = <<>>
    <3> HIDE DEF k
    <3>1. SubSeq(acc.cur, 1, k) \in Texts /\ From(acc.cur, k + 1) \in Texts
      BY <1>6, FromTheNext
    <3>2. /\ Said(path, SubSeq(acc.cur, 1, k)) \in Seq(Spoken)
          /\ Said(path, From(acc.cur, k + 1)) \in Seq(Spoken)
      BY <3>1, SaidIs
    <3>3. Said(path, SubSeq(acc.cur, 1, k)) \o Said(path, From(acc.cur, k + 1)) = <<>>
      BY <1>6, <2>1, SaidInTwo
    <3> QED BY <3>2, <3>3, ConcatEqualIffEmpty
  <2>3. Anew(path, acc.bodies) \o <<>> = Anew(path, acc.bodies)
    BY <1>7, ConcatEmptySeq
  <2>4. Anew(path, acc.bodies) = SaidByAll(path, paragraphs)
    BY <1>1, <1>5, <2>2, <2>3
  <2>5. paragraphs = <<>> => acc.bodies = <<>>
    BY <1>4 DEF Unpacked
  <2>6. Pack(paragraphs) = acc.bodies
    BY <1>2, <1>9
  <2> QED BY <1>5, <1>6, <2>4, <2>5, <2>6
<1> QED BY <1>8, <1>9

-----------------------------------------------------------------------------
(* Paragraphs: they say what their lines do *)

\* What is taken of a sequence, and nothing else of it.
LEMMA OnlyIs ==
  ASSUME NEW A, NEW S
  PROVE  /\ Only(<<>>, S) = <<>>
         /\ \A s \in Seq(A) : Only(s, S) \in Seq(A \cap S)
         /\ \A s \in Seq(A), a \in A :
              Only(Append(s, a), S) = IF a \in S THEN Append(Only(s, S), a) ELSE Only(s, S)
<1> DEFINE F == [a \in A |-> IF a \in S THEN <<a>> ELSE <<>>]
           B == A \cap S
<1>1. F \in Maps(A, Seq(B)) /\ \A a \in A : F[a] = IF a \in S THEN <<a>> ELSE <<>>
  <2>1. ASSUME NEW a \in A PROVE (IF a \in S THEN <<a>> ELSE <<>>) \in Seq(B)
    <3>1. CASE a \in S
      BY <3>1
    <3>2. CASE a \notin S
      BY <3>2, EmptySeq
    <3> QED BY <3>1, <3>2
  <2> HIDE DEF B
  <2> QED BY <2>1 DEF Maps
<1>2. ASSUME NEW s \in Seq(A) PROVE Only(s, S) = FlattenSeq(Mapped(F, s))
  <2>1. \A i \in DOMAIN s : s[i] \in A
    BY LenProperties, ElementOfSeq
  <2>2. Mapped(F, s) = [i \in DOMAIN s |-> IF s[i] \in S THEN <<s[i]>> ELSE <<>>]
    BY <2>1 DEF Mapped
  <2> QED BY <2>2 DEF Only
<1> HIDE DEF F, B
<1>3. /\ FlattenSeq(Mapped(F, <<>>)) = <<>>
      /\ \A s \in Seq(A) : FlattenSeq(Mapped(F, s)) \in Seq(B)
      /\ \A s \in Seq(A), a \in A :
           FlattenSeq(Mapped(F, Append(s, a))) = FlattenSeq(Mapped(F, s)) \o F[a]
  BY <1>1, FlatMapped
<1>4. Only(<<>>, S) = <<>>
  <2>1. <<>> \in Seq(A)
    BY EmptySeq
  <2> QED BY <1>2, <1>3, <2>1, Zenon
<1>5. \A s \in Seq(A) : Only(s, S) \in Seq(B)
  BY <1>2, <1>3, Zenon
<1>6. ASSUME NEW s \in Seq(A), NEW a \in A
      PROVE  Only(Append(s, a), S) = IF a \in S THEN Append(Only(s, S), a) ELSE Only(s, S)
  <2>1. Append(s, a) \in Seq(A)
    BY AppendProperties
  <2>2. Only(Append(s, a), S) = Only(s, S) \o F[a]
    BY <1>2, <1>3, <2>1, Zenon
  <2>3. Only(s, S) \in Seq(B)
    BY <1>5
  <2>4. CASE a \in S
    <3>1. a \in B /\ F[a] = <<a>>
      BY <1>1, <2>4 DEF B
    <3>2. Append(Only(s, S), a) = Only(s, S) \o <<a>>
      BY <2>3, <3>1, AppendIsConcat
    <3> QED BY <2>2, <2>4, <3>1, <3>2
  <2>5. CASE a \notin S
    <3>1. F[a] = <<>>
      BY <1>1, <2>5
    <3>2. Only(s, S) \o <<>> = Only(s, S)
      BY <2>3, ConcatEmptySeq
    <3> QED BY <2>2, <2>5, <3>1, <3>2
  <2> QED BY <2>4, <2>5
<1> QED BY <1>4, <1>5, <1>6 DEF B

\* The fields of a line.
LEMMA LineIs ==
  ASSUME NEW line \in Line
  PROVE  /\ line.text \in Texts
         /\ line.kind = "fence" => line.fence \in {"tick", "tilde"} \X Nat
         /\ line.kind = "heading" => line.level \in Nat /\ line.title \in Titled
         /\ line.kind \in {"text", "fence", "heading"}
<1>1. CASE line \in [kind : {"text"}, text : Texts]
  BY <1>1
<1>2. CASE line \in [kind : {"fence"}, text : Texts, fence : {"tick", "tilde"} \X Nat]
  BY <1>2
<1>3. CASE line \in [kind : {"heading"}, text : Texts, level : Nat, title : Titled]
  BY <1>3
<1> QED BY <1>1, <1>2, <1>3 DEF Line

\* After a line a fence is open or none is.
LEMMA FenceAfterIs ==
  ASSUME NEW fence \in Fenced, NEW line \in Line
  PROVE  FenceAfter(fence, line) \in Fenced
<1>1. line.kind = "fence" => line.fence \in {"tick", "tilde"} \X Nat
  BY LineIs
<1>2. FenceAfter(fence, line) = fence \/ FenceAfter(fence, line) = <<>>
        \/ (line.kind = "fence" /\ FenceAfter(fence, line) = line.fence)
  BY DEF FenceAfter
<1>3. \A f : f \in Fenced <=> f = <<>> \/ f \in {"tick", "tilde"} \X Nat
  BY DEF Fenced
<1> QED BY <1>1, <1>2, <1>3

\* What lines say under one path.
SaidByLines(path, lines) == FlattenSeq(Mapped([l \in Line |-> Said(path, l.text)], lines))

\* What lines say is what each of them does, in order.
LEMMA SaidByLinesIs ==
  ASSUME NEW path \in Seq(Texts)
  PROVE  /\ SaidByLines(path, <<>>) = <<>>
         /\ \A ls \in Seq(Line) : SaidByLines(path, ls) \in Seq(Spoken)
         /\ \A ls \in Seq(Line), l \in Line :
              SaidByLines(path, Append(ls, l)) = SaidByLines(path, ls) \o Said(path, l.text)
<1> DEFINE F == [l \in Line |-> Said(path, l.text)]
<1>1. F \in Maps(Line, Seq(Spoken)) /\ \A l \in Line : F[l] = Said(path, l.text)
  <2>1. ASSUME NEW l \in Line PROVE Said(path, l.text) \in Seq(Spoken)
    BY LineIs, SaidIs
  <2> QED BY <2>1 DEF Maps
<1>2. \A ls : SaidByLines(path, ls) = FlattenSeq(Mapped(F, ls))
  BY DEF SaidByLines
<1> HIDE DEF F
<1>3. /\ FlattenSeq(Mapped(F, <<>>)) = <<>>
      /\ \A ls \in Seq(Line) : FlattenSeq(Mapped(F, ls)) \in Seq(Spoken)
      /\ \A ls \in Seq(Line), l \in Line :
           FlattenSeq(Mapped(F, Append(ls, l))) = FlattenSeq(Mapped(F, ls)) \o F[l]
  BY <1>1, FlatMapped
<1> QED BY <1>1, <1>2, <1>3, Zenon

\* The paragraphs so far, and the open one, say what the lines did.
PartInv(path, acc, lines) ==
  /\ acc \in Parting
  /\ SaidByAll(path, acc.paragraphs) \o Said(path, acc.cur) = SaidByLines(path, lines)

\* A line is parted from what is before it, or added to it.
LEMMA AddLineIs ==
  ASSUME NEW acc \in Parting, NEW line \in Line
  PROVE  \/ /\ AddLine(acc, line) = [paragraphs |-> Append(acc.paragraphs, acc.cur),
                                     cur |-> <<>>, fence |-> acc.fence]
            /\ Visible(line.text) = {}
         \/ \E text \in {line.text, RStrip(line.text)} :
              AddLine(acc, line) =
                [paragraphs |-> acc.paragraphs,
                 cur   |-> IF acc.cur = <<>> THEN text ELSE acc.cur \o <<"/">> \o text,
                 fence |-> FenceAfter(acc.fence, line)]
<1> DEFINE code == acc.fence # <<>> \/ line.kind = "fence"
           text == IF code THEN line.text ELSE RStrip(line.text)
<1>1. acc = [paragraphs |-> acc.paragraphs, cur |-> acc.cur, fence |-> acc.fence]
  BY DEF Parting
<1>2. CASE ~code /\ text = <<>>
  <2>1. AddLine(acc, line) = [acc EXCEPT !.paragraphs = Append(@, acc.cur), !.cur = <<>>]
    BY <1>2 DEF AddLine
  <2>2. AddLine(acc, line) = [paragraphs |-> Append(acc.paragraphs, acc.cur),
                              cur |-> <<>>, fence |-> acc.fence]
    BY <1>1, <2>1
  <2>3. Visible(line.text) = {}
    <3>1. PICK path \in Seq(Texts) : path = <<>>
      BY EmptySeq
    <3>2. line.text \in Texts /\ RStrip(line.text) = <<>>
      BY <1>2, LineIs
    <3>3. Said(path, line.text) = <<>>
      BY <3>2, RStripKeeps, SaidIs
    <3> QED BY <3>2, <3>3, SaidNothing
  <2> QED BY <2>2, <2>3
<1>3. CASE ~(~code /\ text = <<>>)
  <2>1. AddLine(acc, line)
          = [acc EXCEPT !.cur = IF @ = <<>> THEN text ELSE @ \o <<"/">> \o text,
                        !.fence = FenceAfter(@, line)]
    BY <1>3 DEF AddLine
  <2>2. text \in {line.text, RStrip(line.text)}
    OBVIOUS
  <2> HIDE DEF text
  <2>3. AddLine(acc, line) =
          [paragraphs |-> acc.paragraphs,
           cur   |-> IF acc.cur = <<>> THEN text ELSE acc.cur \o <<"/">> \o text,
           fence |-> FenceAfter(acc.fence, line)]
    BY <1>1, <2>1
  <2> QED BY <2>2, <2>3
<1> QED BY <1>2, <1>3

\* A line more is said by the paragraphs and by the one that is open.
LEMMA AddLineSays ==
  ASSUME NEW path \in Seq(Texts), NEW acc \in Parting, NEW line \in Line
  PROVE  /\ AddLine(acc, line) \in Parting
         /\ SaidByAll(path, AddLine(acc, line).paragraphs)
                \o Said(path, AddLine(acc, line).cur)
              = (SaidByAll(path, acc.paragraphs) \o Said(path, acc.cur)) \o Said(path, line.text)
<1>1. /\ acc.paragraphs \in Seq(Texts) /\ acc.cur \in Texts /\ acc.fence \in Fenced
      /\ line.text \in Texts /\ <<>> \in Texts
  BY LineIs, EmptySeq DEF Parting, Texts
<1>2. /\ SaidByAll(path, acc.paragraphs) \in Seq(Spoken) /\ Said(path, acc.cur) \in Seq(Spoken)
      /\ Said(path, line.text) \in Seq(Spoken)
  BY <1>1, SaidByAllIs, SaidIs
<1>3. /\ SaidByAll(path, acc.paragraphs) \o Said(path, acc.cur) \in Seq(Spoken)
      /\ (SaidByAll(path, acc.paragraphs) \o Said(path, acc.cur)) \o Said(path, line.text)
           = SaidByAll(path, acc.paragraphs) \o (Said(path, acc.cur) \o Said(path, line.text))
  BY <1>2, ConcatProperties, ConcatAssociative
<1>4. CASE /\ AddLine(acc, line) = [paragraphs |-> Append(acc.paragraphs, acc.cur),
                                    cur |-> <<>>, fence |-> acc.fence]
           /\ Visible(line.text) = {}
  <2>1. PICK next : next = AddLine(acc, line)
    OBVIOUS
  <2>2. /\ next.paragraphs = Append(acc.paragraphs, acc.cur) /\ next.cur = <<>>
        /\ next \in Parting
    <3>1. Append(acc.paragraphs, acc.cur) \in Seq(Texts)
      BY <1>1, AppendProperties
    <3> QED BY <1>1, <1>4, <2>1, <3>1 DEF Parting
  <2>3. Said(path, line.text) = <<>> /\ Said(path, <<>>) = <<>>
    BY <1>1, <1>4, SaidNothing, SaidIs
  <2>4. SaidByAll(path, next.paragraphs) = SaidByAll(path, acc.paragraphs) \o Said(path, acc.cur)
    <3>1. SaidByAll(path, Append(acc.paragraphs, acc.cur))
            = SaidByAll(path, acc.paragraphs) \o Said(path, acc.cur)
      BY <1>1, SaidByAllIs
    <3> QED BY <2>2, <3>1
  <2> QED BY <2>1, <2>2, <2>3, <2>4
<1>5. ASSUME NEW text \in {line.text, RStrip(line.text)},
             AddLine(acc, line) =
               [paragraphs |-> acc.paragraphs,
                cur   |-> IF acc.cur = <<>> THEN text ELSE acc.cur \o <<"/">> \o text,
                fence |-> FenceAfter(acc.fence, line)]
      PROVE  /\ AddLine(acc, line) \in Parting
             /\ SaidByAll(path, AddLine(acc, line).paragraphs)
                    \o Said(path, AddLine(acc, line).cur)
                  = (SaidByAll(path, acc.paragraphs) \o Said(path, acc.cur))
                      \o Said(path, line.text)
  <2> DEFINE cur == IF acc.cur = <<>> THEN text ELSE acc.cur \o <<"/">> \o text
  <2>1. text \in Texts /\ Said(path, text) = Said(path, line.text)
    BY <1>1, RStripKeeps
  <2>2. /\ <<"/">> \in Texts /\ Said(path, <<"/">>) = <<>>
    BY Whites, SaidNothing
  <2>3. cur \in Texts /\ Said(path, cur) = Said(path, acc.cur) \o Said(path, line.text)
    <3>1. CASE acc.cur = <<>>
      <4>1. Said(path, acc.cur) = <<>>
        BY <3>1, SaidIs
      <4>2. <<>> \o Said(path, line.text) = Said(path, line.text)
        BY <1>2, ConcatEmptySeq
      <4> QED BY <2>1, <3>1, <4>1, <4>2
    <3>2. CASE acc.cur # <<>>
      <4>1. PICK j \in Texts : j = <<"/">>
        BY <2>2
      <4>2. /\ acc.cur \o j \o text \in Texts /\ j \o text \in Texts
            /\ acc.cur \o j \o text = acc.cur \o (j \o text)
        <5>1. PICK a \in Texts, t \in Texts : a = acc.cur /\ t = text
          BY <1>1, <2>1
        <5>2. (a \o j) \o t = a \o (j \o t) /\ j \o t \in Texts /\ a \o j \o t \in Texts
          BY ThreeTexts
        <5> QED BY <5>1, <5>2, Zenon
      <4>3. Said(path, acc.cur \o (j \o text)) = Said(path, acc.cur) \o Said(path, j \o text)
        BY <1>1, <4>2, SaidIs
      <4>4. Said(path, j \o text) = Said(path, j) \o Said(path, text)
        BY <2>1, SaidIs
      <4>5. Said(path, j) \o Said(path, text) = Said(path, line.text)
        BY <1>2, <2>1, <2>2, <4>1, ConcatEmptySeq
      <4>6. Said(path, acc.cur \o j \o text) = Said(path, acc.cur) \o Said(path, line.text)
        BY <4>2, <4>3, <4>4, <4>5
      <4> QED BY <3>2, <4>1, <4>2, <4>6
    <3> QED BY <3>1, <3>2
  <2> HIDE DEF cur
  <2>4. AddLine(acc, line) = [paragraphs |-> acc.paragraphs, cur |-> cur,
                              fence |-> FenceAfter(acc.fence, line)]
    BY <1>5 DEF cur
  <2>5. PICK next : next = AddLine(acc, line)
    OBVIOUS
  <2>6. next.paragraphs = acc.paragraphs /\ next.cur = cur /\ next \in Parting
    BY <1>1, <2>3, <2>4, <2>5, FenceAfterIs DEF Parting
  <2> QED BY <1>3, <2>3, <2>5, <2>6
<1> QED BY <1>4, <1>5, AddLineIs

\* The loop of _paragraphs, and where it begins.
PartStep == [p \in Parting \X Line |-> AddLine(p[1], p[2])]

Unparted == [paragraphs |-> <<>>, cur |-> <<>>, fence |-> <<>>]

\* Adding a line is a step of the loop.
LEMMA PartStepIs ==
  /\ PartStep \in Steps(Parting, Line) /\ Unparted \in Parting
  /\ \A acc \in Parting, line \in Line : PartStep[<<acc, line>>] = AddLine(acc, line)
<1>1. ASSUME NEW acc \in Parting, NEW line \in Line PROVE AddLine(acc, line) \in Parting
  <2>1. PICK path \in Seq(Texts) : path = <<>>
    BY EmptySeq
  <2> QED BY AddLineSays
<1>2. ASSUME NEW p \in Parting \X Line PROVE AddLine(p[1], p[2]) \in Parting
  <2>1. p[1] \in Parting /\ p[2] \in Line
    OBVIOUS
  <2> QED BY <1>1, <2>1
<1>3. PartStep \in Steps(Parting, Line)
  BY <1>2 DEF PartStep, Steps
<1>4. ASSUME NEW acc \in Parting, NEW line \in Line
      PROVE  PartStep[<<acc, line>>] = AddLine(acc, line)
  <2>1. /\ <<acc, line>> \in Parting \X Line
        /\ <<acc, line>>[1] = acc /\ <<acc, line>>[2] = line
    OBVIOUS
  <2> QED BY <2>1 DEF PartStep
<1>5. Unparted \in Parting
  <2>1. <<>> \in Seq(Texts) /\ <<>> \in Texts /\ <<>> \in Fenced
    BY EmptySeq DEF Texts, Fenced
  <2> QED BY <2>1 DEF Unparted, Parting
<1> QED BY <1>3, <1>4, <1>5

\* The loop over the lines keeps what they say.
LEMMA PartedSays ==
  ASSUME NEW path \in Seq(Texts), NEW lines \in Seq(Line)
  PROVE  PartInv(path, TakenIn(PartStep, Unparted, lines), lines)
<1> DEFINE T == {ls \in Seq(Line) : PartInv(path, TakenIn(PartStep, Unparted, ls), ls)}
<1>1. /\ TakenIn(PartStep, Unparted, <<>>) = Unparted
      /\ \A ls \in Seq(Line) : TakenIn(PartStep, Unparted, ls) \in Parting
      /\ \A ls \in Seq(Line), l \in Line :
           TakenIn(PartStep, Unparted, Append(ls, l))
             = PartStep[<<TakenIn(PartStep, Unparted, ls), l>>]
  BY PartStepIs, TakenInSteps
<1>2. <<>> \in T
  <2>1. Unparted.paragraphs = <<>> /\ Unparted.cur = <<>>
    BY DEF Unparted
  <2>2. SaidByAll(path, <<>>) = <<>> /\ Said(path, <<>>) = <<>> /\ SaidByLines(path, <<>>) = <<>>
    BY SaidByAllIs, SaidIs, SaidByLinesIs
  <2>3. <<>> \o <<>> = <<>> /\ <<>> \in Seq(Line)
    BY EmptySeq, ConcatEmptySeq
  <2>4. SaidByAll(path, Unparted.paragraphs) \o Said(path, Unparted.cur)
          = SaidByLines(path, <<>>)
    BY <2>1, <2>2, <2>3
  <2>5. PartInv(path, TakenIn(PartStep, Unparted, <<>>), <<>>)
    BY <1>1, <2>4, PartStepIs DEF PartInv
  <2> QED BY <2>3, <2>5, Zenon
<1>3. ASSUME NEW ls \in Seq(Line), NEW l \in Line, ls \in T PROVE Append(ls, l) \in T
  <2>1. PICK acc \in Parting : acc = TakenIn(PartStep, Unparted, ls)
    BY <1>1
  <2>2. SaidByAll(path, acc.paragraphs) \o Said(path, acc.cur) = SaidByLines(path, ls)
    BY <1>3, <2>1 DEF PartInv
  <2>3. TakenIn(PartStep, Unparted, Append(ls, l)) = AddLine(acc, l)
    BY <1>1, <2>1, PartStepIs
  <2>4. SaidByLines(path, Append(ls, l)) = SaidByLines(path, ls) \o Said(path, l.text)
    BY SaidByLinesIs
  <2>5. /\ AddLine(acc, l) \in Parting
        /\ SaidByAll(path, AddLine(acc, l).paragraphs) \o Said(path, AddLine(acc, l).cur)
             = (SaidByAll(path, acc.paragraphs) \o Said(path, acc.cur)) \o Said(path, l.text)
    BY AddLineSays
  <2>6. PartInv(path, TakenIn(PartStep, Unparted, Append(ls, l)), Append(ls, l))
    BY <2>2, <2>3, <2>4, <2>5 DEF PartInv
  <2>7. Append(ls, l) \in Seq(Line)
    BY AppendProperties
  <2> QED BY <2>6, <2>7, Zenon
<1>4. Seq(Line) \subseteq T
  <2> HIDE DEF T
  <2> QED BY <1>2, <1>3, OnSequences
<1> QED BY <1>4

\* The texts in which something is visible.
Wordy == {t \in Texts : Visible(t) # {}}

\* Texts that are white say nothing among others.
LEMMA OnlyVisibleSays ==
  ASSUME NEW path \in Seq(Texts), NEW texts \in Seq(Texts)
  PROVE  /\ Only(texts, Wordy) \in Seq(Texts)
         /\ SaidByAll(path, Only(texts, Wordy)) = SaidByAll(path, texts)
         /\ SaidByAll(path, texts) = <<>> => Only(texts, Wordy) = <<>>
<1>1. Only(<<>>, Wordy) = <<>>
  BY OnlyIs
<1>2. \A ts \in Seq(Texts) : Only(ts, Wordy) \in Seq(Texts \cap Wordy)
  BY OnlyIs
<1>3. \A ts \in Seq(Texts), t \in Texts :
        Only(Append(ts, t), Wordy)
          = IF t \in Wordy THEN Append(Only(ts, Wordy), t) ELSE Only(ts, Wordy)
  BY OnlyIs
<1>4. \A ts \in Seq(Texts) : Only(ts, Wordy) \in Seq(Texts) /\ Only(ts, Wordy) \in Seq(Wordy)
  <2>1. Texts \cap Wordy \subseteq Texts /\ Texts \cap Wordy \subseteq Wordy
    OBVIOUS
  <2>2. Seq(Texts \cap Wordy) \subseteq Seq(Texts) /\ Seq(Texts \cap Wordy) \subseteq Seq(Wordy)
    BY <2>1, SeqOfMore
  <2> QED BY <1>2, <2>2
<1> DEFINE T == {ts \in Seq(Texts) : SaidByAll(path, Only(ts, Wordy)) = SaidByAll(path, ts)}
<1>5. <<>> \in T
  <2>1. <<>> \in Seq(Texts)
    BY EmptySeq
  <2>2. SaidByAll(path, Only(<<>>, Wordy)) = SaidByAll(path, <<>>)
    BY <1>1
  <2> QED BY <2>1, <2>2, Zenon
<1>6. ASSUME NEW ts \in Seq(Texts), NEW t \in Texts, ts \in T PROVE Append(ts, t) \in T
  <2>1. SaidByAll(path, Only(ts, Wordy)) = SaidByAll(path, ts)
    BY <1>6
  <2>2. SaidByAll(path, Append(ts, t)) = SaidByAll(path, ts) \o Said(path, t)
    BY SaidByAllIs
  <2>3. SaidByAll(path, Only(Append(ts, t), Wordy)) = SaidByAll(path, Append(ts, t))
    <3>1. CASE t \in Wordy
      <4>1. SaidByAll(path, Append(Only(ts, Wordy), t))
              = SaidByAll(path, Only(ts, Wordy)) \o Said(path, t)
        BY <1>4, SaidByAllIs
      <4> QED BY <1>3, <2>1, <2>2, <3>1, <4>1
    <3>2. CASE t \notin Wordy
      <4>1. Said(path, t) = <<>> /\ SaidByAll(path, ts) \in Seq(Spoken)
        <5>1. Visible(t) = {}
          BY <3>2 DEF Wordy
        <5> QED BY <5>1, SaidNothing, SaidByAllIs
      <4>2. SaidByAll(path, ts) \o <<>> = SaidByAll(path, ts)
        BY <4>1, ConcatEmptySeq
      <4> QED BY <1>3, <2>1, <2>2, <3>2, <4>1, <4>2
    <3> QED BY <3>1, <3>2
  <2>4. Append(ts, t) \in Seq(Texts)
    BY AppendProperties
  <2> QED BY <2>3, <2>4, Zenon
<1>7. Seq(Texts) \subseteq T
  <2> HIDE DEF T
  <2> QED BY <1>5, <1>6, OnSequences
<1>8. SaidByAll(path, Only(texts, Wordy)) = SaidByAll(path, texts)
  BY <1>7
<1>9. ASSUME Only(texts, Wordy) # <<>> PROVE SaidByAll(path, texts) # <<>>
  <2>1. Only(texts, Wordy) \in Seq(Wordy)
    BY <1>4
  <2>2. PICK ts \in Seq(Wordy), t \in Wordy : Only(texts, Wordy) = Append(ts, t)
    BY <1>9, <2>1, SequenceEmptyOrAppend
  <2>3. t \in Texts /\ Visible(t) # {} /\ ts \in Seq(Texts)
    <3>1. Wordy \subseteq Texts /\ Visible(t) # {}
      BY DEF Wordy
    <3>2. Seq(Wordy) \subseteq Seq(Texts)
      BY <3>1, SeqOfMore
    <3> QED BY <2>2, <3>1, <3>2
  <2>4. /\ Said(path, t) # <<>> /\ Said(path, t) \in Seq(Spoken)
        /\ SaidByAll(path, ts) \in Seq(Spoken)
    BY <2>3, SaidNothing, SaidIs, SaidByAllIs
  <2>5. SaidByAll(path, Only(texts, Wordy)) = SaidByAll(path, ts) \o Said(path, t)
    <3>1. SaidByAll(path, Append(ts, t)) = SaidByAll(path, ts) \o Said(path, t)
      BY <2>3, SaidByAllIs
    <3> QED BY <2>2, <3>1
  <2> QED BY <1>8, <2>4, <2>5, ConcatEqualIffEmpty
<1> QED BY <1>4, <1>8, <1>9

\* The paragraphs of a section say what its lines say, and there are none if they say nothing.
LEMMA ParagraphsKeep ==
  ASSUME NEW path \in Seq(Texts), NEW section \in Seq(Line)
  PROVE  /\ Paragraphs(section) \in Seq(Texts)
         /\ SaidByAll(path, Paragraphs(section)) = SaidByLines(path, section)
         /\ SaidByLines(path, section) = <<>> => Paragraphs(section) = <<>>
<1> DEFINE acc == TakenIn(PartStep, Unparted, section)
           all == Append(acc.paragraphs, acc.cur)
           trim == [n \in DOMAIN all |-> Trimmed(all[n], {i \in DOMAIN all[n] : all[n][i] # "/"})]
           F == [t \in Texts |-> Said(path, t)]
<1>1. Paragraphs(section) = Only(trim, Wordy)
  BY DEF Paragraphs, PartStep, Unparted, Wordy
<1>2. PartInv(path, acc, section)
  BY PartedSays
<1> HIDE DEF acc
<1>3. /\ acc.paragraphs \in Seq(Texts) /\ acc.cur \in Texts
      /\ SaidByAll(path, acc.paragraphs) \o Said(path, acc.cur) = SaidByLines(path, section)
  BY <1>2 DEF PartInv, Parting
<1>4. all \in Seq(Texts) /\ SaidByAll(path, all) = SaidByLines(path, section)
  BY <1>3, AppendProperties, SaidByAllIs
<1> HIDE DEF all
<1>5. Len(all) \in Nat /\ DOMAIN all = 1..Len(all) /\ \A n \in 1..Len(all) : all[n] \in Texts
  BY <1>4, LenProperties, ElementOfSeq
<1>6. ASSUME NEW n \in 1..Len(all)
      PROVE  trim[n] \in Texts /\ Said(path, trim[n]) = Said(path, all[n])
  <2> DEFINE kept == {i \in DOMAIN all[n] : all[n][i] # "/"}
  <2>1. all[n] \in Texts /\ DOMAIN all[n] = 1..Len(all[n])
    BY <1>5, LenProperties DEF Texts
  <2>2. kept \subseteq 1..Len(all[n]) /\ Visible(all[n]) \subseteq kept
    BY <2>1 DEF Visible, White
  <2>3. trim[n] = Trimmed(all[n], kept)
    BY <1>5
  <2> HIDE DEF kept, trim
  <2> QED BY <2>1, <2>2, <2>3, TrimmedKeeps
<1>7. trim \in [1..Len(all) -> Texts]
  <2>1. DOMAIN trim = 1..Len(all) /\ trim = [n \in 1..Len(all) |-> trim[n]]
    BY <1>5
  <2> HIDE DEF trim
  <2> QED BY <1>6, <2>1
<1> HIDE DEF trim
<1>8. trim \in Seq(Texts) /\ DOMAIN trim = 1..Len(all)
  BY <1>5, <1>7, IsSequence
<1>9. SaidByAll(path, trim) = SaidByAll(path, all)
  <2>1. \A n \in 1..Len(all) : F[trim[n]] = F[all[n]]
    BY <1>5, <1>6
  <2> HIDE DEF F
  <2>2. Mapped(F, trim) = Mapped(F, all)
    BY <1>5, <1>8, <2>1 DEF Mapped
  <2> QED BY <2>2 DEF SaidByAll, F
<1>10. /\ Only(trim, Wordy) \in Seq(Texts)
       /\ SaidByAll(path, Only(trim, Wordy)) = SaidByAll(path, trim)
       /\ SaidByAll(path, trim) = <<>> => Only(trim, Wordy) = <<>>
  BY <1>8, OnlyVisibleSays
<1> QED BY <1>1, <1>4, <1>9, <1>10

\* The bodies of a section.
LEMMA BodiesKeep ==
  ASSUME NEW path \in Seq(Texts), NEW section \in Seq(Line)
  PROVE  /\ Pack(Paragraphs(section)) \in Seq(Texts)
         /\ NoLonger(Pack(Paragraphs(section)), Target)
         /\ Anew(path, Pack(Paragraphs(section))) = SaidByLines(path, section)
         /\ SaidByLines(path, section) = <<>> => Pack(Paragraphs(section)) = <<>>
BY ParagraphsKeep, PackKeeps

-----------------------------------------------------------------------------
(* The head of a passage: chunk_text cuts off what _content put there *)

\* What Joined joins: a text after the first comes with a joiner before it.
LEMMA JoinedIs ==
  ASSUME NEW joiner \in Texts
  PROVE  /\ Joined(<<>>, joiner) = <<>>
         /\ \A ts \in Seq(Texts) : Joined(ts, joiner) \in Texts
         /\ \A ts \in Seq(Texts), t \in Texts :
              Joined(Append(ts, t), joiner)
                = Joined(ts, joiner) \o (IF ts = <<>> THEN t ELSE joiner \o t)
<1> DEFINE each(ts) == [i \in DOMAIN ts |-> IF i = 1 THEN ts[i] ELSE joiner \o ts[i]]
<1>0. \A t \in Texts : joiner \o t \in Texts
  BY ConcatProperties DEF Texts
<1>1. ASSUME NEW ts \in Seq(Texts)
      PROVE  /\ each(ts) \in Seq(Texts) /\ Len(each(ts)) = Len(ts)
             /\ \A i \in 1..Len(ts) : each(ts)[i] = IF i = 1 THEN ts[i] ELSE joiner \o ts[i]
  <2>1. Len(ts) \in Nat /\ DOMAIN ts = 1..Len(ts) /\ \A i \in 1..Len(ts) : ts[i] \in Texts
    BY LenProperties, ElementOfSeq
  <2>2. \A i \in 1..Len(ts) : (IF i = 1 THEN ts[i] ELSE joiner \o ts[i]) \in Texts
    BY <1>0, <2>1
  <2>3. each(ts) \in [1..Len(ts) -> Texts]
    BY <2>1, <2>2
  <2>4. \A i \in 1..Len(ts) : each(ts)[i] = IF i = 1 THEN ts[i] ELSE joiner \o ts[i]
    BY <2>1
  <2> HIDE DEF each
  <2> QED BY <2>1, <2>3, <2>4, IsSequence
<1>2. \A ts : Joined(ts, joiner) = FlattenSeq(each(ts))
  BY DEF Joined
<1>3. each(<<>>) = <<>>
  OBVIOUS
<1> HIDE DEF each
<1>4. Joined(<<>>, joiner) = <<>>
  BY <1>2, <1>3, Flattened
<1>5. ASSUME NEW ts \in Seq(Texts) PROVE Joined(ts, joiner) \in Texts
  <2>1. each(ts) \in Seq(Seq(Characters))
    BY <1>1 DEF Texts
  <2>2. FlattenSeq(each(ts)) \in Seq(Characters)
    BY <2>1, Flattened
  <2> QED BY <1>2, <2>2 DEF Texts
<1>6. ASSUME NEW ts \in Seq(Texts), NEW t \in Texts
      PROVE  Joined(Append(ts, t), joiner)
               = Joined(ts, joiner) \o (IF ts = <<>> THEN t ELSE joiner \o t)
  <2> DEFINE more == Append(ts, t)
             n == Len(ts)
             added == IF ts = <<>> THEN t ELSE joiner \o t
  <2>1. /\ more \in Seq(Texts) /\ Len(more) = n + 1 /\ n \in Nat
        /\ \A i \in 1..n : more[i] = ts[i]
        /\ more[n + 1] = t
    BY AppendProperties, LenProperties
  <2> HIDE DEF more
  <2>2. added \in Texts
    BY <1>0
  <2>3. each(more)[n + 1] = added
    <3>1. n + 1 \in 1..Len(more) /\ (ts = <<>> <=> n + 1 = 1)
      BY <2>1, EmptySeq
    <3> QED BY <1>1, <2>1, <3>1
  <2>4. \A i \in 1..n : each(more)[i] = each(ts)[i]
    BY <1>1, <2>1
  <2>5. PICK a \in Seq(Texts), b \in Seq(Texts) : a = each(ts) /\ b = each(more)
    BY <1>1, <2>1
  <2>6. Len(a) = n /\ Len(b) = n + 1
    BY <1>1, <2>1, <2>5
  <2>7. b = Append(a, b[n + 1])
    BY <2>1, <2>4, <2>5, <2>6, OneMore
  <2>8. b = Append(a, added)
    BY <2>3, <2>5, <2>7
  <2> HIDE DEF added
  <2>9. FlattenSeq(Append(a, added)) = FlattenSeq(a) \o added
    <3>1. a \in Seq(Seq(Characters)) /\ added \in Seq(Characters)
      BY <2>2 DEF Texts
    <3> QED BY <3>1, Flattened
  <2> QED BY <1>2, <2>5, <2>8, <2>9 DEF more, added
<1> QED BY <1>4, <1>5, <1>6

\* The titles that head a path, and what is on one line.
Heads == Titled \ {<<>>}

\* A title that is not empty is on one line, and white at neither end.
LEMMA HeadIs ==
  ASSUME NEW t \in Heads
  PROVE  /\ t \in Texts /\ Len(t) \in Nat /\ Len(t) >= 1
         /\ \A i \in 1..Len(t) : t[i] # "/"
         /\ t[1] # " " /\ t[Len(t)] # " "
<1>1. t \in Texts /\ t # <<>> /\ DOMAIN t = 1..Len(t) /\ Len(t) \in Nat
  BY LenProperties DEF Heads, Titled, Texts
<1>2. Len(t) # 0
  BY <1>1, EmptySeq DEF Texts
<1>3. \A i \in 1..Len(t) : t[i] # "/" /\ (t[i] = " " => i \notin {1, Len(t)})
  BY <1>1 DEF Heads, Titled
<1>4. 1 \in 1..Len(t) /\ Len(t) \in 1..Len(t)
  BY <1>1, <1>2
<1>5. t[1] # " " /\ t[Len(t)] # " "
  <2>1. 1 \in {1, Len(t)} /\ Len(t) \in {1, Len(t)}
    OBVIOUS
  <2> QED BY <1>3, <1>4, <2>1
<1>6. Len(t) >= 1
  BY <1>1, <1>2
<1> QED BY <1>1, <1>3, <1>5, <1>6

\* The separator is on one line.
LEMMA SeparatorIs ==
  /\ Separator \in Texts /\ Len(Separator) = 3
  /\ Separator[1] = " " /\ Separator[2] = ">" /\ Separator[3] = " "
  /\ \A i \in 1..3 : Separator[i] # "/"
<1>1. " " \in Characters /\ ">" \in Characters
  BY ChunkingAssumption
<1>2. Separator \in Texts
  <2>1. \A c, d \in Characters : <<c, d, c>> \in Seq(Characters)
    OBVIOUS
  <2> QED BY <1>1, <2>1 DEF Separator, Texts
<1>3. /\ Len(Separator) = 3 /\ Separator[1] = " " /\ Separator[2] = ">" /\ Separator[3] = " "
  BY DEF Separator
<1>4. ASSUME NEW i \in 1..3 PROVE Separator[i] # "/"
  <2>1. i = 1 \/ i = 2 \/ i = 3
    OBVIOUS
  <2> QED BY <1>3, <2>1
<1> QED BY <1>2, <1>3, <1>4

Flat(t) == \A i \in 1..Len(t) : t[i] # "/"

\* Two texts on one line are on one line.
LEMMA FlatConcat ==
  ASSUME NEW s \in Texts, NEW t \in Texts, Flat(s), Flat(t)
  PROVE  s \o t \in Texts /\ Flat(s \o t)
<1>1. /\ s \o t \in Texts /\ Len(s \o t) = Len(s) + Len(t)
      /\ \A i \in 1..Len(s) + Len(t) : (s \o t)[i] = IF i <= Len(s) THEN s[i] ELSE t[i - Len(s)]
      /\ Len(s) \in Nat /\ Len(t) \in Nat
  BY ConcatProperties, LenProperties DEF Texts
<1>2. ASSUME NEW i \in 1..Len(s) + Len(t) PROVE (s \o t)[i] # "/"
  <2>1. CASE i <= Len(s)
    <3>1. i \in 1..Len(s)
      BY <1>1, <2>1
    <3> QED BY <1>1, <2>1, <3>1 DEF Flat
  <2>2. CASE ~(i <= Len(s))
    <3>1. i - Len(s) \in 1..Len(t)
      BY <1>1, <2>2
    <3> QED BY <1>1, <2>2, <3>1 DEF Flat
  <2> QED BY <2>1, <2>2
<1> QED BY <1>1, <1>2 DEF Flat

\* What a head begins with.
OpeningOf(a, b) == a \o (Separator \o b)
Opening(path)   == OpeningOf(path[1], path[2])

\* The head of a chunk is on one line, and begins with its first two titles.
LEMMA HeadOfPath ==
  ASSUME NEW path \in Seq(Heads)
  PROVE  /\ Joined(path, Separator) \in Texts /\ Flat(Joined(path, Separator))
         /\ path # <<>> => Joined(path, Separator) # <<>>
         /\ Len(path) = 1 => Joined(path, Separator) = path[1]
         /\ Len(path) >= 2 => StartsWith(Joined(path, Separator), Opening(path))
<1> DEFINE head(p) == Joined(p, Separator)
           Right(p) == /\ head(p) \in Texts /\ Flat(head(p))
                       /\ p # <<>> => head(p) # <<>>
                       /\ Len(p) = 1 => head(p) = p[1]
                       /\ Len(p) >= 2 => StartsWith(head(p), Opening(p))
           T == {p \in Seq(Heads) : Right(p)}
<1>0. Heads \subseteq Texts
  BY HeadIs
<1>1. Seq(Heads) \subseteq Seq(Texts)
  BY <1>0, SeqOfMore
<1>2. /\ head(<<>>) = <<>>
      /\ \A p \in Seq(Texts), t \in Texts :
           head(Append(p, t)) = head(p) \o (IF p = <<>> THEN t ELSE Separator \o t)
  BY SeparatorIs, JoinedIs
<1>3. <<>> \in T
  <2>1. Len(<<>>) = 0 /\ <<>> \in Texts /\ <<>> \in Seq(Heads)
    BY EmptySeq DEF Texts
  <2>2. Flat(<<>>)
    BY <2>1 DEF Flat
  <2>3. ~(Len(<<>>) = 1) /\ ~(Len(<<>>) >= 2)
    BY <2>1
  <2> HIDE DEF head
  <2>4. Right(<<>>)
    BY <1>2, <2>1, <2>2, <2>3
  <2> QED BY <2>1, <2>4
<1>4. ASSUME NEW p \in Seq(Heads), NEW t \in Heads, p \in T PROVE Append(p, t) \in T
  <2> DEFINE q == Append(p, t)
  <2>0. Right(p)
    BY <1>4
  <2>1. /\ q \in Seq(Heads) /\ Len(q) = Len(p) + 1 /\ Len(p) \in Nat /\ q # <<>>
        /\ \A i \in 1..Len(p) : q[i] = p[i]
        /\ q[Len(p) + 1] = t
    <3>1. /\ q \in Seq(Heads) /\ Len(q) = Len(p) + 1 /\ Len(p) \in Nat
          /\ \A i \in 1..Len(p) : q[i] = p[i]
          /\ q[Len(p) + 1] = t
      BY AppendProperties, LenProperties
    <3> HIDE DEF q
    <3>2. q # <<>>
      BY <3>1, EmptySeq
    <3> QED BY <3>1, <3>2
  <2>2. p \in Seq(Texts) /\ t \in Texts /\ t # <<>> /\ Flat(t) /\ Len(t) >= 1 /\ Len(t) \in Nat
    BY <1>0, <1>1, HeadIs DEF Heads, Flat
  <2>3. head(q) = head(p) \o (IF p = <<>> THEN t ELSE Separator \o t)
    BY <1>2, <2>2
  <2> HIDE DEF q, head
  <2>4. Separator \o t \in Texts /\ Flat(Separator \o t)
    BY <2>2, SeparatorIs, FlatConcat DEF Flat
  <2>5. head(q) \in Texts /\ Flat(head(q))
    BY <2>0, <2>2, <2>3, <2>4, FlatConcat
  <2>6. CASE p = <<>>
    <3>1. Len(p) = 0 /\ head(p) = <<>>
      BY <1>2, <2>6, EmptySeq
    <3>2. head(q) = t
      <4>1. <<>> \o t = t
        BY <2>2, ConcatEmptySeq DEF Texts
      <4> QED BY <2>3, <2>6, <3>1, <4>1
    <3>3. Len(q) = 1 /\ q[1] = t
      BY <2>1, <3>1
    <3>4. Right(q)
      BY <2>2, <2>5, <3>2, <3>3
    <3> QED BY <2>1, <3>4 DEF q
  <2>7. CASE p # <<>>
    <3>1. Len(p) >= 1
      <4>1. Len(p) # 0
        BY <1>4, <2>7, EmptySeq
      <4> QED BY <2>1, <4>1
    <3>2. head(q) = head(p) \o (Separator \o t)
      BY <2>3, <2>7
    <3>3. head(q) # <<>>
      <4>1. head(p) # <<>> /\ head(p) \in Texts
        BY <2>0, <2>7
      <4> QED BY <2>4, <3>2, <4>1, ConcatEqualIffEmpty DEF Texts
    <3>4. StartsWith(head(q), Opening(q))
      <4>1. CASE Len(p) = 1
        <5>1. q[1] = p[1] /\ q[2] = t
          BY <2>1, <4>1
        <5>2. head(p) = p[1]
          BY <2>0, <4>1
        <5>3. head(q) = Opening(q)
          BY <3>2, <5>1, <5>2 DEF Opening, OpeningOf
        <5>4. StartsWith(head(q), head(q))
          <6>1. PICK s \in Texts : s = head(q)
            BY <2>5
          <6>2. SubSeq(s, 1, Len(s)) = s /\ Len(s) \in Nat
            BY SubSeqFull, LenProperties DEF Texts
          <6>3. StartsWith(s, s)
            BY <6>2 DEF StartsWith
          <6> QED BY <6>1, <6>3
        <5> QED BY <5>3, <5>4
      <4>2. CASE Len(p) # 1
        <5>1. Len(p) >= 2 /\ 1 \in 1..Len(p) /\ 2 \in 1..Len(p)
          <6>1. PICK n \in Nat : n = Len(p)
            BY <2>1
          <6>2. n >= 2 /\ 1 \in 1..n /\ 2 \in 1..n
            BY <3>1, <4>2, <6>1
          <6> QED BY <6>1, <6>2
        <5>2. Opening(q) = Opening(p)
          BY <2>1, <5>1 DEF Opening, OpeningOf
        <5>3. StartsWith(head(p), Opening(p)) /\ head(p) \in Texts
          BY <2>0, <5>1
        <5>4. Opening(p) \in Texts
          <6>1. p[1] \in Texts /\ p[2] \in Texts
            BY <2>2, <5>1, ElementOfSeq
          <6> QED BY <6>1, SeparatorIs, ConcatProperties DEF Opening, OpeningOf, Texts
        <5> QED BY <2>4, <3>2, <5>2, <5>3, <5>4, StillStarts
      <4> QED BY <4>1, <4>2
    <3>5. Len(q) # 1
      BY <2>1, <3>1
    <3>6. Right(q)
      BY <2>5, <3>3, <3>4, <3>5
    <3> QED BY <2>1, <3>6 DEF q
  <2> QED BY <2>6, <2>7
<1>5. Seq(Heads) \subseteq T
  <2> HIDE DEF T
  <2> QED BY <1>3, <1>4, OnSequences
<1>6. Right(path)
  <2> HIDE DEF Right
  <2> QED BY <1>5
<1> QED BY <1>6

\* A title that its place behind a separator does not show too early: none but ">", "> >", ...
Mark == <<">", " ">>
Unmarked(title) == ~StartsWith(Mark \o title, title)

ClearPath(path) == path \in Seq(Heads) /\ (Len(path) >= 2 => Unmarked(path[2]))

\* Two in a row of a text.
LEMMA TwoOf ==
  ASSUME NEW s \in Texts, NEW i \in 1..Len(s) - 1
  PROVE  SubSeq(s, i, i + 1) = Blank <=> s[i] = "/" /\ s[i + 1] = "/"
<1>1. Len(s) \in Nat /\ \A k \in 1..Len(s) : s[k] \in Characters
  BY LenProperties, ElementOfSeq DEF Texts
<1>2. i \in Int /\ i + 1 \in Int /\ i <= i + 1 /\ \A k \in i..i + 1 : k \in 1..Len(s)
  BY <1>1
<1> DEFINE t == SubSeq(s, i, i + 1)
<1>3. t \in Seq(Characters) /\ Len(t) = 2 /\ t[1] = s[i] /\ t[2] = s[i + 1]
  <2>1. \A k \in i..i + 1 : s[k] \in Characters
    BY <1>1, <1>2
  <2>2. /\ t \in Seq(Characters)
        /\ Len(t) = IF i <= i + 1 THEN i + 1 - i + 1 ELSE 0
        /\ \A k \in 1..i + 1 - i + 1 : t[k] = s[i + k - 1]
    BY <1>2, <2>1, SubSeqProperties
  <2> HIDE DEF t
  <2>3. Len(t) = 2
    BY <1>1, <2>2
  <2>4. 1 \in 1..i + 1 - i + 1 /\ 2 \in 1..i + 1 - i + 1 /\ i + 1 - 1 = i /\ i + 2 - 1 = i + 1
    BY <1>2
  <2> QED BY <2>2, <2>3, <2>4
<1>4. Blank \in Seq(Characters) /\ Len(Blank) = 2 /\ Blank[1] = "/" /\ Blank[2] = "/"
  BY Whites DEF Blank, Texts
<1> HIDE DEF t
<1>5. ASSUME s[i] = "/", s[i + 1] = "/" PROVE t = Blank
  <2>1. \A k \in 1..2 : k = 1 \/ k = 2
    OBVIOUS
  <2>2. \A k \in 1..2 : t[k] = Blank[k]
    BY <1>3, <1>4, <1>5, <2>1
  <2> QED BY <1>3, <1>4, <2>2, SeqEqual
<1>6. ASSUME t = Blank PROVE s[i] = "/" /\ s[i + 1] = "/"
  BY <1>3, <1>4, <1>6
<1> QED BY <1>5, <1>6 DEF t

\* Where a text has an empty line, and where of a head its second title may begin.
Ends(content)    == {i \in 1..Len(content) - 1 : SubSeq(content, i, i + 1) = Blank}
Gaps(head, a, b) == {i \in Len(a) + 1..Len(head) : StartsWith(From(head, i), b)}

Laid(head, body) == head \o Blank \o body

\* The head of a passage ends at its first empty line.
LEMMA HeadEnds ==
  ASSUME NEW head \in Texts, NEW body \in Texts, Flat(head),
         NEW content, content = Laid(head, body),
         NEW ends, ends = Ends(content)
  PROVE  /\ content \in Texts /\ ends # {} /\ Min(ends) = Len(head) + 1
         /\ SubSeq(content, 1, Len(head)) = head
         /\ From(content, Len(head) + 3) = body
<1>1. Blank \in Texts /\ Len(Blank) = 2 /\ Blank[1] = "/" /\ Blank[2] = "/"
  BY Whites DEF Blank
<1>2. /\ content = head \o (Blank \o body) /\ content = (head \o Blank) \o body
      /\ content \in Texts /\ Blank \o body \in Texts /\ head \o Blank \in Texts
  <2>1. PICK b \in Texts : b = Blank
    BY <1>1
  <2>2. /\ (head \o b) \o body = head \o (b \o body) /\ b \o body \in Texts
        /\ head \o b \o body \in Texts
    BY ThreeTexts
  <2>3. head \o b \in Texts
    BY ConcatProperties DEF Texts
  <2> QED BY <2>1, <2>2, <2>3 DEF Laid
<1>3. Len(head) \in Nat /\ Len(body) \in Nat /\ Len(content) \in Nat
  BY <1>2, LenProperties DEF Texts
<1>4. /\ Len(head \o Blank) = Len(head) + 2
      /\ (head \o Blank)[Len(head) + 1] = "/" /\ (head \o Blank)[Len(head) + 2] = "/"
      /\ \A i \in 1..Len(head) : (head \o Blank)[i] = head[i]
  <2>1. PICK b \in Seq(Characters) : b = Blank
    BY <1>1 DEF Texts
  <2>2. PICK h \in Seq(Characters) : h = head
    BY DEF Texts
  <2>3. /\ Len(h \o b) = Len(h) + Len(b)
        /\ \A i \in 1..Len(h) + Len(b) : (h \o b)[i] = IF i <= Len(h) THEN h[i] ELSE b[i - Len(h)]
    BY ConcatProperties
  <2>4. Len(h) \in Nat /\ Len(b) = 2 /\ b[1] = "/" /\ b[2] = "/"
    BY <1>1, <1>3, <2>1, <2>2
  <2>5. PICK n \in Nat : n = Len(h)
    BY <2>4
  <2>6. n + 1 \in 1..n + 2 /\ n + 2 \in 1..n + 2 /\ ~(n + 1 <= n) /\ ~(n + 2 <= n)
        /\ n + 1 - n = 1 /\ n + 2 - n = 2 /\ \A i \in 1..n : i \in 1..n + 2 /\ i <= n
    OBVIOUS
  <2>7. /\ Len(h \o b) = n + 2 /\ (h \o b)[n + 1] = "/" /\ (h \o b)[n + 2] = "/"
        /\ \A i \in 1..n : (h \o b)[i] = h[i]
    BY <2>3, <2>4, <2>5, <2>6
  <2> QED BY <2>1, <2>2, <2>5, <2>7
<1>5. /\ Len(content) = Len(head) + 2 + Len(body)
      /\ content[Len(head) + 1] = "/" /\ content[Len(head) + 2] = "/"
      /\ \A i \in 1..Len(head) : content[i] = head[i]
  <2>1. PICK w \in Seq(Characters), b \in Seq(Characters) : w = head \o Blank /\ b = body
    BY <1>2 DEF Texts
  <2>2. /\ Len(w \o b) = Len(w) + Len(b)
        /\ \A i \in 1..Len(w) + Len(b) : (w \o b)[i] = IF i <= Len(w) THEN w[i] ELSE b[i - Len(w)]
    BY ConcatProperties
  <2>3. PICK n \in Nat, m \in Nat : n = Len(head) /\ m = Len(body)
    BY <1>3
  <2>4. Len(w) = n + 2 /\ Len(b) = m
    BY <1>4, <2>1, <2>3
  <2>5. n + 1 \in 1..n + 2 + m /\ n + 2 \in 1..n + 2 + m /\ n + 1 <= n + 2
        /\ \A i \in 1..n : i \in 1..n + 2 + m /\ i <= n + 2
    OBVIOUS
  <2>6. /\ Len(w \o b) = n + 2 + m /\ (w \o b)[n + 1] = w[n + 1] /\ (w \o b)[n + 2] = w[n + 2]
        /\ \A i \in 1..n : (w \o b)[i] = w[i]
    BY <2>2, <2>4, <2>5
  <2>7. content = w \o b
    BY <1>2, <2>1
  <2> QED BY <1>4, <2>1, <2>3, <2>6, <2>7
<1>6. \A i \in 1..Len(content) - 1 :
        SubSeq(content, i, i + 1) = Blank <=> content[i] = "/" /\ content[i + 1] = "/"
  BY <1>2, TwoOf
<1>7. Len(head) + 1 \in ends
  <2>1. Len(head) + 1 \in 1..Len(content) - 1 /\ Len(head) + 1 + 1 = Len(head) + 2
    BY <1>3, <1>5
  <2>2. SubSeq(content, Len(head) + 1, Len(head) + 1 + 1) = Blank
    BY <1>5, <1>6, <2>1
  <2> QED BY <2>1, <2>2, Zenon DEF Ends
<1>8. ASSUME NEW i \in ends PROVE i \in 1..Len(content) /\ i >= Len(head) + 1
  <2>1. i \in 1..Len(content) - 1 /\ SubSeq(content, i, i + 1) = Blank
    BY Zenon DEF Ends
  <2>2. content[i] = "/"
    BY <1>6, <2>1
  <2>3. i \notin 1..Len(head)
    BY <1>5, <2>2 DEF Flat
  <2> QED BY <1>3, <2>1, <2>3
<1>9. Min(ends) = Len(head) + 1
  <2>1. ends \subseteq 1..Len(content) /\ ends # {}
    BY <1>7, <1>8
  <2>2. PICK S : S = ends
    OBVIOUS
  <2>3. S \subseteq 1..Len(content) /\ S # {} /\ Len(head) + 1 \in S
        /\ \A i \in S : i >= Len(head) + 1
    BY <1>7, <1>8, <2>1, <2>2, Zenon
  <2>4. Min(S) \in S /\ \A x \in S : Min(S) <= x
    BY <1>3, <2>3, EndsOf
  <2>b. S \subseteq Nat
    BY <1>3, <2>3
  <2>a. Min(S) \in Nat
    BY <2>b, <2>4
  <2>5. PICK m \in Nat, n \in Nat : m = Min(S) /\ n = Len(head)
    BY <1>3, <2>a
  <2>6. m >= n + 1 /\ m <= n + 1
    BY <2>3, <2>4, <2>5
  <2>7. Min(S) = Len(head) + 1
    BY <2>5, <2>6
  <2> QED BY <2>2, <2>7
<1>10. SubSeq(content, 1, Len(head)) = head
  BY <1>2, AfterTheFirst DEF Texts
<1>11. From(content, Len(head) + 3) = body
  <2>1. From(content, Len(head \o Blank) + 1) = body
    BY <1>2, AfterTheFirst DEF Texts
  <2>2. Len(head \o Blank) + 1 = Len(head) + 3
    BY <1>3, <1>4
  <2> QED BY <2>1, <2>2
<1> QED BY <1>2, <1>7, <1>9, <1>10, <1>11

\* A text begins with what it starts with.
LEMMA AfterItsStart ==
  ASSUME NEW s \in Texts, NEW head \in Texts, StartsWith(s, head)
  PROVE  \E rest \in Texts : s = head \o rest
<1>1. Len(head) \in 0..Len(s) /\ SubSeq(s, 1, Len(head)) = head
  BY LenProperties DEF StartsWith, Texts
<1>2. s = SubSeq(s, 1, Len(head)) \o From(s, Len(head) + 1) /\ From(s, Len(head) + 1) \in Texts
  BY <1>1, InTwo DEF Texts
<1> QED BY <1>1, <1>2

\* Texts in a row are a text, however they are grouped.
LEMMA AllTexts ==
  /\ \A x, y, z \in Texts : (x \o y) \o z = x \o (y \o z)
  /\ \A x, y \in Texts : x \o y \in Texts
<1>1. ASSUME NEW x \in Texts, NEW y \in Texts, NEW z \in Texts
      PROVE  (x \o y) \o z = x \o (y \o z)
  <2>1. x \in Seq(Characters) /\ y \in Seq(Characters) /\ z \in Seq(Characters)
    BY DEF Texts
  <2> QED BY <2>1, ConcatAssociative
<1>2. ASSUME NEW x \in Texts, NEW y \in Texts PROVE x \o y \in Texts
  BY ConcatProperties DEF Texts
<1>3. \A x, y, z \in Texts : (x \o y) \o z = x \o (y \o z)
  BY <1>1
<1> QED BY <1>2, <1>3

\* Four texts in a row, however they are taken together.
Four(a, b, c, d) ==
  /\ (a \o (b \o c)) \o d = a \o ((b \o c) \o d)
  /\ (a \o (b \o c)) \o d = (a \o b) \o (c \o d)
  /\ (b \o c) \o d \in Texts /\ c \o d \in Texts

\* Four texts grouped in two ways.
LEMMA FourTexts ==
  ASSUME NEW a \in Texts, NEW b \in Texts, NEW c \in Texts, NEW d \in Texts
  PROVE  Four(a, b, c, d)
<1>1. \A x, y, z \in Texts : (x \o y) \o z = x \o (y \o z)
  BY AllTexts
<1>2. \A x, y \in Texts : x \o y \in Texts
  BY AllTexts
<1>3. a \o b \in Texts /\ b \o c \in Texts /\ c \o d \in Texts
  BY <1>2, Zenon
<1>4. (b \o c) \o d \in Texts
  BY <1>2, <1>3, Zenon
<1>5. (a \o (b \o c)) \o d = a \o ((b \o c) \o d)
  <2>1. \A u \in Texts : (a \o u) \o d = a \o (u \o d)
    BY <1>1, Zenon
  <2> QED BY <1>3, <2>1, Zenon
<1>6. (a \o b) \o c = a \o (b \o c)
  BY <1>1, Zenon
<1>7. ((a \o b) \o c) \o d = (a \o b) \o (c \o d)
  <2>1. \A u \in Texts : (u \o c) \o d = u \o (c \o d)
    BY <1>1, Zenon
  <2> QED BY <1>3, <2>1, Zenon
<1> QED BY <1>3, <1>4, <1>5, <1>6, <1>7, Zenon DEF Four

Five(a, b, c, d, e) == a \o (((b \o c) \o d) \o e) = (a \o b) \o ((c \o d) \o e)

\* Five texts grouped in two ways.
LEMMA Regrouped ==
  ASSUME NEW a \in Texts, NEW b \in Texts, NEW c \in Texts, NEW d \in Texts, NEW e \in Texts
  PROVE  Five(a, b, c, d, e)
<1>1. PICK cd \in Texts : cd = c \o d
  BY AllTexts
<1>2. PICK cde \in Texts : cde = cd \o e
  BY AllTexts
<1>3. \A x, y, z \in Texts : (x \o y) \o z = x \o (y \o z)
  BY AllTexts
<1>4. (b \o c) \o d = b \o (c \o d)
  <2>1. \A u \in Texts : (b \o c) \o u = b \o (c \o u)
    BY <1>3, Zenon
  <2> QED BY <2>1, Zenon
<1>5. (b \o cd) \o e = b \o (cd \o e)
  BY <1>3
<1>6. (a \o b) \o cde = a \o (b \o cde)
  BY <1>3
<1> QED BY <1>1, <1>2, <1>4, <1>5, <1>6, Zenon DEF Five

\* What two texts start with is in the first if it is no longer.
LEMMA StartsWithin ==
  ASSUME NEW s \in Texts, NEW t \in Texts, NEW head \in Texts, Len(head) <= Len(s),
         StartsWith(s \o t, head)
  PROVE  StartsWith(s, head)
<1>1. Len(head) \in 0..Len(s) /\ SubSeq(s \o t, 1, Len(head)) = head
  BY LenProperties DEF StartsWith, Texts
<1>2. SubSeq(s \o t, 1, Len(head)) = SubSeq(s, 1, Len(head))
  BY <1>1, InConcat DEF Texts
<1> QED BY <1>1, <1>2 DEF StartsWith

\* The separator is a blank and the mark a title could begin with.
LEMMA InSeparator ==
  \E m \in Texts, k \in Texts : k = Mark /\ Len(m) = 1 /\ Len(k) = 2 /\ Separator = m \o k
<1>1. PICK x \in Characters, y \in Characters : x = " " /\ y = ">"
  BY ChunkingAssumption
<1>2. PICK m \in Seq(Characters), k \in Seq(Characters), sep \in Seq(Characters) :
        m = <<x>> /\ k = <<y, x>> /\ sep = <<x, y, x>>
  <2>1. <<x>> \in Seq(Characters) /\ <<y, x>> \in Seq(Characters)
        /\ <<x, y, x>> \in Seq(Characters)
    OBVIOUS
  <2> QED BY <2>1, Zenon
<1>3. /\ Len(m) = 1 /\ m[1] = x /\ Len(k) = 2 /\ k[1] = y /\ k[2] = x
      /\ Len(sep) = 3 /\ sep[1] = x /\ sep[2] = y /\ sep[3] = x
  BY <1>2
<1>4. /\ m \o k \in Seq(Characters) /\ Len(m \o k) = Len(m) + Len(k)
      /\ \A i \in 1..Len(m) + Len(k) : (m \o k)[i] = IF i <= Len(m) THEN m[i] ELSE k[i - Len(m)]
  BY ConcatProperties
<1>5. sep = m \o k
  <2>1. ASSUME NEW i \in 1..Len(sep) PROVE sep[i] = (m \o k)[i]
    <3>1. i = 1 \/ i = 2 \/ i = 3
      BY <1>3
    <3>2. i \in 1..Len(m) + Len(k)
      BY <1>3
    <3>3. CASE i = 1
      BY <1>3, <1>4, <3>2, <3>3
    <3>4. CASE i = 2
      BY <1>3, <1>4, <3>2, <3>4
    <3>5. CASE i = 3
      BY <1>3, <1>4, <3>2, <3>5
    <3> QED BY <3>1, <3>3, <3>4, <3>5
  <2>2. Len(sep) = Len(m \o k)
    BY <1>3, <1>4
  <2> QED BY <1>4, <2>1, <2>2, SeqEqual
<1>6. m \in Texts /\ k \in Texts
  BY DEF Texts
<1>7. k = Mark /\ Separator = sep
  BY <1>1, <1>2, Zenon DEF Mark, Separator
<1> QED BY <1>3, <1>5, <1>6, <1>7, Zenon

\* Within the separator a title is not found that is not marked.
LEMMA NotWithin ==
  ASSUME NEW a \in Heads, NEW b \in Heads, Unmarked(b), NEW rest \in Texts,
         NEW head, head = a \o ((Separator \o b) \o rest)
  PROVE  ~StartsWith(From(head, Len(a) + 2), b)
<1>1. a \in Texts /\ b \in Texts
  BY HeadIs
<1>2. PICK m \in Texts, k \in Texts : k = Mark /\ Len(m) = 1 /\ Len(k) = 2 /\ Separator = m \o k
  BY InSeparator
<1>3. PICK s \in Texts, c \in Texts : s = a /\ c = b
  BY <1>1
<1>4. PICK t \in Texts : t = k \o c
  BY AllTexts
<1>5. PICK u \in Texts : u = t \o rest
  BY AllTexts
<1>6. s \o (((m \o k) \o c) \o rest) = (s \o m) \o ((k \o c) \o rest)
  <2>1. Five(s, m, k, c, rest)
    BY Regrouped
  <2> QED BY <2>1, Zenon DEF Five
<1>7. s \o m \in Texts
  BY AllTexts
<1>8. head = (a \o m) \o u /\ a \o m \in Texts
  BY <1>2, <1>3, <1>4, <1>5, <1>6, <1>7, Zenon
<1>9. From(head, Len(a \o m) + 1) = u
  <2>1. PICK w \in Seq(Characters), v \in Seq(Characters) : w = a \o m /\ v = u
    BY <1>8 DEF Texts
  <2>2. From(w \o v, Len(w) + 1) = v
    BY AfterTheFirst
  <2> QED BY <1>8, <2>1, <2>2, Zenon
<1>10. Len(a \o m) + 1 = Len(a) + 2
  <2>1. Len(a \o m) = Len(a) + Len(m) /\ Len(a) \in Nat
    BY <1>1, ConcatProperties, LenProperties DEF Texts
  <2> QED BY <1>2, <2>1
<1>11. From(head, Len(a) + 2) = t \o rest
  BY <1>5, <1>9, <1>10
<1>12. Len(b) <= Len(t)
  <2>1. Len(t) = Len(k) + Len(b) /\ Len(b) \in Nat
    BY <1>1, <1>3, <1>4, ConcatProperties, LenProperties DEF Texts
  <2> QED BY <1>2, <2>1
<1>13. ASSUME StartsWith(From(head, Len(a) + 2), b) PROVE FALSE
  <2>1. StartsWith(t \o rest, b)
    BY <1>11, <1>13
  <2>2. StartsWith(t, b)
    BY <1>1, <1>12, <2>1, StartsWithin
  <2> QED BY <1>2, <1>3, <1>4, <2>2 DEF Unmarked
<1> QED BY <1>13

\* The first gap after a path's first title that its second one follows is the separator.
LEMMA GapIs ==
  ASSUME NEW head \in Texts, NEW a \in Heads, NEW b \in Heads, Unmarked(b),
         StartsWith(head, OpeningOf(a, b)),
         NEW gaps, gaps = Gaps(head, a, b)
  PROVE  /\ StartsWith(head, a) /\ gaps # {} /\ Min(gaps) = Len(a) + 4
         /\ SubSeq(head, Len(a) + 1, Min(gaps) - 1) = Separator
<1>1. /\ a \in Texts /\ b \in Texts /\ Len(a) \in Nat /\ Len(b) \in Nat /\ Len(b) >= 1
      /\ Separator \in Texts /\ Len(Separator) = 3
  BY HeadIs, SeparatorIs
<1>a. b[1] # " "
  BY HeadIs
<1>2. /\ Separator \o b \in Texts /\ a \o (Separator \o b) \in Texts /\ a \o Separator \in Texts
      /\ Len(a \o Separator) = Len(a) + 3
  <2>1. PICK sep \in Texts : sep = Separator /\ Len(sep) = 3
    BY <1>1
  <2>2. PICK s \in Texts, t \in Texts : s = a /\ t = b
    BY <1>1
  <2>3. sep \o t \in Texts /\ s \o sep \in Texts /\ Len(s \o sep) = Len(s) + 3
    <3>1. sep \o t \in Texts /\ s \o sep \in Texts
      BY ConcatProperties DEF Texts
    <3>2. Len(s \o sep) = Len(s) + Len(sep)
      BY ConcatProperties DEF Texts
    <3> QED BY <2>1, <3>1, <3>2
  <2>4. s \o (sep \o t) \in Texts
    BY <2>3, ConcatProperties DEF Texts
  <2> QED BY <2>1, <2>2, <2>3, <2>4, Zenon
<1>3. PICK rest \in Texts : head = (a \o (Separator \o b)) \o rest
  <2>1. OpeningOf(a, b) \in Texts
    BY <1>2 DEF OpeningOf
  <2>2. \E rest \in Texts : head = OpeningOf(a, b) \o rest
    BY <2>1, AfterItsStart
  <2> QED BY <2>2 DEF OpeningOf
<1>4. /\ head = a \o ((Separator \o b) \o rest) /\ (Separator \o b) \o rest \in Texts
      /\ head = (a \o Separator) \o (b \o rest) /\ b \o rest \in Texts
  <2>0. PICK sep \in Texts, s \in Texts, t \in Texts : sep = Separator /\ s = a /\ t = b
    BY <1>1
  <2>1. /\ (s \o (sep \o t)) \o rest = s \o ((sep \o t) \o rest)
        /\ (s \o (sep \o t)) \o rest = (s \o sep) \o (t \o rest)
        /\ (sep \o t) \o rest \in Texts /\ t \o rest \in Texts
    <3>1. Four(s, sep, t, rest)
      BY FourTexts
    <3> QED BY <3>1, Zenon DEF Four
  <2>2. head = (s \o (sep \o t)) \o rest
    BY <1>3, <2>0
  <2> QED BY <2>0, <2>1, <2>2, Zenon
<1>5. Len(head) \in Nat /\ Len(head) >= Len(a) + 4
  <2>1. Len(b \o rest) = Len(b) + Len(rest) /\ Len(rest) \in Nat
    BY <1>1, ConcatProperties, LenProperties DEF Texts
  <2>2. Len(head) = Len(a \o Separator) + Len(b \o rest)
    BY <1>2, <1>4, ConcatProperties DEF Texts
  <2> QED BY <1>1, <1>2, <2>1, <2>2
<1>6. StartsWith(head, a)
  BY <1>1, <1>4, Starts
<1>7. From(head, Len(a) + 4) = b \o rest
  <2>1. From(head, Len(a \o Separator) + 1) = b \o rest
    BY <1>2, <1>4, AfterTheFirst DEF Texts
  <2>2. Len(a \o Separator) + 1 = Len(a) + 4
    BY <1>1, <1>2
  <2> QED BY <2>1, <2>2
<1>8. Len(a) + 4 \in gaps
  <2>1. StartsWith(From(head, Len(a) + 4), b)
    BY <1>1, <1>7, Starts
  <2>2. Len(a) + 4 \in Len(a) + 1..Len(head)
    BY <1>1, <1>5
  <2> QED BY <2>1, <2>2, Zenon DEF Gaps
<1>9. \A j \in 1..3 : head[Len(a) + j] = Separator[j]
  <2>1. PICK w \in Seq(Characters), v \in Seq(Characters), u \in Seq(Characters) :
          w = a \o Separator /\ v = b \o rest /\ u = a
    BY <1>1, <1>2, <1>4 DEF Texts
  <2>2. PICK sep \in Seq(Characters) : sep = Separator
    BY <1>1 DEF Texts
  <2>3. /\ \A i \in 1..Len(u) + Len(sep) :
             (u \o sep)[i] = IF i <= Len(u) THEN u[i] ELSE sep[i - Len(u)]
        /\ \A i \in 1..Len(w) + Len(v) : (w \o v)[i] = IF i <= Len(w) THEN w[i] ELSE v[i - Len(w)]
        /\ Len(v) \in Nat
    BY ConcatProperties, LenProperties
  <2>4. PICK n \in Nat, m \in Nat : n = Len(u) /\ m = Len(v)
    BY <1>1, <2>1, <2>3
  <2>5. Len(sep) = 3 /\ Len(w) = n + 3 /\ w = u \o sep /\ head = w \o v
    BY <1>1, <1>2, <1>4, <2>1, <2>2, <2>4
  <2>6. ASSUME NEW j \in 1..3 PROVE head[n + j] = sep[j]
    <3>1. /\ n + j \in 1..n + 3 /\ n + j \in 1..n + 3 + m /\ ~(n + j <= n) /\ n + j <= n + 3
          /\ n + j - n = j
      OBVIOUS
    <3>2. (u \o sep)[n + j] = sep[j]
      BY <2>3, <2>4, <2>5, <3>1
    <3>3. (w \o v)[n + j] = w[n + j]
      BY <2>3, <2>4, <2>5, <3>1
    <3> QED BY <2>5, <3>2, <3>3
  <2> QED BY <2>1, <2>2, <2>4, <2>6
<1>b. ~StartsWith(From(head, Len(a) + 2), b)
  BY <1>4, NotWithin
<1>10. ASSUME NEW i \in gaps PROVE i \in 1..Len(head) /\ i >= Len(a) + 4
  <2>1. i \in Len(a) + 1..Len(head) /\ StartsWith(From(head, i), b)
    BY Zenon DEF Gaps
  <2>2. i \in 1..Len(head) /\ i - 1 \in 0..Len(head) /\ i - 1 + 1 = i
    BY <1>1, <1>5, <2>1
  <2>3. From(head, i)[1] = head[i]
    <3>1. PICK k \in 0..Len(head) : k = i - 1 /\ k + 1 = i
      BY <2>2
    <3>2. \A j \in 1..Len(head) - k : From(head, k + 1)[j] = head[k + j]
      BY InTwo DEF Texts
    <3>3. 1 \in 1..Len(head) - k
      BY <1>5, <2>2, <3>1
    <3> QED BY <3>1, <3>2, <3>3
  <2>4. From(head, i)[1] = b[1]
    <3>1. PICK k \in Nat : k = i - 1 /\ k + 1 = i
      BY <2>2
    <3>2. From(head, k + 1) \in Texts
      BY FromIsText
    <3>3. PICK f \in Texts : f = From(head, i)
      BY <3>1, <3>2
    <3>4. Len(b) <= Len(f) /\ SubSeq(f, 1, Len(b)) = b
      BY <2>1, <3>3 DEF StartsWith
    <3>5. Len(b) \in 0..Len(f)
      BY <1>1, <3>4, LenProperties DEF Texts
    <3>6. \A j \in 1..Len(b) : SubSeq(f, 1, Len(b))[j] = f[j]
      BY <3>5, InTwo DEF Texts
    <3>7. 1 \in 1..Len(b)
      BY <1>1
    <3> QED BY <3>3, <3>4, <3>6, <3>7
  <2>5. \A j \in 1..3 : i # Len(a) + j
    <3>1. ASSUME NEW j \in 1..3, i = Len(a) + j PROVE FALSE
      <4>1. b[1] = Separator[j]
        BY <1>9, <2>3, <2>4, <3>1
      <4>2. j # 2
        <5>1. j = 2 => i = Len(a) + 2
          BY <3>1
        <5> QED BY <1>b, <2>1, <5>1
      <4>3. Separator[j] = " "
        <5>1. j = 1 \/ j = 3
          BY <4>2
        <5> QED BY <5>1, SeparatorIs
      <4> QED BY <1>a, <4>1, <4>3
    <3> QED BY <3>1
  <2>6. i >= Len(a) + 4
    <3>1. PICK n \in Nat : n = Len(a)
      BY <1>1
    <3>2. i \in Int /\ i >= n + 1 /\ i # n + 1 /\ i # n + 2 /\ i # n + 3
      BY <2>1, <2>2, <2>5, <3>1
    <3>3. i >= n + 4
      BY <3>2
    <3> QED BY <3>1, <3>3
  <2> QED BY <2>2, <2>6
<1>11. Min(gaps) = Len(a) + 4
  <2>1. PICK S : S = gaps
    OBVIOUS
  <2>2. S \subseteq 1..Len(head) /\ S # {} /\ Len(a) + 4 \in S
        /\ \A i \in S : i >= Len(a) + 4
    BY <1>8, <1>10, <2>1
  <2>3. Min(S) \in S /\ \A x \in S : Min(S) <= x
    BY <1>5, <2>2, EndsOf
  <2>b. S \subseteq Nat
    BY <1>5, <2>2
  <2>a. Min(S) \in Nat
    BY <2>b, <2>3
  <2>4. PICK m \in Nat, n \in Nat : m = Min(S) /\ n = Len(a)
    BY <1>1, <2>a
  <2>5. m >= n + 4 /\ m <= n + 4
    BY <2>2, <2>3, <2>4
  <2>6. Min(S) = Len(a) + 4
    BY <2>4, <2>5
  <2> QED BY <2>1, <2>6
<1>12. SubSeq(head, Len(a) + 1, Min(gaps) - 1) = Separator
  <2>1. PICK n \in Nat : n = Len(a)
    BY <1>1
  <2>2. Min(gaps) - 1 = n + 3
    BY <1>11, <2>1
  <2> DEFINE t == SubSeq(head, n + 1, n + 3)
  <2>3. /\ t \in Seq(Characters)
        /\ Len(t) = IF n + 1 <= n + 3 THEN n + 3 - (n + 1) + 1 ELSE 0
        /\ \A k \in 1..n + 3 - (n + 1) + 1 : t[k] = head[n + 1 + k - 1]
    <3>1. \A k \in n + 1..n + 3 : head[k] \in Characters
      <4>1. \A k \in n + 1..n + 3 : k \in 1..Len(head)
        BY <1>5, <2>1
      <4> QED BY <4>1, ElementOfSeq DEF Texts
    <3>2. n + 1 \in Int /\ n + 3 \in Int
      OBVIOUS
    <3> QED BY <3>1, <3>2, SubSeqProperties
  <2> HIDE DEF t
  <2>4. Len(t) = 3 /\ \A k \in 1..3 : t[k] = head[n + k]
    <3>1. Len(t) = 3
      BY <2>3
    <3>2. \A k \in 1..3 : k \in 1..n + 3 - (n + 1) + 1 /\ n + 1 + k - 1 = n + k
      OBVIOUS
    <3> QED BY <2>3, <3>1, <3>2
  <2>5. \A k \in 1..3 : t[k] = Separator[k]
    BY <1>9, <2>1, <2>4
  <2>6. t = Separator
    <3>1. Separator \in Seq(Characters) /\ Len(Separator) = Len(t)
      BY <1>1, <2>4 DEF Texts
    <3>2. \A k \in 1..Len(t) : t[k] = Separator[k]
      BY <2>4, <2>5
    <3> QED BY <2>3, <3>1, <3>2, SeqEqual
  <2> QED BY <2>1, <2>2, <2>6 DEF t
<1> QED BY <1>6, <1>8, <1>11, <1>12

\* What chunk_text returns of a passage whose head is what it looks for.
LEMMA OneTitle ==
  ASSUME NEW content, NEW path, path # <<>>, Ends(content) # {}, Len(path) = 1,
         SubSeq(content, 1, Min(Ends(content)) - 1) = path[1]
  PROVE  ChunkText(content, path) = From(content, Min(Ends(content)) + 2)
BY Zenon DEF ChunkText, Ends

\* Where chunk_text sees the second title of the path.
TheGaps(content, path) == Gaps(SubSeq(content, 1, Min(Ends(content)) - 1), path[1], path[2])

\* What chunk_text returns of a passage whose head is titles and one separator.
LEMMA MoreTitles ==
  ASSUME NEW content, NEW path, path # <<>>, Ends(content) # {}, Len(path) # 1,
         NEW head, head = SubSeq(content, 1, Min(Ends(content)) - 1),
         StartsWith(head, path[1]), TheGaps(content, path) # {},
         NEW between, between = SubSeq(head, Len(path[1]) + 1, Min(TheGaps(content, path)) - 1),
         between # <<>>, head = Joined(path, between)
  PROVE  ChunkText(content, path) = From(content, Min(Ends(content)) + 2)
BY Zenon DEF ChunkText, Ends, TheGaps, Gaps

\* Of a passage whose head is the titles of a clear path, chunk_text returns the body.
LEMMA ContentIsRead ==
  ASSUME NEW path, ClearPath(path), NEW body \in Texts
  PROVE  /\ Content(path, body) \in Texts
         /\ ChunkText(Content(path, body), path) = body
<1>1. path \in Seq(Heads) /\ Len(path) \in Nat /\ (Len(path) >= 2 => Unmarked(path[2]))
  BY LenProperties DEF ClearPath
<1>2. PICK head \in Texts :
        /\ head = Joined(path, Separator) /\ Flat(head)
        /\ path # <<>> => head # <<>>
        /\ Len(path) = 1 => head = path[1]
        /\ Len(path) >= 2 => StartsWith(head, Opening(path))
  BY <1>1, HeadOfPath
<1>3. CASE path = <<>>
  <2>1. Joined(path, Separator) = <<>>
    BY <1>3, SeparatorIs, JoinedIs
  <2>2. Content(path, body) = body
    BY <2>1 DEF Content
  <2> QED BY <1>3, <2>2, Zenon DEF ChunkText
<1>4. CASE path # <<>>
  <2>1. PICK content : content = Content(path, body)
    OBVIOUS
  <2>2. content = Laid(head, body)
    BY <1>2, <1>4, <2>1 DEF Content, Laid
  <2>3. PICK ends : ends = Ends(content)
    OBVIOUS
  <2>4. /\ content \in Texts /\ ends # {} /\ Min(ends) = Len(head) + 1
        /\ SubSeq(content, 1, Len(head)) = head
        /\ From(content, Len(head) + 3) = body
    BY <1>2, <2>2, <2>3, HeadEnds
  <2>5. Min(ends) - 1 = Len(head) /\ Min(ends) + 2 = Len(head) + 3
    <3>1. Len(head) \in Nat
      BY LenProperties DEF Texts
    <3> QED BY <2>4, <3>1
  <2>6. SubSeq(content, 1, Min(ends) - 1) = head /\ From(content, Min(ends) + 2) = body
    BY <2>4, <2>5
  <2>7. ChunkText(content, path) = From(content, Min(Ends(content)) + 2)
    <3>1. CASE Len(path) = 1
      <4>1. SubSeq(content, 1, Min(Ends(content)) - 1) = path[1]
        BY <1>2, <2>3, <2>6, <3>1
      <4> QED BY <1>4, <2>3, <2>4, <3>1, <4>1, OneTitle
    <3>2. CASE Len(path) # 1
      <4>1. Len(path) >= 2
        <5>1. Len(path) # 0
          BY <1>1, <1>4, EmptySeq
        <5> QED BY <1>1, <3>2, <5>1
      <4>2. 1 \in 1..Len(path) /\ 2 \in 1..Len(path)
        BY <1>1, <4>1
      <4>3. PICK a \in Heads, b \in Heads : a = path[1] /\ b = path[2]
        BY <1>1, <4>2, ElementOfSeq
      <4>4. Unmarked(b) /\ StartsWith(head, OpeningOf(a, b))
        BY <1>1, <1>2, <4>1, <4>3 DEF Opening
      <4>5. PICK gaps : gaps = Gaps(head, a, b)
        OBVIOUS
      <4>6. /\ StartsWith(head, a) /\ gaps # {}
            /\ SubSeq(head, Len(a) + 1, Min(gaps) - 1) = Separator
        BY <4>4, <4>5, GapIs
      <4>7. TheGaps(content, path) = gaps
        BY <2>3, <2>6, <4>3, <4>5, Zenon DEF TheGaps
      <4>8. Separator # <<>>
        <5>1. Len(Separator) = 3
          BY SeparatorIs
        <5>2. Len(<<>>) = 0
          BY Whites
        <5> QED BY <5>1, <5>2
      <4>9. head = SubSeq(content, 1, Min(Ends(content)) - 1)
        BY <2>3, <2>6
      <4>10. Separator = SubSeq(head, Len(path[1]) + 1, Min(TheGaps(content, path)) - 1)
        BY <4>3, <4>6, <4>7
      <4>11. StartsWith(head, path[1]) /\ TheGaps(content, path) # {} /\ Ends(content) # {}
        BY <2>3, <2>4, <4>3, <4>6, <4>7
      <4> QED BY <1>2, <1>4, <3>2, <4>8, <4>9, <4>10, <4>11, MoreTitles
    <3> QED BY <3>1, <3>2
  <2> QED BY <2>1, <2>3, <2>4, <2>6, <2>7
<1> QED BY <1>3, <1>4

-----------------------------------------------------------------------------
(* Joining: passages say what each adds to the one before, in two windows too *)

\* What each passage adds to what was said before it: all of it, but in a run what
\* overlaps with the one before.
SameRun(last, p) ==
  /\ last # <<>>
  /\ p.ordinal = last[1].ordinal + 1 /\ p.path = last[1].path /\ p.page = last[1].page

Cut(last, p)  == IF SameRun(last, p) THEN OverlapLength(last[1].text, p.text) ELSE 0
Adds(last, p) == Said(p.path, From(p.text, Cut(last, p) + 1))

Latest(passages, previous)    == IF passages = <<>> THEN previous ELSE <<passages[Len(passages)]>>
Before(passages, previous, k) == IF k = 1 THEN previous ELSE <<passages[k - 1]>>
Adding(passages, previous)    ==
  [k \in DOMAIN passages |-> Adds(Before(passages, previous, k), passages[k])]
AllAdd(passages, previous)    == FlattenSeq(Adding(passages, previous))

\* The fields of a passage.
LEMMA PassageIs ==
  ASSUME NEW p \in Passages
  PROVE  /\ p.path \in Seq(Texts) /\ p.text \in Texts /\ p.ordinal \in Nat /\ p.page \in Nat
BY DEF Passages

\* What is cut off of a passage, and what the passage adds.
LEMMA CutIs ==
  ASSUME NEW last \in Seq(Passages), NEW p \in Passages
  PROVE  Cut(last, p) \in Nat /\ Adds(last, p) \in Seq(Spoken)
<1>1. Cut(last, p) \in Nat
  <2>1. CASE SameRun(last, p)
    <3>1. last # <<>>
      BY <2>1 DEF SameRun
    <3>2. 1 \in 1..Len(last)
      <4>1. Len(last) \in Nat \ {0}
        BY <3>1, EmptySeq
      <4> QED BY <4>1
    <3>3. last[1] \in Passages
      BY <3>2, ElementOfSeq
    <3>4. OverlapLength(last[1].text, p.text) \in Nat
      BY <3>3, PassageIs, OverlapIsNat
    <3> QED BY <2>1, <3>4 DEF Cut
  <2>2. CASE ~SameRun(last, p)
    BY <2>2 DEF Cut
  <2> QED BY <2>1, <2>2
<1>2. PICK k \in Nat : k = Cut(last, p)
  BY <1>1
<1>3. From(p.text, k + 1) \in Texts
  BY PassageIs, FromIsText
<1>4. Said(p.path, From(p.text, k + 1)) \in Seq(Spoken)
  BY <1>3, PassageIs, SaidIs
<1> QED BY <1>1, <1>2, <1>4 DEF Adds

\* The passage before each, and the last one.
LEMMA LatestIs ==
  ASSUME NEW E, NEW s \in Seq(E), NEW previous \in Seq(E)
  PROVE  /\ Latest(s, previous) \in Seq(E)
         /\ \A k \in 1..Len(s) : Before(s, previous, k) \in Seq(E)
<1>1. Len(s) \in Nat /\ \A k \in 1..Len(s) : s[k] \in E
  BY LenProperties, ElementOfSeq
<1>2. \A e \in E : <<e>> \in Seq(E)
  OBVIOUS
<1>3. Latest(s, previous) \in Seq(E)
  <2>1. CASE s = <<>>
    BY <2>1 DEF Latest
  <2>2. CASE s # <<>>
    <3>1. Len(s) \in Nat \ {0}
      BY <2>2, EmptySeq
    <3>2. Len(s) \in 1..Len(s)
      BY <3>1
    <3> QED BY <1>1, <1>2, <2>2, <3>2 DEF Latest
  <2> QED BY <2>1, <2>2
<1>4. ASSUME NEW k \in 1..Len(s) PROVE Before(s, previous, k) \in Seq(E)
  <2>1. CASE k = 1
    BY <2>1 DEF Before
  <2>2. CASE k # 1
    <3>1. k - 1 \in 1..Len(s)
      BY <1>1, <2>2
    <3> QED BY <1>1, <1>2, <2>2, <3>1 DEF Before
  <2> QED BY <2>1, <2>2
<1> QED BY <1>3, <1>4

\* The passage before each of two sequences in a row.
LEMMA BeforeConcat ==
  ASSUME NEW E, NEW s \in Seq(E), NEW t \in Seq(E), NEW previous
  PROVE  /\ \A k \in 1..Len(s) :
              (s \o t)[k] = s[k] /\ Before(s \o t, previous, k) = Before(s, previous, k)
         /\ \A j \in 1..Len(t) :
              /\ (s \o t)[Len(s) + j] = t[j]
              /\ Before(s \o t, previous, Len(s) + j) = Before(t, Latest(s, previous), j)
<1>a. Len(s) \in Nat /\ Len(t) \in Nat
  BY LenProperties
<1>b. s \o t \in Seq(E)
  BY ConcatProperties
<1>1. PICK u \in Seq(E), n \in Nat, m \in Nat : u = s \o t /\ n = Len(s) /\ m = Len(t)
  BY <1>a, <1>b
<1>2. \A i \in 1..n + m : u[i] = IF i <= n THEN s[i] ELSE t[i - n]
  BY <1>1, ConcatProperties
<1>3. \A i \in 1..n : u[i] = s[i]
  <2>1. \A i \in 1..n : i \in 1..n + m /\ i <= n
    OBVIOUS
  <2> QED BY <1>2, <2>1
<1>4. \A j \in 1..m : u[n + j] = t[j]
  <2>1. \A j \in 1..m : n + j \in 1..n + m /\ ~(n + j <= n) /\ n + j - n = j
    OBVIOUS
  <2> QED BY <1>2, <2>1
<1>5. ASSUME NEW k \in 1..n PROVE Before(u, previous, k) = Before(s, previous, k)
  <2>1. CASE k = 1
    BY <2>1 DEF Before
  <2>2. CASE k # 1
    <3>1. k - 1 \in 1..n
      BY <2>2
    <3>2. u[k - 1] = s[k - 1]
      BY <1>3, <3>1
    <3> QED BY <2>2, <3>2 DEF Before
  <2> QED BY <2>1, <2>2
<1>6. ASSUME NEW j \in 1..m PROVE Before(u, previous, n + j) = Before(t, Latest(s, previous), j)
  <2>1. CASE j = 1 /\ n = 0
    <3>1. s = <<>>
      BY <1>1, <2>1, EmptySeq
    <3>2. n + j = 1
      BY <2>1
    <3> QED BY <2>1, <3>1, <3>2 DEF Before, Latest
  <2>2. CASE j = 1 /\ n # 0
    <3>1. s # <<>>
      BY <1>1, <2>2, EmptySeq
    <3>2. n + j # 1 /\ n + j - 1 = n /\ n \in 1..n
      BY <2>2
    <3>3. u[n + j - 1] = s[n]
      BY <1>3, <3>2
    <3>4. Before(u, previous, n + j) = <<s[n]>>
      BY <3>2, <3>3 DEF Before
    <3>5. Latest(s, previous) = <<s[n]>>
      BY <1>1, <3>1 DEF Latest
    <3> QED BY <2>2, <3>4, <3>5 DEF Before
  <2>3. CASE j # 1
    <3>1. n + j # 1 /\ n + j - 1 = n + (j - 1) /\ j - 1 \in 1..m
      BY <2>3
    <3>2. u[n + j - 1] = t[j - 1]
      BY <1>4, <3>1
    <3> QED BY <2>3, <3>1, <3>2 DEF Before
  <2> QED BY <2>1, <2>2, <2>3
<1> QED BY <1>1, <1>3, <1>4, <1>5, <1>6

\* What each of some passages adds.
LEMMA AddingIs ==
  ASSUME NEW s \in Seq(Passages), NEW previous \in Seq(Passages)
  PROVE  /\ Adding(s, previous) \in Seq(Seq(Spoken)) /\ Len(Adding(s, previous)) = Len(s)
         /\ \A k \in 1..Len(s) :
              Adding(s, previous)[k] = Adds(Before(s, previous, k), s[k])
<1>1. /\ Len(s) \in Nat /\ DOMAIN s = 1..Len(s)
      /\ \A k \in 1..Len(s) : s[k] \in Passages /\ Before(s, previous, k) \in Seq(Passages)
  BY LenProperties, ElementOfSeq, LatestIs
<1>2. \A k \in 1..Len(s) : Adds(Before(s, previous, k), s[k]) \in Seq(Spoken)
  BY <1>1, CutIs
<1>3. Adding(s, previous) = [k \in 1..Len(s) |-> Adds(Before(s, previous, k), s[k])]
  BY <1>1 DEF Adding
<1>4. PICK f : f = Adding(s, previous)
  OBVIOUS
<1>5. f \in [1..Len(s) -> Seq(Spoken)]
  BY <1>2, <1>3, <1>4
<1>6. f \in Seq(Seq(Spoken)) /\ Len(f) = Len(s)
  BY <1>1, <1>5, IsSequence
<1>7. \A k \in 1..Len(s) : f[k] = Adds(Before(s, previous, k), s[k])
  BY <1>3, <1>4
<1> QED BY <1>4, <1>6, <1>7

\* What the passages of two windows add, the second beginning after the last of the first.
LEMMA AllAddIs ==
  ASSUME NEW previous \in Seq(Passages)
  PROVE  /\ AllAdd(<<>>, previous) = <<>>
         /\ \A s \in Seq(Passages) : AllAdd(s, previous) \in Seq(Spoken)
         /\ \A s, t \in Seq(Passages) :
              AllAdd(s \o t, previous) = AllAdd(s, previous) \o AllAdd(t, Latest(s, previous))
         /\ \A p \in Passages : AllAdd(<<p>>, previous) = Adds(previous, p)
<1>1. AllAdd(<<>>, previous) = <<>>
  <2>1. Adding(<<>>, previous) = <<>>
    BY DEF Adding
  <2> QED BY <2>1, Flattened DEF AllAdd
<1>2. ASSUME NEW s \in Seq(Passages) PROVE AllAdd(s, previous) \in Seq(Spoken)
  BY AddingIs, Flattened DEF AllAdd
<1>3. ASSUME NEW s \in Seq(Passages), NEW t \in Seq(Passages)
      PROVE  AllAdd(s \o t, previous) = AllAdd(s, previous) \o AllAdd(t, Latest(s, previous))
  <2>1. PICK next \in Seq(Passages) : next = Latest(s, previous)
    BY LatestIs
  <2>2. PICK u \in Seq(Passages) : u = s \o t /\ Len(u) = Len(s) + Len(t)
    BY ConcatProperties
  <2>3. PICK a \in Seq(Seq(Spoken)), b \in Seq(Seq(Spoken)), c \in Seq(Seq(Spoken)) :
          a = Adding(s, previous) /\ b = Adding(t, next) /\ c = Adding(u, previous)
    BY <2>1, <2>2, AddingIs
  <2>4. PICK n \in Nat, m \in Nat : n = Len(s) /\ m = Len(t)
    BY LenProperties
  <2>5. /\ Len(a) = n /\ Len(b) = m /\ Len(c) = n + m
        /\ \A k \in 1..n : a[k] = Adds(Before(s, previous, k), s[k])
        /\ \A k \in 1..m : b[k] = Adds(Before(t, next, k), t[k])
        /\ \A k \in 1..n + m : c[k] = Adds(Before(u, previous, k), u[k])
    BY <2>1, <2>2, <2>3, <2>4, AddingIs
  <2>6. /\ \A k \in 1..n : u[k] = s[k] /\ Before(u, previous, k) = Before(s, previous, k)
        /\ \A j \in 1..m : /\ u[n + j] = t[j]
                           /\ Before(u, previous, n + j) = Before(t, next, j)
    BY <2>1, <2>2, <2>4, BeforeConcat
  <2>7. \A k \in 1..n : c[k] = a[k]
    <3>1. \A k \in 1..n : k \in 1..n + m
      OBVIOUS
    <3> QED BY <2>5, <2>6, <3>1
  <2>8. \A j \in 1..m : c[n + j] = b[j]
    <3>1. \A j \in 1..m : n + j \in 1..n + m
      OBVIOUS
    <3> QED BY <2>5, <2>6, <3>1
  <2>9. c = a \o b
    <3>1. PICK C : C = Seq(Spoken)
      OBVIOUS
    <3>2. a \in Seq(C) /\ b \in Seq(C) /\ c \in Seq(C)
      BY <3>1
    <3>3. PICK d \in Seq(C) : d = a \o b
      BY <3>2, ConcatProperties
    <3>4. Len(d) = n + m /\ \A i \in 1..n + m : d[i] = IF i <= n THEN a[i] ELSE b[i - n]
      BY <2>5, <3>2, <3>3, ConcatProperties
    <3>5. ASSUME NEW i \in 1..n + m PROVE c[i] = d[i]
      <4>1. CASE i <= n
        <5>1. i \in 1..n
          BY <4>1
        <5> QED BY <2>7, <3>4, <4>1, <5>1
      <4>2. CASE ~(i <= n)
        <5>1. i - n \in 1..m /\ n + (i - n) = i
          BY <4>2
        <5> QED BY <2>8, <3>4, <4>2, <5>1
      <4> QED BY <4>1, <4>2
    <3>6. c = d
      BY <2>5, <3>2, <3>4, <3>5, SeqEqual
    <3> QED BY <3>3, <3>6
  <2>10. FlattenSeq(a \o b) = FlattenSeq(a) \o FlattenSeq(b)
    BY FlattenConcat
  <2> QED BY <2>1, <2>2, <2>3, <2>9, <2>10, Zenon DEF AllAdd
<1>4. ASSUME NEW p \in Passages PROVE AllAdd(<<p>>, previous) = Adds(previous, p)
  <2>1. Len(<<p>>) = 1 /\ <<p>>[1] = p /\ <<p>> \in Seq(Passages)
    OBVIOUS
  <2>2. PICK s \in Seq(Passages) : s = <<p>>
    BY <2>1
  <2>3. PICK f \in Seq(Seq(Spoken)) : f = Adding(s, previous)
    BY AddingIs
  <2>4. Len(f) = 1 /\ f[1] = Adds(previous, p)
    <3>1. /\ Len(f) = Len(s)
          /\ \A k \in 1..Len(s) : f[k] = Adds(Before(s, previous, k), s[k])
      BY <2>3, AddingIs
    <3>2. Before(s, previous, 1) = previous
      BY DEF Before
    <3> QED BY <2>1, <2>2, <3>1, <3>2
  <2>5. PICK x \in Seq(Spoken) : x = Adds(previous, p)
    BY CutIs
  <2>6. f = <<x>>
    BY <2>4, <2>5
  <2>7. FlattenSeq(<<x>>) = x
    BY FlattenOne
  <2> QED BY <2>2, <2>3, <2>5, <2>6, <2>7, Zenon DEF AllAdd
<1> QED BY <1>1, <1>2, <1>3, <1>4

\* What passages say is what each of them does, in order.
LEMMA PassagesSayIs ==
  /\ PassagesSay(<<>>) = <<>>
  /\ \A s \in Seq(Passages) : PassagesSay(s) \in Seq(Spoken)
  /\ \A s \in Seq(Passages), p \in Passages :
       PassagesSay(Append(s, p)) = PassagesSay(s) \o Said(p.path, p.text)
<1> DEFINE F == [p \in Passages |-> Said(p.path, p.text)]
<1>1. F \in Maps(Passages, Seq(Spoken)) /\ \A p \in Passages : F[p] = Said(p.path, p.text)
  <2>1. ASSUME NEW p \in Passages PROVE Said(p.path, p.text) \in Seq(Spoken)
    BY PassageIs, SaidIs
  <2> QED BY <2>1 DEF Maps
<1>2. ASSUME NEW s \in Seq(Passages) PROVE PassagesSay(s) = FlattenSeq(Mapped(F, s))
  <2>1. \A i \in DOMAIN s : s[i] \in Passages
    BY LenProperties, ElementOfSeq
  <2>2. [i \in DOMAIN s |-> Said(s[i].path, s[i].text)] = [i \in DOMAIN s |-> F[s[i]]]
    BY <1>1, <2>1
  <2> QED BY <2>2, Zenon DEF PassagesSay, Mapped
<1> HIDE DEF F
<1>3. /\ FlattenSeq(Mapped(F, <<>>)) = <<>>
      /\ \A s \in Seq(Passages) : FlattenSeq(Mapped(F, s)) \in Seq(Spoken)
      /\ \A s \in Seq(Passages), p \in Passages :
           FlattenSeq(Mapped(F, Append(s, p))) = FlattenSeq(Mapped(F, s)) \o F[p]
  BY <1>1, FlatMapped
<1>4. <<>> \in Seq(Passages) /\ \A s \in Seq(Passages), p \in Passages :
        Append(s, p) \in Seq(Passages)
  BY AppendProperties, EmptySeq
<1>5. PassagesSay(<<>>) = <<>>
  BY <1>2, <1>3, <1>4, Zenon
<1>6. \A s \in Seq(Passages) : PassagesSay(s) \in Seq(Spoken)
  BY <1>2, <1>3
<1>7. ASSUME NEW s \in Seq(Passages), NEW p \in Passages
      PROVE  PassagesSay(Append(s, p)) = PassagesSay(s) \o Said(p.path, p.text)
  <2>1. FlattenSeq(Mapped(F, Append(s, p))) = FlattenSeq(Mapped(F, s)) \o F[p]
    BY <1>3
  <2>2. /\ PassagesSay(Append(s, p)) = FlattenSeq(Mapped(F, Append(s, p)))
        /\ PassagesSay(s) = FlattenSeq(Mapped(F, s))
    BY <1>2, <1>4
  <2>3. F[p] = Said(p.path, p.text)
    BY <1>1
  <2> QED BY <2>1, <2>2, <2>3, Zenon
<1> QED BY <1>5, <1>6, <1>7

\* The last passage with more text; what a passage adds; the loop of join_passages.
WithMore(out, more) == [out EXCEPT ![Len(out)].text = @ \o more]

\* The last passage goes on.
LEMMA WithMoreSays ==
  ASSUME NEW out \in Seq(Passages), out # <<>>, NEW more \in Texts
  PROVE  /\ WithMore(out, more) \in Seq(Passages) /\ WithMore(out, more) # <<>>
         /\ WithMore(out, more)[Len(WithMore(out, more))].path = out[Len(out)].path
         /\ out[Len(out)].path \in Seq(Texts)
         /\ PassagesSay(WithMore(out, more))
              = PassagesSay(out) \o Said(out[Len(out)].path, more)
<1>1. PICK front \in Seq(Passages), p \in Passages : out = Append(front, p)
  BY SequenceEmptyOrAppend
<1>2. PICK n \in Nat : n = Len(front)
  BY LenProperties
<1>3. /\ Len(out) = n + 1 /\ out[n + 1] = p /\ DOMAIN out = 1..n + 1
      /\ \A i \in 1..n : out[i] = front[i]
  <2>1. Len(out) = n + 1 /\ out[n + 1] = p /\ \A i \in 1..n : out[i] = front[i]
    BY <1>1, <1>2, AppendProperties
  <2>2. DOMAIN out = 1..Len(out)
    BY LenProperties
  <2> QED BY <2>1, <2>2
<1>4. PICK q : q = [p EXCEPT !.text = p.text \o more]
  OBVIOUS
<1>5. /\ q \in Passages /\ q.path = p.path /\ q.text = p.text \o more
      /\ p.path \in Seq(Texts) /\ p.text \in Texts
  <2>1. p.text \o more \in Texts
    BY PassageIs, ConcatProperties DEF Texts
  <2>2. PICK t \in Texts : t = p.text \o more
    BY <2>1
  <2>3. q = [p EXCEPT !.text = t]
    BY <1>4, <2>2
  <2>4. q \in Passages /\ q.path = p.path /\ q.text = t
    BY <2>3 DEF Passages
  <2> QED BY <2>2, <2>4, PassageIs
<1>6. WithMore(out, more) = Append(front, q)
  <2>1. WithMore(out, more) = [out EXCEPT ![n + 1] = q]
    BY <1>3, <1>4 DEF WithMore
  <2>2. n + 1 \in 1..Len(out)
    BY <1>3
  <2>3. PICK w \in Seq(Passages) : w = [out EXCEPT ![n + 1] = q]
    BY <1>5, <2>2, ExceptSeq
  <2>4. Len(w) = n + 1 /\ \A j \in 1..n + 1 : w[j] = IF j = n + 1 THEN q ELSE out[j]
    BY <1>3, <1>5, <2>2, <2>3, ExceptSeq
  <2>5. PICK v \in Seq(Passages) : v = Append(front, q)
    BY <1>5, AppendProperties
  <2>6. Len(v) = n + 1 /\ v[n + 1] = q /\ \A i \in 1..n : v[i] = front[i]
    BY <1>2, <1>5, <2>5, AppendProperties
  <2>7. ASSUME NEW j \in 1..n + 1 PROVE w[j] = v[j]
    <3>1. CASE j = n + 1
      BY <2>4, <2>6, <3>1
    <3>2. CASE j # n + 1
      <4>1. j \in 1..n
        BY <3>2
      <4> QED BY <1>3, <2>4, <2>6, <3>2, <4>1
    <3> QED BY <3>1, <3>2
  <2>8. w = v
    BY <2>4, <2>6, <2>7, SeqEqual
  <2> QED BY <2>1, <2>3, <2>5, <2>8
<1>7. PICK v \in Seq(Passages) : v = Append(front, q) /\ Len(v) = n + 1 /\ v[n + 1] = q
  <2>1. /\ Append(front, q) \in Seq(Passages) /\ Len(Append(front, q)) = Len(front) + 1
        /\ Append(front, q)[Len(front) + 1] = q
    BY <1>5, AppendProperties
  <2> QED BY <1>2, <2>1
<1>8. v # <<>>
  BY <1>7, EmptySeq
<1>9. PassagesSay(v) = PassagesSay(out) \o Said(p.path, more)
  <2>1. PassagesSay(v) = PassagesSay(front) \o Said(p.path, p.text \o more)
    BY <1>5, <1>7, PassagesSayIs
  <2>2. PassagesSay(out) = PassagesSay(front) \o Said(p.path, p.text)
    BY <1>1, PassagesSayIs
  <2>3. /\ Said(p.path, p.text \o more) = Said(p.path, p.text) \o Said(p.path, more)
        /\ Said(p.path, p.text) \in Seq(Spoken) /\ Said(p.path, more) \in Seq(Spoken)
    BY <1>5, SaidIs
  <2>4. PassagesSay(front) \in Seq(Spoken)
    BY PassagesSayIs
  <2>5. (PassagesSay(front) \o Said(p.path, p.text)) \o Said(p.path, more)
          = PassagesSay(front) \o (Said(p.path, p.text) \o Said(p.path, more))
    BY <2>3, <2>4, ConcatAssociative
  <2> QED BY <2>1, <2>2, <2>3, <2>5, Zenon
<1>10. out[Len(out)].path = p.path /\ v[Len(v)].path = p.path
  BY <1>3, <1>5, <1>7
<1> QED BY <1>5, <1>6, <1>7, <1>8, <1>9, <1>10, Zenon

RestOf(last, chunk) == From(chunk.text, Cut(last, chunk) + 1)

\* What join_passages does with one more passage.
LEMMA JoinNextIs ==
  ASSUME NEW acc \in Joining, NEW chunk \in Passages
  PROVE  \/ /\ SameRun(acc.last, chunk) /\ acc.out # <<>>
            /\ \E more \in {RestOf(acc.last, chunk), Blank \o RestOf(acc.last, chunk)} :
                 JoinNext(acc, chunk) = [last |-> <<chunk>>, out |-> WithMore(acc.out, more)]
         \/ \E text \in {LStrip(RestOf(acc.last, chunk)), chunk.text} :
              /\ text = LStrip(RestOf(acc.last, chunk)) \/ Cut(acc.last, chunk) = 0
              /\ JoinNext(acc, chunk)
                   = [last |-> <<chunk>>, out |-> Append(acc.out, [chunk EXCEPT !.text = text])]
<1>1. acc.out \in Seq(Passages)
  BY DEF Joining
<1>2. acc.out # <<>> <=> Len(acc.out) > 0
  <2>1. Len(acc.out) \in Nat /\ (acc.out # <<>> => Len(acc.out) \in Nat \ {0})
    BY <1>1, LenProperties, EmptySeq
  <2>2. acc.out = <<>> => Len(acc.out) = 0
    BY EmptySeq
  <2> QED BY <2>1, <2>2
<1>3. PICK cut \in Nat : cut = Cut(acc.last, chunk)
  <2>1. acc.last \in Seq(Passages)
    BY DEF Joining
  <2> QED BY <2>1, CutIs
<1>4. PICK rest : rest = From(chunk.text, cut + 1) /\ rest = RestOf(acc.last, chunk)
  BY <1>3 DEF RestOf
<1>5. JoinNext(acc, chunk)
        = [last |-> <<chunk>>,
           out  |-> IF SameRun(acc.last, chunk) /\ Len(acc.out) > 0
                    THEN [acc.out EXCEPT ![Len(acc.out)].text
                                  = @ \o (IF cut > 0 THEN rest ELSE Blank \o rest)]
                    ELSE Append(acc.out,
                                [chunk EXCEPT !.text = IF cut > 0 THEN LStrip(rest) ELSE @])]
  BY <1>3, <1>4, Zenon DEF JoinNext, SameRun, Cut
<1>6. CASE SameRun(acc.last, chunk) /\ acc.out # <<>>
  <2>1. PICK more \in {rest, Blank \o rest} : more = IF cut > 0 THEN rest ELSE Blank \o rest
    OBVIOUS
  <2>2. JoinNext(acc, chunk) = [last |-> <<chunk>>, out |-> WithMore(acc.out, more)]
    BY <1>2, <1>5, <1>6, <2>1, Zenon DEF WithMore
  <2> QED BY <1>4, <1>6, <2>1, <2>2, Zenon
<1>7. CASE ~(SameRun(acc.last, chunk) /\ acc.out # <<>>)
  <2>1. JoinNext(acc, chunk)
        = [last |-> <<chunk>>,
           out  |-> Append(acc.out,
                           [chunk EXCEPT !.text = IF cut > 0 THEN LStrip(rest) ELSE @])]
    BY <1>2, <1>5, <1>7, Zenon
  <2>2. CASE cut > 0
    <3>1. JoinNext(acc, chunk)
            = [last |-> <<chunk>>, out |-> Append(acc.out, [chunk EXCEPT !.text = LStrip(rest)])]
      BY <2>1, <2>2, Zenon
    <3> QED BY <1>4, <3>1, Zenon
  <2>3. CASE ~(cut > 0)
    <3>1. JoinNext(acc, chunk)
            = [last |-> <<chunk>>, out |-> Append(acc.out, [chunk EXCEPT !.text = chunk.text])]
      BY <2>1, <2>3, Zenon
    <3>2. Cut(acc.last, chunk) = 0
      BY <1>3, <2>3
    <3> QED BY <3>1, <3>2, Zenon
  <2> QED BY <2>2, <2>3
<1> QED BY <1>6, <1>7

JoinStep == [p \in Joining \X Passages |-> JoinNext(p[1], p[2])]

\* Joining a passage is a step of the loop.
LEMMA JoinStepIs ==
  /\ JoinStep \in Steps(Joining, Passages)
  /\ \A acc \in Joining, chunk \in Passages : JoinStep[<<acc, chunk>>] = JoinNext(acc, chunk)
<1>1. ASSUME NEW acc \in Joining, NEW chunk \in Passages PROVE JoinNext(acc, chunk) \in Joining
  <2>1. acc.last \in Seq(Passages) /\ acc.out \in Seq(Passages) /\ <<chunk>> \in Seq(Passages)
    BY DEF Joining
  <2>2. PICK rest \in Texts : rest = RestOf(acc.last, chunk)
    <3>1. PICK k \in Nat : k = Cut(acc.last, chunk)
      BY <2>1, CutIs
    <3>2. From(chunk.text, k + 1) \in Texts
      BY PassageIs, FromIsText
    <3> QED BY <3>1, <3>2 DEF RestOf
  <2>3. Blank \o rest \in Texts /\ LStrip(rest) \in Texts /\ chunk.text \in Texts
    <3>1. <<>> \in Seq(Texts)
      BY EmptySeq
    <3>2. Blank \o rest \in Texts
      BY Whites, AllTexts
    <3> QED BY <3>1, <3>2, LStripKeeps, PassageIs
  <2>4. CASE acc.out # <<>> /\ \E more \in {rest, Blank \o rest} :
               JoinNext(acc, chunk) = [last |-> <<chunk>>, out |-> WithMore(acc.out, more)]
    <3>1. PICK more \in Texts :
            JoinNext(acc, chunk) = [last |-> <<chunk>>, out |-> WithMore(acc.out, more)]
      BY <2>3, <2>4
    <3>2. WithMore(acc.out, more) \in Seq(Passages)
      BY <2>1, <2>4, WithMoreSays
    <3> QED BY <2>1, <3>1, <3>2 DEF Joining
  <2>5. CASE \E text \in {LStrip(rest), chunk.text} :
               JoinNext(acc, chunk)
                 = [last |-> <<chunk>>, out |-> Append(acc.out, [chunk EXCEPT !.text = text])]
    <3>1. PICK text \in Texts :
            JoinNext(acc, chunk)
              = [last |-> <<chunk>>, out |-> Append(acc.out, [chunk EXCEPT !.text = text])]
      BY <2>3, <2>5
    <3>2. [chunk EXCEPT !.text = text] \in Passages
      BY DEF Passages
    <3>3. Append(acc.out, [chunk EXCEPT !.text = text]) \in Seq(Passages)
      BY <2>1, <3>2, AppendProperties
    <3> QED BY <2>1, <3>1, <3>3 DEF Joining
  <2> QED BY <2>2, <2>4, <2>5, JoinNextIs, Zenon
<1>2. ASSUME NEW p \in Joining \X Passages PROVE JoinNext(p[1], p[2]) \in Joining
  <2>1. p[1] \in Joining /\ p[2] \in Passages
    OBVIOUS
  <2> QED BY <1>1, <2>1
<1>3. JoinStep \in Steps(Joining, Passages)
  BY <1>2 DEF JoinStep, Steps
<1>4. ASSUME NEW acc \in Joining, NEW chunk \in Passages
      PROVE  JoinStep[<<acc, chunk>>] = JoinNext(acc, chunk)
  <2>1. /\ <<acc, chunk>> \in Joining \X Passages
        /\ <<acc, chunk>>[1] = acc /\ <<acc, chunk>>[2] = chunk
    OBVIOUS
  <2> QED BY <2>1 DEF JoinStep
<1> QED BY <1>3, <1>4

\* So far what is joined says what the passages add, and its last goes on with theirs.
JoinInv(acc, passages, previous) ==
  /\ acc \in Joining /\ acc.last = Latest(passages, previous)
  /\ PassagesSay(acc.out) = AllAdd(passages, previous)
  /\ acc.out # <<>> =>
       acc.last # <<>> /\ acc.out[Len(acc.out)].path = acc.last[1].path

\* A passage more keeps the invariant of joining.
LEMMA JoinNextSays ==
  ASSUME NEW passages \in Seq(Passages), NEW previous \in Seq(Passages),
         NEW acc, JoinInv(acc, passages, previous), NEW chunk \in Passages
  PROVE  JoinInv(JoinNext(acc, chunk), Append(passages, chunk), previous)
<1>1. /\ acc \in Joining /\ acc.last = Latest(passages, previous)
      /\ PassagesSay(acc.out) = AllAdd(passages, previous)
      /\ acc.out # <<>> =>
           acc.last # <<>> /\ acc.out[Len(acc.out)].path = acc.last[1].path
  BY DEF JoinInv
<1>2. /\ acc.last \in Seq(Passages) /\ acc.out \in Seq(Passages)
      /\ chunk.text \in Texts /\ chunk.path \in Seq(Texts)
  BY <1>1, PassageIs DEF Joining
<1>3. PICK k \in Nat : k = Cut(acc.last, chunk)
  BY <1>2, CutIs
<1>4. PICK rest \in Texts :
        rest = RestOf(acc.last, chunk) /\ rest = From(chunk.text, k + 1)
  BY <1>2, <1>3, FromIsText DEF RestOf
<1>5. Adds(acc.last, chunk) = Said(chunk.path, rest)
  BY <1>3, <1>4 DEF Adds
<1>6. PICK more : more = Append(passages, chunk)
  OBVIOUS
<1>7. AllAdd(more, previous) = AllAdd(passages, previous) \o Said(chunk.path, rest)
  <2>1. <<chunk>> \in Seq(Passages) /\ passages \o <<chunk>> = Append(passages, chunk)
    BY AppendIsConcat
  <2>2. AllAdd(passages \o <<chunk>>, previous)
          = AllAdd(passages, previous) \o AllAdd(<<chunk>>, Latest(passages, previous))
    BY <2>1, AllAddIs
  <2>3. AllAdd(<<chunk>>, Latest(passages, previous)) = Adds(Latest(passages, previous), chunk)
    BY LatestIs, AllAddIs
  <2> QED BY <1>1, <1>5, <1>6, <2>1, <2>2, <2>3, Zenon
<1>8. Latest(more, previous) = <<chunk>>
  <2>1. more \in Seq(Passages) /\ Len(more) = Len(passages) + 1 /\ more[Len(passages) + 1] = chunk
    BY <1>6, AppendProperties
  <2>2. Len(passages) \in Nat
    BY LenProperties
  <2>3. more # <<>>
    <3>1. Len(more) # 0
      BY <2>1, <2>2
    <3> QED BY <3>1, EmptySeq
  <2>4. more[Len(more)] = chunk
    BY <2>1
  <2> QED BY <2>3, <2>4 DEF Latest
<1>9. <<chunk>> # <<>> /\ <<chunk>>[1] = chunk
  OBVIOUS
<1>10. PICK next \in Joining : next = JoinNext(acc, chunk)
  BY <1>1, JoinStepIs, StepOf
<1>11. ASSUME NEW t \in {rest, Blank \o rest}, SameRun(acc.last, chunk), acc.out # <<>>,
              next = [last |-> <<chunk>>, out |-> WithMore(acc.out, t)]
       PROVE  JoinInv(next, more, previous)
  <2>1. t \in Texts /\ Said(chunk.path, t) = Said(chunk.path, rest)
    <3>1. Blank \in Joiners
      BY DEF Joiners
    <3>2. Blank \o rest \in Texts /\ Said(chunk.path, Blank \o rest) = Said(chunk.path, rest)
      BY <1>2, <3>1, AddedSays
    <3> QED BY <3>2
  <2>2. PICK out : out = WithMore(acc.out, t)
    OBVIOUS
  <2>3. /\ out \in Seq(Passages) /\ out[Len(out)].path = acc.out[Len(acc.out)].path
        /\ PassagesSay(out) = PassagesSay(acc.out) \o Said(acc.out[Len(acc.out)].path, t)
    BY <1>2, <1>11, <2>1, <2>2, WithMoreSays
  <2>4. acc.out[Len(acc.out)].path = chunk.path
    BY <1>1, <1>11 DEF SameRun
  <2>5. next.last = <<chunk>> /\ next.out = out
    BY <1>11, <2>2
  <2>6. PassagesSay(out) = AllAdd(more, previous)
    BY <1>1, <1>7, <2>1, <2>3, <2>4
  <2> QED BY <1>8, <1>9, <1>10, <2>3, <2>4, <2>5, <2>6 DEF JoinInv
<1>12. ASSUME NEW t \in {LStrip(rest), chunk.text}, t = LStrip(rest) \/ Cut(acc.last, chunk) = 0,
              next = [last |-> <<chunk>>, out |-> Append(acc.out, [chunk EXCEPT !.text = t])]
       PROVE  JoinInv(next, more, previous)
  <2>1. t \in Texts /\ Said(chunk.path, t) = Said(chunk.path, rest)
    <3>1. CASE t = LStrip(rest)
      BY <1>2, <3>1, LStripKeeps
    <3>2. CASE t = chunk.text /\ k = 0
      <4>1. From(chunk.text, 1) = chunk.text
        BY <1>2, FromTheFirst DEF Texts
      <4>2. rest = chunk.text
        BY <1>4, <3>2, <4>1
      <4> QED BY <1>2, <3>2, <4>2
    <3> QED BY <1>3, <1>12, <3>1, <3>2
  <2>2. PICK p : p = [chunk EXCEPT !.text = t]
    OBVIOUS
  <2>3. p \in Passages /\ p.path = chunk.path /\ p.text = t
    BY <2>1, <2>2 DEF Passages
  <2>4. PICK out : out = Append(acc.out, p)
    OBVIOUS
  <2>5. /\ out \in Seq(Passages) /\ Len(out) = Len(acc.out) + 1 /\ out[Len(acc.out) + 1] = p
        /\ PassagesSay(out) = PassagesSay(acc.out) \o Said(p.path, p.text)
    BY <1>2, <2>3, <2>4, AppendProperties, PassagesSayIs
  <2>6. out[Len(out)].path = chunk.path
    BY <2>3, <2>5
  <2>7. next.last = <<chunk>> /\ next.out = out
    BY <1>12, <2>2, <2>4
  <2>8. PassagesSay(out) = AllAdd(more, previous)
    BY <1>1, <1>7, <2>1, <2>3, <2>5
  <2> QED BY <1>8, <1>9, <1>10, <2>5, <2>6, <2>7, <2>8 DEF JoinInv
<1>13. \/ /\ SameRun(acc.last, chunk) /\ acc.out # <<>>
          /\ \E t \in {rest, Blank \o rest} :
               next = [last |-> <<chunk>>, out |-> WithMore(acc.out, t)]
       \/ \E t \in {LStrip(rest), chunk.text} :
            /\ t = LStrip(rest) \/ Cut(acc.last, chunk) = 0
            /\ next = [last |-> <<chunk>>, out |-> Append(acc.out, [chunk EXCEPT !.text = t])]
  <2>1. rest = RestOf(acc.last, chunk) /\ acc \in Joining /\ next = JoinNext(acc, chunk)
    BY <1>1, <1>4, <1>10
  <2> QED BY <2>1, JoinNextIs, Zenon
<1>14. JoinInv(next, more, previous)
  BY <1>11, <1>12, <1>13, Zenon
<1> QED BY <1>6, <1>10, <1>14, Zenon

\* Joined, passages say what they add.
LEMMA JoinSays ==
  ASSUME NEW passages \in Seq(Passages), NEW previous \in Seq(Passages)
  PROVE  PassagesSay(JoinPassages(passages, previous)) = AllAdd(passages, previous)
<1> DEFINE start == [last |-> previous, out |-> <<>>]
           T == {s \in Seq(Passages) : JoinInv(TakenIn(JoinStep, start, s), s, previous)}
<1>0. <<>> \in Seq(Passages)
  BY EmptySeq
<1>1. start \in Joining /\ start.last = previous /\ start.out = <<>>
  BY <1>0 DEF Joining
<1> HIDE DEF start
<1>2. /\ TakenIn(JoinStep, start, <<>>) = start
      /\ \A s \in Seq(Passages) : TakenIn(JoinStep, start, s) \in Joining
      /\ \A s \in Seq(Passages), e \in Passages :
           TakenIn(JoinStep, start, Append(s, e)) = JoinStep[<<TakenIn(JoinStep, start, s), e>>]
  BY <1>1, JoinStepIs, TakenInSteps
<1>3. <<>> \in T
  <2>1. Latest(<<>>, previous) = previous
    BY DEF Latest
  <2>2. PassagesSay(<<>>) = <<>> /\ AllAdd(<<>>, previous) = <<>>
    BY PassagesSayIs, AllAddIs
  <2>3. JoinInv(start, <<>>, previous)
    BY <1>1, <2>1, <2>2 DEF JoinInv
  <2>4. JoinInv(TakenIn(JoinStep, start, <<>>), <<>>, previous)
    BY <1>2, <2>3
  <2> QED BY <1>0, <2>4, Zenon
<1>4. ASSUME NEW s \in Seq(Passages), NEW e \in Passages, s \in T PROVE Append(s, e) \in T
  <2>1. JoinInv(TakenIn(JoinStep, start, s), s, previous)
    BY <1>4
  <2>2. JoinInv(JoinNext(TakenIn(JoinStep, start, s), e), Append(s, e), previous)
    BY <2>1, JoinNextSays
  <2>3. TakenIn(JoinStep, start, Append(s, e)) = JoinNext(TakenIn(JoinStep, start, s), e)
    BY <1>2, JoinStepIs
  <2>4. JoinInv(TakenIn(JoinStep, start, Append(s, e)), Append(s, e), previous)
    BY <2>2, <2>3
  <2>5. Append(s, e) \in Seq(Passages)
    BY AppendProperties
  <2> QED BY <2>4, <2>5, Zenon
<1>5. Seq(Passages) \subseteq T
  <2> HIDE DEF T
  <2> QED BY <1>3, <1>4, OnSequences
<1>6. PassagesSay(TakenIn(JoinStep, start, passages).out) = AllAdd(passages, previous)
  <2>1. JoinInv(TakenIn(JoinStep, start, passages), passages, previous)
    BY <1>5
  <2> QED BY <2>1 DEF JoinInv
<1>7. JoinPassages(passages, previous) = TakenIn(JoinStep, start, passages).out
  BY DEF JoinPassages, JoinStep, start
<1> QED BY <1>6, <1>7

\* Read in two windows, passages say what they add.
LEMMA WindowsSay ==
  ASSUME NEW passages \in Seq(Passages), NEW i \in 0..Len(passages)
  PROVE  PassagesSay(JoinPassages(SubSeq(passages, 1, i), <<>>))
           \o PassagesSay(JoinPassages(From(passages, i + 1),
                                       IF i = 0 THEN <<>> ELSE <<passages[i]>>))
           = AllAdd(passages, <<>>)
<1>1. PICK s \in Seq(Passages), t \in Seq(Passages) :
        s = SubSeq(passages, 1, i) /\ t = From(passages, i + 1)
  BY InTwo
<1>2. passages = s \o t /\ Len(s) = i
  <2>1. /\ passages = SubSeq(passages, 1, i) \o From(passages, i + 1)
        /\ Len(SubSeq(passages, 1, i)) = i
    BY InTwo
  <2> QED BY <1>1, <2>1, Zenon
<1>3. <<>> \in Seq(Passages) /\ i \in Nat /\ Len(passages) \in Nat
  BY EmptySeq, LenProperties
<1>4. PICK last \in Seq(Passages) : last = Latest(s, <<>>)
  BY <1>3, LatestIs
<1>5. last = IF i = 0 THEN <<>> ELSE <<passages[i]>>
  <2>1. CASE i = 0
    <3>1. s = <<>>
      BY <1>2, <2>1, EmptySeq
    <3> QED BY <1>4, <2>1, <3>1 DEF Latest
  <2>2. CASE i # 0
    <3>1. s # <<>>
      BY <1>2, <2>2, EmptySeq
    <3>2. i \in 1..i
      BY <1>3, <2>2
    <3>3. s[i] = passages[i]
      BY <1>1, <3>2, InTwo
    <3> QED BY <1>2, <1>4, <2>2, <3>1, <3>3 DEF Latest
  <2> QED BY <2>1, <2>2
<1>6. /\ PassagesSay(JoinPassages(s, <<>>)) = AllAdd(s, <<>>)
      /\ PassagesSay(JoinPassages(t, last)) = AllAdd(t, last)
  BY <1>3, JoinSays
<1>7. AllAdd(s \o t, <<>>) = AllAdd(s, <<>>) \o AllAdd(t, Latest(s, <<>>))
  BY <1>3, AllAddIs
<1> QED BY <1>1, <1>2, <1>4, <1>5, <1>6, <1>7, Zenon

\* What chunk_text returns is a text.
LEMMA ChunkTextIsText ==
  ASSUME NEW content \in Texts, NEW path
  PROVE  ChunkText(content, path) \in Texts
<1>1. PICK ends : ends = Ends(content)
  OBVIOUS
<1>2. ends # {} => From(content, Min(ends) + 2) \in Texts
  <2>1. Len(content) \in Nat
    BY LenProperties DEF Texts
  <2>2. ASSUME ends # {} PROVE From(content, Min(ends) + 2) \in Texts
    <3>1. ends \subseteq 1..Len(content) - 1
      BY <1>1 DEF Ends
    <3>2. PICK S : S = ends /\ S # {} /\ S \subseteq 1..Len(content)
      <4>1. \A i \in 1..Len(content) - 1 : i \in 1..Len(content)
        BY <2>1
      <4>2. ends \subseteq 1..Len(content)
        BY <3>1, <4>1
      <4> QED BY <2>2, <4>2
    <3>3. Min(S) \in S
      BY <2>1, <3>2, EndsOf
    <3>4. PICK m \in Nat : m = Min(S)
      <4>1. S \subseteq Nat
        BY <2>1, <3>2
      <4> QED BY <3>3, <4>1
    <3>5. PICK k \in Nat : k = m + 1 /\ k + 1 = m + 2
      OBVIOUS
    <3>6. From(content, k + 1) \in Texts
      BY FromIsText
    <3> QED BY <3>2, <3>4, <3>5, <3>6
  <2> QED BY <2>2
<1>3. ChunkText(content, path) = content
        \/ /\ Ends(content) # {}
           /\ ChunkText(content, path) = From(content, Min(Ends(content)) + 2)
  BY Zenon DEF ChunkText, Ends
<1> QED BY <1>1, <1>2, <1>3, Zenon

\* The chunks of a file, as a reader has them.
AsPassage     == [c \in Chunk |-> Passage(c)]
Read(chunks) == Mapped(AsPassage, chunks)

\* Chunks are read one by one.
LEMMA ReadIs ==
  /\ Read(<<>>) = <<>>
  /\ \A s \in Seq(Chunk) :
       /\ Read(s) \in Seq(Passages) /\ Len(Read(s)) = Len(s)
       /\ \A i \in 1..Len(s) : Read(s)[i] = Passage(s[i])
  /\ \A s, t \in Seq(Chunk) : Read(s \o t) = Read(s) \o Read(t)
<1>1. ASSUME NEW c \in Chunk PROVE Passage(c) \in Passages
  <2>1. c.content \in Texts /\ c.ordinal \in Nat /\ c.path \in Seq(Texts) /\ c.page \in Nat
    BY DEF Chunk
  <2>2. PICK t \in Texts : t = ChunkText(c.content, c.path)
    BY <2>1, ChunkTextIsText
  <2>3. Passage(c) = [ordinal |-> c.ordinal, path |-> c.path, page |-> c.page, text |-> t]
    BY <2>2 DEF Passage
  <2> QED BY <2>1, <2>3 DEF Passages
<1>2. AsPassage \in Maps(Chunk, Passages)
  BY <1>1 DEF AsPassage, Maps
<1>3. \A c \in Chunk : AsPassage[c] = Passage(c)
  BY DEF AsPassage
<1>4. /\ Mapped(AsPassage, <<>>) = <<>>
      /\ \A s \in Seq(Chunk) :
           /\ Mapped(AsPassage, s) \in Seq(Passages) /\ Len(Mapped(AsPassage, s)) = Len(s)
           /\ \A i \in 1..Len(s) : Mapped(AsPassage, s)[i] = AsPassage[s[i]]
      /\ \A s, t \in Seq(Chunk) :
            Mapped(AsPassage, s \o t) = Mapped(AsPassage, s) \o Mapped(AsPassage, t)
  BY <1>2, MappedIs
<1>5. ASSUME NEW s \in Seq(Chunk), NEW i \in 1..Len(s) PROVE Read(s)[i] = Passage(s[i])
  <2>1. s[i] \in Chunk
    BY ElementOfSeq
  <2>2. Mapped(AsPassage, s)[i] = AsPassage[s[i]]
    BY <1>4
  <2> QED BY <1>3, <2>1, <2>2 DEF Read
<1> QED BY <1>4, <1>5 DEF Read

\* One section or page: its bodies, under its path.
Batch(ordinal, path, page, bodies) ==
  [i \in DOMAIN bodies |->
     [ordinal |-> ordinal + i - 1, path |-> path, page |-> page, text |-> bodies[i]]]

IsBatch(batch, ordinal, path, page, bodies) ==
  /\ batch \in Seq(Passages) /\ Len(batch) = Len(bodies)
  /\ \A i \in 1..Len(bodies) :
       /\ batch[i].ordinal = ordinal + i - 1 /\ batch[i].path = path
       /\ batch[i].page = page /\ batch[i].text = bodies[i]

\* The passages of a section, field by field.
LEMMA BatchIs ==
  ASSUME NEW ordinal \in Nat, NEW path \in Seq(Texts), NEW page \in Nat,
         NEW bodies \in Seq(Texts)
  PROVE  IsBatch(Batch(ordinal, path, page, bodies), ordinal, path, page, bodies)
<1> DEFINE batch == Batch(ordinal, path, page, bodies)
<1>1. Len(bodies) \in Nat /\ DOMAIN bodies = 1..Len(bodies)
      /\ \A i \in 1..Len(bodies) : bodies[i] \in Texts
  BY LenProperties, ElementOfSeq
<1>2. ASSUME NEW i \in 1..Len(bodies)
      PROVE  /\ batch[i] \in Passages
             /\ batch[i].ordinal = ordinal + i - 1 /\ batch[i].path = path
             /\ batch[i].page = page /\ batch[i].text = bodies[i]
  <2>1. ordinal + i - 1 \in Nat
    BY <1>1
  <2>2. batch[i] = [ordinal |-> ordinal + i - 1, path |-> path, page |-> page, text |-> bodies[i]]
    BY <1>1 DEF Batch
  <2> QED BY <1>1, <2>1, <2>2 DEF Passages
<1>3. batch = [i \in 1..Len(bodies) |-> batch[i]]
  BY <1>1 DEF Batch
<1>4. batch \in [1..Len(bodies) -> Passages]
  BY <1>2, <1>3
<1>5. batch \in Seq(Passages) /\ Len(batch) = Len(bodies)
  <2> HIDE DEF batch
  <2> QED BY <1>1, <1>4, IsSequence
<1> QED BY <1>2, <1>5 DEF IsBatch

Apart(last, batch) == batch # <<>> => ~SameRun(last, batch[1])

\* A batch that does not go on with what is before it adds what its bodies say anew.
LEMMA BatchAdds ==
  ASSUME NEW ordinal \in Nat, NEW path \in Seq(Texts), NEW page \in Nat,
         NEW bodies \in Seq(Texts), NEW batch, batch = Batch(ordinal, path, page, bodies),
         NEW last \in Seq(Passages), Apart(last, batch)
  PROVE  AllAdd(batch, last) = Anew(path, bodies)
<1>1. /\ batch \in Seq(Passages) /\ Len(batch) = Len(bodies)
      /\ \A i \in 1..Len(bodies) :
           /\ batch[i].ordinal = ordinal + i - 1 /\ batch[i].path = path
           /\ batch[i].page = page /\ batch[i].text = bodies[i]
  <2>1. IsBatch(Batch(ordinal, path, page, bodies), ordinal, path, page, bodies)
    BY BatchIs
  <2>2. IsBatch(batch, ordinal, path, page, bodies)
    BY <2>1, Zenon
  <2> QED BY <2>2 DEF IsBatch
<1>2. Len(bodies) \in Nat /\ DOMAIN bodies = 1..Len(bodies)
  BY LenProperties
<1>3. PICK a \in Seq(Seq(Spoken)) :
        /\ a = Adding(batch, last) /\ Len(a) = Len(bodies)
        /\ \A k \in 1..Len(bodies) : a[k] = Adds(Before(batch, last, k), batch[k])
  <2>1. /\ Adding(batch, last) \in Seq(Seq(Spoken)) /\ Len(Adding(batch, last)) = Len(batch)
        /\ \A k \in 1..Len(batch) :
             Adding(batch, last)[k] = Adds(Before(batch, last, k), batch[k])
    BY <1>1, AddingIs
  <2> QED BY <1>1, <2>1
<1>4. PICK b : b = [i \in DOMAIN bodies |-> Said(path, From(bodies[i], Repeats(bodies, i) + 1))]
  OBVIOUS
<1>5. b \in Seq(Seq(Spoken)) /\ Len(b) = Len(bodies)
  <2>1. b \in [1..Len(bodies) -> Seq(Spoken)]
    BY <1>4, AnewSteps
  <2> QED BY <1>2, <2>1, IsSequence
<1>6. ASSUME NEW k \in 1..Len(bodies) PROVE a[k] = b[k]
  <2>1. b[k] = Said(path, From(bodies[k], Repeats(bodies, k) + 1))
    BY <1>2, <1>4
  <2>2. Cut(Before(batch, last, k), batch[k]) = Repeats(bodies, k)
    <3>1. CASE k = 1
      <4>1. batch # <<>>
        BY <1>1, <1>2, <3>1, EmptySeq
      <4>2. Before(batch, last, k) = last /\ ~SameRun(last, batch[k])
        BY <3>1, <4>1 DEF Before, Apart
      <4> QED BY <3>1, <4>2 DEF Cut, Repeats
    <3>2. CASE k # 1
      <4>1. k - 1 \in 1..Len(bodies) /\ ordinal + k - 1 = ordinal + (k - 1) - 1 + 1
        BY <1>2, <3>2
      <4>2. PICK p : p = batch[k - 1]
        OBVIOUS
      <4>3. Before(batch, last, k) = <<p>> /\ <<p>> # <<>> /\ <<p>>[1] = p
        BY <3>2, <4>2 DEF Before
      <4>4. /\ p.ordinal = ordinal + (k - 1) - 1 /\ p.path = path /\ p.page = page
            /\ p.text = bodies[k - 1]
        BY <1>1, <4>1, <4>2
      <4>5. /\ batch[k].ordinal = p.ordinal + 1 /\ batch[k].path = p.path
            /\ batch[k].page = p.page /\ batch[k].text = bodies[k]
        BY <1>1, <4>1, <4>4
      <4>6. SameRun(<<p>>, batch[k])
        BY <4>3, <4>5 DEF SameRun
      <4>7. Cut(<<p>>, batch[k]) = OverlapLength(bodies[k - 1], bodies[k])
        BY <4>3, <4>4, <4>5, <4>6 DEF Cut
      <4> QED BY <3>2, <4>3, <4>7 DEF Repeats
    <3> QED BY <3>1, <3>2
  <2>3. batch[k].path = path /\ batch[k].text = bodies[k]
    BY <1>1
  <2> QED BY <1>3, <2>1, <2>2, <2>3 DEF Adds
<1>7. a = b
  <2>1. PICK C : C = Seq(Spoken)
    OBVIOUS
  <2>2. a \in Seq(C) /\ b \in Seq(C)
    BY <1>5, <2>1
  <2> QED BY <1>3, <1>5, <1>6, <2>2, SeqEqual
<1> QED BY <1>3, <1>4, <1>7, Zenon DEF AllAdd, Anew

-----------------------------------------------------------------------------
(* A section more: its chunks add what its lines say *)

\* The chunks of a section or page, after n others.
Emitted(n, path, page, bodies) ==
  [i \in DOMAIN bodies |->
    [ordinal |-> n + i - 1, path |-> path, page |-> page, content |-> Content(path, bodies[i])]]

\* Emit puts chunks after those there are.
LEMMA EmitIsMore ==
  ASSUME NEW chunks, NEW path, NEW page, NEW paragraphs
  PROVE  Emit(chunks, path, page, paragraphs)
           = chunks \o Emitted(Len(chunks), path, page, Pack(paragraphs))
BY DEF Emit, Emitted

\* A path to be read is a path.
LEMMA ClearPathIs ==
  ASSUME NEW path, ClearPath(path)
  PROVE  path \in Seq(Texts)
<1>1. Heads \subseteq Texts
  BY HeadIs
<1> QED BY <1>1, SeqOfMore DEF ClearPath

\* Whatever its titles, a section becomes chunks.
LEMMA PathIsTexts ==
  ASSUME NEW trail \in Seq(Texts)
  PROVE  Path(trail) \in Seq(Texts)
<1>1. Title \in Texts
  BY ChunkingAssumption DEF Titled
<1>2. <<>> \in Seq(Texts) /\ <<Title>> \in Seq(Texts)
  BY <1>1, EmptySeq
<1>3. PICK front \in Seq(Texts) : front = (IF Title = <<>> THEN <<>> ELSE <<Title>>)
  BY <1>2
<1>4. front \o trail \in Seq(Texts)
  BY ConcatProperties
<1> QED BY <1>3, <1>4, Zenon DEF Path

\* Whatever its path, a section becomes chunks.
LEMMA EmitIsTyped ==
  ASSUME NEW chunks \in Seq(Chunk), NEW path \in Seq(Texts), NEW page \in Nat,
         NEW section \in Seq(Line)
  PROVE  Emit(chunks, path, page, Paragraphs(section)) \in Seq(Chunk)
<1>1. PICK bodies \in Seq(Texts) : bodies = Pack(Paragraphs(section))
  BY BodiesKeep
<1>2. PICK n \in Nat, k \in Nat : n = Len(chunks) /\ k = Len(bodies) /\ DOMAIN bodies = 1..k
  BY LenProperties
<1>3. ASSUME NEW i \in 1..k
      PROVE  [ordinal |-> n + i - 1, path |-> path, page |-> page,
              content |-> Content(path, bodies[i])] \in Chunk
  <2>1. PICK m \in Nat : m = n + i - 1
    <3>1. n + i - 1 \in Nat
      OBVIOUS
    <3> QED BY <3>1
  <2>2. PICK body \in Texts : body = bodies[i]
    BY <1>2, ElementOfSeq
  <2>3. PICK c \in Texts : c = Content(path, body)
    <3>1. Separator \in Texts
      BY SeparatorIs
    <3>2. PICK head \in Texts : head = Joined(path, Separator)
      BY <3>1, JoinedIs
    <3>3. PICK blank \in Texts : blank = Blank
      BY Whites
    <3>4. head \o blank \in Texts
      BY AllTexts
    <3>5. (head \o blank) \o body \in Texts
      BY <3>4, AllTexts
    <3> QED BY <3>2, <3>3, <3>5, Zenon DEF Content
  <2>4. [ordinal |-> m, path |-> path, page |-> page, content |-> c] \in Chunk
    BY DEF Chunk
  <2> QED BY <2>1, <2>2, <2>3, <2>4, Zenon
<1>4. PICK more : more = Emitted(n, path, page, bodies)
  OBVIOUS
<1>5. more \in [1..k -> Chunk]
  BY <1>2, <1>3, <1>4 DEF Emitted
<1>6. more \in Seq(Chunk)
  BY <1>5, IsSequence
<1>7. chunks \o more \in Seq(Chunk)
  BY <1>6, ConcatProperties
<1> QED BY <1>1, <1>2, <1>4, <1>7, EmitIsMore

\* Those chunks are read back as the bodies of the section.
LEMMA EmittedIs ==
  ASSUME NEW n \in Nat, NEW path, ClearPath(path), NEW page \in Nat, NEW bodies \in Seq(Texts)
  PROVE  /\ Emitted(n, path, page, bodies) \in Seq(Chunk)
         /\ Len(Emitted(n, path, page, bodies)) = Len(bodies)
         /\ \A i \in 1..Len(bodies) :
              /\ Emitted(n, path, page, bodies)[i].ordinal = n + i - 1
              /\ Emitted(n, path, page, bodies)[i].path = path
              /\ Emitted(n, path, page, bodies)[i].page = page
         /\ Read(Emitted(n, path, page, bodies)) = Batch(n, path, page, bodies)
<1> DEFINE more == Emitted(n, path, page, bodies)
<1>1. /\ Len(bodies) \in Nat /\ DOMAIN bodies = 1..Len(bodies)
      /\ \A i \in 1..Len(bodies) : bodies[i] \in Texts
  BY LenProperties, ElementOfSeq
<1>2. path \in Seq(Texts)
  BY ClearPathIs
<1>3. ASSUME NEW i \in 1..Len(bodies)
      PROVE  /\ more[i] \in Chunk
             /\ more[i].ordinal = n + i - 1 /\ more[i].path = path /\ more[i].page = page
             /\ Passage(more[i]) = [ordinal |-> n + i - 1, path |-> path, page |-> page,
                                    text |-> bodies[i]]
  <2>1. PICK k \in Nat : k = n + i - 1
    <3>1. n + i - 1 \in Nat
      BY <1>1
    <3> QED BY <3>1
  <2>2. PICK c \in Texts : c = Content(path, bodies[i]) /\ ChunkText(c, path) = bodies[i]
    BY <1>1, ContentIsRead
  <2>3. PICK chunk : chunk = more[i]
    OBVIOUS
  <2>4. chunk = [ordinal |-> k, path |-> path, page |-> page, content |-> c]
    BY <1>1, <2>1, <2>2, <2>3 DEF Emitted
  <2>5. /\ chunk \in Chunk /\ chunk.ordinal = k /\ chunk.path = path /\ chunk.page = page
        /\ chunk.content = c
    BY <1>2, <2>4 DEF Chunk
  <2>6. Passage(chunk) = [ordinal |-> k, path |-> path, page |-> page, text |-> bodies[i]]
    BY <2>2, <2>5 DEF Passage
  <2> QED BY <2>1, <2>3, <2>5, <2>6
<1>4. more \in Seq(Chunk) /\ Len(more) = Len(bodies)
  <2>1. more = [i \in 1..Len(bodies) |-> more[i]]
    BY <1>1 DEF Emitted
  <2>2. more \in [1..Len(bodies) -> Chunk]
    BY <1>3, <2>1
  <2> HIDE DEF more
  <2> QED BY <1>1, <2>2, IsSequence
<1> HIDE DEF more
<1>5. Read(more) = Batch(n, path, page, bodies)
  <2>1. PICK r \in Seq(Passages) : r = Read(more)
    BY <1>4, ReadIs
  <2>2. Len(r) = Len(bodies) /\ \A i \in 1..Len(bodies) : r[i] = Passage(more[i])
    BY <1>4, <2>1, ReadIs
  <2>3. PICK b : b = Batch(n, path, page, bodies)
    OBVIOUS
  <2>4. b \in Seq(Passages) /\ Len(b) = Len(bodies)
    BY <1>2, <2>3, BatchIs DEF IsBatch
  <2>5. \A i \in 1..Len(bodies) :
          b[i] = [ordinal |-> n + i - 1, path |-> path, page |-> page, text |-> bodies[i]]
    BY <1>1, <2>3 DEF Batch
  <2>6. \A i \in 1..Len(bodies) : r[i] = b[i]
    BY <1>3, <2>2, <2>5
  <2>7. r = b
    BY <2>2, <2>4, <2>6, SeqEqual
  <2> QED BY <2>1, <2>3, <2>7
<1>6. \A i \in 1..Len(bodies) :
        more[i].ordinal = n + i - 1 /\ more[i].path = path /\ more[i].page = page
  BY <1>3
<1> QED BY <1>4, <1>5, <1>6 DEF more

\* Chunks are numbered from 0, and none says more than Target characters.
InOrder(chunks) ==
  /\ chunks \in Seq(Chunk)
  /\ \A i \in 1..Len(chunks) : chunks[i].ordinal = i - 1
  /\ \A i \in 1..Len(chunks) : Len(Read(chunks)[i].text) <= Target

\* Before the first chunk nothing is said.
LEMMA NoneInOrder ==
  InOrder(<<>>) /\ AllAdd(Read(<<>>), <<>>) = <<>>
<1>1. <<>> \in Seq(Chunk) /\ <<>> \in Seq(Passages)
  BY EmptySeq
<1>2. \A i \in 1..Len(<<>>) : FALSE
  BY EmptySeq
<1>3. AllAdd(Read(<<>>), <<>>) = <<>>
  <2>1. Read(<<>>) = <<>>
    BY ReadIs
  <2>2. AllAdd(<<>>, <<>>) = <<>>
    BY <1>1, AllAddIs
  <2> QED BY <2>1, <2>2
<1> QED BY <1>1, <1>2, <1>3 DEF InOrder

\* A section is fresh that does not stand where the last chunk does.
Fresh(chunks, path, page) ==
  chunks # <<>> => chunks[Len(chunks)].path # path \/ chunks[Len(chunks)].page # page

\* After a section, chunks say what its lines do besides, and the last one is its own.
SaysMore(after, chunks, path, page, section) ==
  /\ InOrder(after)
  /\ SaidByLines(path, section) = <<>> => after = chunks
  /\ SaidByLines(path, section) # <<>> =>
       after # <<>> /\ after[Len(after)].path = path /\ after[Len(after)].page = page
  /\ Fresh(chunks, path, page) \/ SaidByLines(path, section) = <<>> =>
       AllAdd(Read(after), <<>>) = AllAdd(Read(chunks), <<>>) \o SaidByLines(path, section)

\* A section more: its chunks say what its lines do, if it is fresh.
LEMMA EmitSays ==
  ASSUME NEW chunks, InOrder(chunks), NEW path, ClearPath(path), NEW page \in Nat,
         NEW section \in Seq(Line)
  PROVE  SaysMore(Emit(chunks, path, page, Paragraphs(section)), chunks, path, page, section)
<1>1. PICK after : after = Emit(chunks, path, page, Paragraphs(section))
  OBVIOUS
<1>2. path \in Seq(Texts)
  BY ClearPathIs
<1>3. PICK bodies \in Seq(Texts) :
        /\ bodies = Pack(Paragraphs(section)) /\ NoLonger(bodies, Target)
        /\ Anew(path, bodies) = SaidByLines(path, section)
        /\ SaidByLines(path, section) = <<>> => bodies = <<>>
  BY <1>2, BodiesKeep
<1>4. /\ chunks \in Seq(Chunk) /\ Len(chunks) \in Nat
      /\ \A i \in 1..Len(chunks) : chunks[i].ordinal = i - 1
      /\ \A i \in 1..Len(chunks) : Len(Read(chunks)[i].text) <= Target
  BY LenProperties DEF InOrder
<1>5. PICK n \in Nat : n = Len(chunks)
  BY <1>4
<1>6. PICK more \in Seq(Chunk) :
        /\ more = Emitted(n, path, page, bodies) /\ Len(more) = Len(bodies)
        /\ \A i \in 1..Len(bodies) :
             more[i].ordinal = n + i - 1 /\ more[i].path = path /\ more[i].page = page
        /\ Read(more) = Batch(n, path, page, bodies)
  BY EmittedIs
<1>7. after = chunks \o more
  BY <1>1, <1>3, <1>5, <1>6, EmitIsMore
<1>8. PICK m \in Nat : m = Len(bodies)
  BY LenProperties
<1>9. /\ after \in Seq(Chunk) /\ Len(after) = n + m
      /\ \A i \in 1..n + m : after[i] = IF i <= n THEN chunks[i] ELSE more[i - n]
  <2>1. /\ chunks \o more \in Seq(Chunk) /\ Len(chunks \o more) = Len(chunks) + Len(more)
        /\ \A i \in 1..Len(chunks) + Len(more) :
             (chunks \o more)[i] = IF i <= Len(chunks) THEN chunks[i] ELSE more[i - Len(chunks)]
    BY <1>4, ConcatProperties
  <2> QED BY <1>5, <1>6, <1>7, <1>8, <2>1
<1>10. PICK old \in Seq(Passages), batch \in Seq(Passages), new \in Seq(Passages) :
         /\ old = Read(chunks) /\ batch = Read(more) /\ new = Read(after)
         /\ Len(old) = n /\ Len(batch) = m /\ Len(new) = n + m
  <2>1. Read(chunks) \in Seq(Passages) /\ Len(Read(chunks)) = n
    BY <1>4, <1>5, ReadIs
  <2>2. Read(more) \in Seq(Passages) /\ Len(Read(more)) = m
    BY <1>6, <1>8, ReadIs
  <2>3. Read(after) \in Seq(Passages) /\ Len(Read(after)) = n + m
    BY <1>9, ReadIs
  <2> QED BY <2>1, <2>2, <2>3
<1>11. new = old \o batch
  BY <1>4, <1>7, <1>10, ReadIs
<1>12. /\ batch = Batch(n, path, page, bodies)
       /\ \A i \in 1..m : /\ batch[i].ordinal = n + i - 1 /\ batch[i].path = path
                          /\ batch[i].page = page /\ batch[i].text = bodies[i]
  <2>1. batch = Batch(n, path, page, bodies)
    BY <1>6, <1>10
  <2>2. IsBatch(Batch(n, path, page, bodies), n, path, page, bodies)
    BY <1>2, BatchIs
  <2>3. IsBatch(batch, n, path, page, bodies)
    BY <2>1, <2>2, Zenon
  <2> QED BY <1>8, <2>1, <2>3 DEF IsBatch
<1>13. InOrder(after)
  <2>1. ASSUME NEW i \in 1..n + m
        PROVE  after[i].ordinal = i - 1 /\ Len(new[i].text) <= Target
    <3>1. \A k \in 1..n + m : new[k] = IF k <= n THEN old[k] ELSE batch[k - n]
      <4>1. \A k \in 1..Len(old) + Len(batch) :
              (old \o batch)[k] = IF k <= Len(old) THEN old[k] ELSE batch[k - Len(old)]
        BY ConcatProperties
      <4> QED BY <1>10, <1>11, <4>1
    <3>2. CASE i <= n
      <4>1. i \in 1..n
        BY <3>2
      <4> QED BY <1>4, <1>5, <1>9, <1>10, <3>1, <3>2, <4>1
    <3>3. CASE ~(i <= n)
      <4>1. PICK j \in 1..m : j = i - n /\ n + j - 1 = i - 1
        <5>1. i - n \in 1..m /\ n + (i - n) - 1 = i - 1
          BY <3>3
        <5> QED BY <5>1
      <4>2. after[i] = more[j] /\ new[i] = batch[j]
        BY <1>9, <3>1, <3>3, <4>1
      <4>3. more[j].ordinal = n + j - 1 /\ batch[j].text = bodies[j]
        BY <1>6, <1>8, <1>12
      <4>4. Len(bodies[j]) <= Target
        <5>1. j \in DOMAIN bodies
          BY <1>8, LenProperties
        <5> QED BY <1>3, <5>1 DEF NoLonger
      <4> QED BY <4>1, <4>2, <4>3, <4>4
    <3> QED BY <3>2, <3>3
  <2> QED BY <1>9, <1>10, <2>1 DEF InOrder
<1>14. ASSUME SaidByLines(path, section) = <<>> PROVE after = chunks
  <2>1. m = 0
    BY <1>3, <1>8, <1>14, EmptySeq
  <2>2. more = <<>>
    <3>1. Len(more) = 0
      BY <1>6, <1>8, <2>1
    <3> QED BY <3>1, EmptySeq
  <2> QED BY <1>4, <1>7, <2>2, ConcatEmptySeq
<1>15. ASSUME SaidByLines(path, section) # <<>>
       PROVE  after # <<>> /\ after[Len(after)].path = path /\ after[Len(after)].page = page
  <2>1. bodies # <<>>
    BY <1>2, <1>3, <1>15, AnewIs
  <2>2. m # 0 /\ m \in 1..m
    <3>1. m # 0
      BY <1>8, <2>1, EmptySeq
    <3> QED BY <3>1
  <2>3. n + m \in 1..n + m /\ ~(n + m <= n) /\ n + m - n = m /\ n + m # 0
    BY <2>2
  <2>4. after[n + m] = more[m]
    BY <1>9, <2>3
  <2>5. more[m].path = path /\ more[m].page = page
    BY <1>6, <1>8, <2>2
  <2>6. after # <<>>
    BY <1>9, <2>3, EmptySeq
  <2> QED BY <1>9, <2>4, <2>5, <2>6
<1>16. ASSUME Fresh(chunks, path, page) \/ SaidByLines(path, section) = <<>>
       PROVE  AllAdd(new, <<>>) = AllAdd(old, <<>>) \o SaidByLines(path, section)
  <2>1. PICK last \in Seq(Passages) : last = Latest(old, <<>>)
    BY EmptySeq, LatestIs
  <2>2. AllAdd(old \o batch, <<>>) = AllAdd(old, <<>>) \o AllAdd(batch, last)
    BY <2>1, EmptySeq, AllAddIs
  <2>3. Apart(last, batch)
    <3>1. SUFFICES ASSUME batch # <<>>, SameRun(last, batch[1]) PROVE FALSE
      BY DEF Apart
    <3>2. m # 0 /\ 1 \in 1..m
      <4>1. m # 0
        BY <1>10, <3>1, EmptySeq
      <4> QED BY <4>1
    <3>3. SaidByLines(path, section) # <<>>
      BY <1>3, <1>8, <3>2, EmptySeq
    <3>4. old # <<>> /\ last = <<old[Len(old)]>>
      <4>1. last # <<>>
        BY <3>1 DEF SameRun
      <4> QED BY <2>1, <4>1 DEF Latest
    <3>5. n # 0 /\ n \in 1..n
      <4>1. n # 0
        BY <1>10, <3>4, EmptySeq
      <4> QED BY <4>1
    <3>6. last[1] = old[n]
      BY <1>10, <3>4
    <3>7. old[n] = Passage(chunks[n])
      BY <1>4, <1>5, <1>10, <3>5, ReadIs
    <3>8. old[n].path = chunks[n].path /\ old[n].page = chunks[n].page
      BY <3>7 DEF Passage
    <3>9. batch[1].path = path /\ batch[1].page = page
      BY <1>12, <3>2
    <3>10. chunks[n].path = path /\ chunks[n].page = page
      BY <3>1, <3>6, <3>8, <3>9 DEF SameRun
    <3>11. chunks # <<>>
      BY <1>5, <3>5, EmptySeq
    <3> QED BY <1>5, <1>16, <3>3, <3>10, <3>11 DEF Fresh
  <2>4. AllAdd(batch, last) = Anew(path, bodies)
    <3>1. batch = Batch(n, path, page, bodies)
      BY <1>12
    <3> QED BY <1>2, <2>3, <3>1, BatchAdds
  <2> QED BY <1>3, <1>11, <2>2, <2>4
<1>17. SaysMore(after, chunks, path, page, section)
  BY <1>10, <1>13, <1>14, <1>15, <1>16 DEF SaysMore
<1> QED BY <1>1, <1>17, Zenon

-----------------------------------------------------------------------------
(* Pages *)

\* No heading or bookmark is titled as the separator repeats: ">", "> >", ...
ClearTitles    == {t \in Heads : Unmarked(t)}
TitlesAreClear ==
  /\ \A l \in Lines : l.kind = "heading" /\ l.title # <<>> => Unmarked(l.title)
  /\ \A b \in Bookmarks : Unmarked(b.title)

\* Behind the document's title, or without it, a trail of clear titles is a path to be read.
LEMMA PathIsClear ==
  ASSUME NEW trail \in Seq(ClearTitles)
  PROVE  ClearPath(Path(trail))
<1>1. ClearTitles \subseteq Heads /\ \A t \in ClearTitles : Unmarked(t)
  BY DEF ClearTitles
<1>2. trail \in Seq(Heads)
  BY <1>1, SeqOfMore
<1>3. Len(trail) \in Nat /\ \A i \in 1..Len(trail) : Unmarked(trail[i])
  BY <1>1, LenProperties, ElementOfSeq
<1>4. ClearPath(trail)
  <2>1. Len(trail) >= 2 => 2 \in 1..Len(trail)
    BY <1>3
  <2> QED BY <1>2, <1>3, <2>1 DEF ClearPath
<1>5. CASE Title # <<>> /\ trail # <<>> /\ trail[1] = Title
  BY <1>4, <1>5 DEF Path
<1>6. CASE ~(Title # <<>> /\ trail # <<>> /\ trail[1] = Title)
  <2>1. Path(trail) = (IF Title = <<>> THEN <<>> ELSE <<Title>>) \o trail
    BY <1>6 DEF Path
  <2>2. CASE Title = <<>>
    <3>1. Path(trail) = trail
      BY <1>2, <2>1, <2>2, ConcatEmptySeq
    <3> QED BY <1>4, <3>1
  <2>3. CASE Title # <<>>
    <3>1. Title \in Heads
      BY <2>3, ChunkingAssumption DEF Heads
    <3>2. PICK first \in Seq(Heads) : first = <<Title>> /\ Len(first) = 1
      <4>1. <<Title>> \in Seq(Heads) /\ Len(<<Title>>) = 1
        BY <3>1
      <4> QED BY <4>1, Zenon
    <3>3. Path(trail) = first \o trail
      BY <2>1, <2>3, <3>2
    <3>4. PICK path : path = first \o trail
      OBVIOUS
    <3>5. /\ path \in Seq(Heads) /\ Len(path) = 1 + Len(trail)
          /\ \A i \in 1..1 + Len(trail) : path[i] = IF i <= 1 THEN first[i] ELSE trail[i - 1]
      BY <1>2, <3>2, <3>4, ConcatProperties
    <3>6. Len(path) >= 2 => Unmarked(path[2])
      <4>1. ASSUME Len(path) >= 2 PROVE Unmarked(path[2])
        <5>1. 2 \in 1..1 + Len(trail) /\ ~(2 <= 1) /\ 2 - 1 = 1 /\ 1 \in 1..Len(trail)
          BY <1>3, <3>5, <4>1
        <5>2. path[2] = trail[1]
          BY <3>5, <5>1
        <5> QED BY <1>3, <5>1, <5>2
      <4> QED BY <4>1
    <3> QED BY <3>3, <3>4, <3>5, <3>6 DEF ClearPath
  <2> QED BY <2>2, <2>3
<1> QED BY <1>5, <1>6

\* The headings in force are some of those before, and the new one.
LEMMA EnterIs ==
  ASSUME NEW A, NEW stack \in Seq(A), NEW h \in A
  PROVE  Enter(stack, h) \in Seq(A)
<1>1. PICK S : S = {x \in ToSet(stack) : x.level < h.level}
  OBVIOUS
<1>2. Only(stack, S) \in Seq(A \cap S)
  BY OnlyIs
<1>3. Only(stack, S) \in Seq(A)
  BY <1>2, SeqOfMore
<1>4. Append(Only(stack, S), h) \in Seq(A)
  BY <1>3, AppendProperties
<1> QED BY <1>1, <1>4 DEF Enter

\* The loop of _outline_paths.
EnterStep(A) == [p \in Seq(A) \X A |-> Enter(p[1], p[2])]

\* Entering a heading is a step of the loop.
LEMMA EnterStepIs ==
  ASSUME NEW A
  PROVE  /\ EnterStep(A) \in Steps(Seq(A), A)
         /\ \A stack \in Seq(A), h \in A : EnterStep(A)[<<stack, h>>] = Enter(stack, h)
<1>1. ASSUME NEW p \in Seq(A) \X A PROVE Enter(p[1], p[2]) \in Seq(A)
  <2>1. p[1] \in Seq(A) /\ p[2] \in A
    OBVIOUS
  <2> QED BY <2>1, EnterIs
<1>2. EnterStep(A) \in Steps(Seq(A), A)
  BY <1>1 DEF EnterStep, Steps
<1>3. ASSUME NEW stack \in Seq(A), NEW h \in A PROVE EnterStep(A)[<<stack, h>>] = Enter(stack, h)
  <2>1. <<stack, h>> \in Seq(A) \X A /\ <<stack, h>>[1] = stack /\ <<stack, h>>[2] = h
    OBVIOUS
  <2> QED BY <2>1 DEF EnterStep
<1> QED BY <1>2, <1>3

\* The titles of headings.
LEMMA TitlesAre ==
  ASSUME NEW A, NEW B, NEW stack \in Seq(A), \A x \in A : x.title \in B
  PROVE  Titles(stack) \in Seq(B) /\ Len(Titles(stack)) = Len(stack)
<1>1. /\ Len(stack) \in Nat /\ DOMAIN stack = 1..Len(stack)
      /\ \A i \in 1..Len(stack) : stack[i] \in A
  BY LenProperties, ElementOfSeq
<1>2. PICK f : f = Titles(stack)
  OBVIOUS
<1>3. f \in [1..Len(stack) -> B]
  BY <1>1, <1>2 DEF Titles
<1>4. f \in Seq(B) /\ Len(f) = Len(stack)
  BY <1>1, <1>3, IsSequence
<1> QED BY <1>2, <1>4

\* The trail of a page is of clear titles.
LEMMA OutlinePathIs ==
  ASSUME TitlesAreClear, NEW outline \in Seq(Bookmarks), NEW number \in Nat
  PROVE  OutlinePath(outline, number) \in Seq(ClearTitles)
<1> DEFINE of(p) == Only(outline, {b \in Bookmarks : b.page = p})
           each == [p \in 1..number |-> of(p)]
<1>1. ASSUME NEW p \in 1..number PROVE of(p) \in Seq(Bookmarks)
  <2>1. of(p) \in Seq(Bookmarks \cap {b \in Bookmarks : b.page = p})
    BY OnlyIs
  <2>2. PICK S : S = {b \in Bookmarks : b.page = p}
    OBVIOUS
  <2>3. Seq(Bookmarks \cap S) \subseteq Seq(Bookmarks)
    BY SeqOfMore
  <2> QED BY <2>1, <2>2, <2>3
<1>2. each \in [1..number -> Seq(Bookmarks)]
  BY <1>1
<1>3. each \in Seq(Seq(Bookmarks))
  <2> HIDE DEF each
  <2> QED BY <1>2, IsSequence
<1> HIDE DEF each
<1>4. PICK ordered \in Seq(Bookmarks) : ordered = FlattenSeq(each)
  BY <1>3, Flattened
<1>5. PICK stack \in Seq(Bookmarks) : stack = TakenIn(EnterStep(Bookmarks), <<>>, ordered)
  <2>1. <<>> \in Seq(Bookmarks)
    BY EmptySeq
  <2> QED BY <2>1, EnterStepIs, TakenInSteps
<1>6. Titles(stack) \in Seq(ClearTitles)
  <2>1. \A b \in Bookmarks : b.title \in Titled \ {<<>>}
    BY ChunkingAssumption
  <2>2. \A b \in Bookmarks : b.title \in ClearTitles
    BY <2>1 DEF TitlesAreClear, ClearTitles, Heads
  <2> QED BY <2>2, TitlesAre
<1>7. OutlinePath(outline, number) = Titles(stack)
  BY <1>4, <1>5, Zenon DEF OutlinePath, EnterStep, each
<1> QED BY <1>6, <1>7

\* What a page says is what its lines do.
PageText(page) == FlattenSeq([i \in DOMAIN page |-> page[i].text])

\* A page says what its lines do.
LEMMA PageSays ==
  ASSUME NEW path \in Seq(Texts), NEW page \in Seq(Line)
  PROVE  Said(path, PageText(page)) = SaidByLines(path, page)
<1> DEFINE F == [l \in Line |-> l.text]
           T == {ls \in Seq(Line) : Said(path, FlattenSeq(Mapped(F, ls))) = SaidByLines(path, ls)}
<1>1. F \in Maps(Line, Seq(Characters)) /\ \A l \in Line : F[l] = l.text
  <2>1. \A l \in Line : l.text \in Seq(Characters)
    BY LineIs DEF Texts
  <2> QED BY <2>1 DEF Maps
<1>2. PageText(page) = FlattenSeq(Mapped(F, page))
  <2>1. \A i \in DOMAIN page : page[i] \in Line
    BY LenProperties, ElementOfSeq
  <2>2. [i \in DOMAIN page |-> page[i].text] = [i \in DOMAIN page |-> F[page[i]]]
    BY <1>1, <2>1
  <2> QED BY <2>2, Zenon DEF PageText, Mapped
<1> HIDE DEF F
<1>3. /\ FlattenSeq(Mapped(F, <<>>)) = <<>>
      /\ \A ls \in Seq(Line) : FlattenSeq(Mapped(F, ls)) \in Seq(Characters)
      /\ \A ls \in Seq(Line), l \in Line :
           FlattenSeq(Mapped(F, Append(ls, l))) = FlattenSeq(Mapped(F, ls)) \o F[l]
  BY <1>1, FlatMapped
<1>4. <<>> \in T
  <2>1. <<>> \in Seq(Line)
    BY EmptySeq
  <2>2. Said(path, <<>>) = <<>> /\ SaidByLines(path, <<>>) = <<>>
    BY SaidIs, SaidByLinesIs
  <2>3. Said(path, FlattenSeq(Mapped(F, <<>>))) = SaidByLines(path, <<>>)
    BY <1>3, <2>2
  <2> QED BY <2>1, <2>3, Zenon
<1>5. ASSUME NEW ls \in Seq(Line), NEW l \in Line, ls \in T PROVE Append(ls, l) \in T
  <2>1. Said(path, FlattenSeq(Mapped(F, ls))) = SaidByLines(path, ls)
    BY <1>5
  <2>2. PICK t \in Texts : t = FlattenSeq(Mapped(F, ls))
    BY <1>3 DEF Texts
  <2>3. PICK u \in Texts : u = F[l] /\ u = l.text
    BY <1>1, LineIs
  <2>4. FlattenSeq(Mapped(F, Append(ls, l))) = t \o u
    BY <1>3, <2>2, <2>3
  <2>5. Said(path, t \o u) = Said(path, t) \o Said(path, u)
    BY SaidIs
  <2>6. SaidByLines(path, Append(ls, l)) = SaidByLines(path, ls) \o Said(path, l.text)
    BY SaidByLinesIs
  <2>7. Said(path, FlattenSeq(Mapped(F, Append(ls, l)))) = SaidByLines(path, Append(ls, l))
    BY <2>1, <2>2, <2>3, <2>4, <2>5, <2>6, Zenon
  <2>8. Append(ls, l) \in Seq(Line)
    BY AppendProperties
  <2> QED BY <2>7, <2>8, Zenon
<1>6. Seq(Line) \subseteq T
  <2> HIDE DEF T
  <2> QED BY <1>4, <1>5, OnSequences
<1> QED BY <1>2, <1>6

\* Emitting a section leaves chunks.
\* The path of a page, what the page says, and the loop of chunk_pages.
PagePath(outline, n) == Path(OutlinePath(outline, n))
PageSaid(pages, outline, n) == Said(PagePath(outline, n), PageText(pages[n]))

PageStep(pages, outline) ==
  [p \in Seq(Chunk) \X DOMAIN pages |->
    Emit(p[1], PagePath(outline, p[2]), p[2], Paragraphs(pages[p[2]]))]

\* Emitting a page is a step of the loop.
LEMMA PageStepIs ==
  ASSUME TitlesAreClear, NEW pages \in Seq(Seq(Line)), NEW outline \in Seq(Bookmarks)
  PROVE  /\ PageStep(pages, outline) \in Steps(Seq(Chunk), DOMAIN pages)
         /\ \A chunks \in Seq(Chunk), n \in DOMAIN pages :
              /\ ClearPath(PagePath(outline, n)) /\ pages[n] \in Seq(Line) /\ n \in Nat
              /\ PageStep(pages, outline)[<<chunks, n>>]
                   = Emit(chunks, PagePath(outline, n), n, Paragraphs(pages[n]))
<1>1. ASSUME NEW n \in DOMAIN pages
      PROVE  n \in Nat /\ pages[n] \in Seq(Line) /\ ClearPath(PagePath(outline, n))
  <2>1. PICK A : A = Seq(Line) /\ pages \in Seq(A)
    OBVIOUS
  <2>2. DOMAIN pages = 1..Len(pages) /\ Len(pages) \in Nat
    BY <2>1, LenProperties
  <2>3. n \in Nat /\ pages[n] \in A
    <3>1. n \in 1..Len(pages)
      BY <2>2
    <3> QED BY <2>1, <2>2, <3>1, ElementOfSeq
  <2>4. OutlinePath(outline, n) \in Seq(ClearTitles)
    BY <2>3, OutlinePathIs
  <2> QED BY <2>1, <2>3, <2>4, PathIsClear DEF PagePath
<1>2. ASSUME NEW p \in Seq(Chunk) \X DOMAIN pages
      PROVE  Emit(p[1], PagePath(outline, p[2]), p[2], Paragraphs(pages[p[2]])) \in Seq(Chunk)
  <2>1. p[1] \in Seq(Chunk) /\ p[2] \in DOMAIN pages
    OBVIOUS
  <2> QED BY <1>1, <2>1, ClearPathIs, EmitIsTyped
<1>3. PageStep(pages, outline) \in Steps(Seq(Chunk), DOMAIN pages)
  BY <1>2 DEF PageStep, Steps
<1>4. ASSUME NEW chunks \in Seq(Chunk), NEW n \in DOMAIN pages
      PROVE  PageStep(pages, outline)[<<chunks, n>>]
               = Emit(chunks, PagePath(outline, n), n, Paragraphs(pages[n]))
  <2>1. /\ <<chunks, n>> \in Seq(Chunk) \X DOMAIN pages
        /\ <<chunks, n>>[1] = chunks /\ <<chunks, n>>[2] = n
    OBVIOUS
  <2> QED BY <2>1 DEF PageStep
<1> QED BY <1>1, <1>3, <1>4

\* The chunks of the first n pages say what those pages do, and none is of a later page.
PagesRead(chunks, each, n) ==
  /\ InOrder(chunks)
  /\ chunks # <<>> => chunks[Len(chunks)].page \in Nat /\ chunks[Len(chunks)].page <= n
  /\ AllAdd(Read(chunks), <<>>) = FlattenSeq(SubSeq(each, 1, n))

\* A page more keeps what the chunks say: it is fresh, being a later page.
LEMMA OnePageMore ==
  ASSUME NEW each \in Seq(Seq(Spoken)), NEW n \in 1..Len(each),
         NEW chunks, PagesRead(chunks, each, n - 1),
         NEW path, ClearPath(path), NEW page \in Seq(Line), each[n] = SaidByLines(path, page)
  PROVE  PagesRead(Emit(chunks, path, n, Paragraphs(page)), each, n)
<1>1. /\ InOrder(chunks)
      /\ chunks # <<>> => chunks[Len(chunks)].page \in Nat /\ chunks[Len(chunks)].page <= n - 1
      /\ AllAdd(Read(chunks), <<>>) = FlattenSeq(SubSeq(each, 1, n - 1))
  BY DEF PagesRead
<1>2. n \in Nat /\ Len(each) \in Nat
  BY LenProperties
<1>3. Fresh(chunks, path, n)
  <2>1. chunks # <<>> => chunks[Len(chunks)].page # n
    BY <1>1, <1>2
  <2> QED BY <2>1 DEF Fresh
<1>4. PICK after : after = Emit(chunks, path, n, Paragraphs(page))
  OBVIOUS
<1>5. /\ InOrder(after)
      /\ SaidByLines(path, page) = <<>> => after = chunks
      /\ SaidByLines(path, page) # <<>> => after # <<>> /\ after[Len(after)].page = n
      /\ AllAdd(Read(after), <<>>) = AllAdd(Read(chunks), <<>>) \o SaidByLines(path, page)
  <2>1. SaysMore(Emit(chunks, path, n, Paragraphs(page)), chunks, path, n, page)
    BY <1>1, <1>2, EmitSays
  <2>2. SaysMore(after, chunks, path, n, page)
    BY <1>4, <2>1, Zenon
  <2> QED BY <1>3, <2>2 DEF SaysMore
<1>6. FlattenSeq(SubSeq(each, 1, n)) = FlattenSeq(SubSeq(each, 1, n - 1)) \o each[n]
  BY FlattenOneMore
<1>7. after # <<>> => after[Len(after)].page \in Nat /\ after[Len(after)].page <= n
  <2>1. CASE SaidByLines(path, page) = <<>>
    BY <1>1, <1>2, <1>5, <2>1
  <2>2. CASE SaidByLines(path, page) # <<>>
    BY <1>2, <1>5, <2>2
  <2> QED BY <2>1, <2>2
<1>8. AllAdd(Read(after), <<>>) = FlattenSeq(SubSeq(each, 1, n))
  BY <1>1, <1>5, <1>6, Zenon
<1> QED BY <1>4, <1>5, <1>7, <1>8 DEF PagesRead

\* The chunks of pages say what the pages do, under their bookmarks.
LEMMA PagesAreRead ==
  ASSUME TitlesAreClear, NEW pages \in Seq(Seq(Line)), NEW outline \in Seq(Bookmarks)
  PROVE  /\ InOrder(ChunkPages(pages, outline))
         /\ AllAdd(Read(ChunkPages(pages, outline)), <<>>)
              = FlattenSeq([n \in DOMAIN pages |-> PageSaid(pages, outline, n)])
<1> DEFINE each == [n \in DOMAIN pages |-> PageSaid(pages, outline, n)]
           numbers == [n \in DOMAIN pages |-> n]
           step == PageStep(pages, outline)
<1>1. Len(pages) \in Nat /\ DOMAIN pages = 1..Len(pages)
  BY LenProperties
<1>2. PICK N \in Nat : N = Len(pages) /\ DOMAIN pages = 1..N
  BY <1>1
<1>3. /\ step \in Steps(Seq(Chunk), 1..N)
      /\ \A n \in 1..N : ClearPath(PagePath(outline, n)) /\ pages[n] \in Seq(Line)
      /\ \A chunks \in Seq(Chunk), n \in 1..N :
           step[<<chunks, n>>] = Emit(chunks, PagePath(outline, n), n, Paragraphs(pages[n]))
  <2>1. <<>> \in Seq(Chunk)
    BY EmptySeq
  <2> HIDE DEF step
  <2> QED BY <1>2, <2>1, PageStepIs DEF step
<1>4. ASSUME NEW n \in 1..N
      PROVE  PageSaid(pages, outline, n) = SaidByLines(PagePath(outline, n), pages[n])
             /\ PageSaid(pages, outline, n) \in Seq(Spoken)
  <2>1. PagePath(outline, n) \in Seq(Texts)
    BY <1>3, ClearPathIs
  <2>2. pages[n] \in Seq(Line)
    BY <1>3
  <2> QED BY <2>1, <2>2, PageSays, SaidByLinesIs DEF PageSaid
<1>5. /\ each \in Seq(Seq(Spoken)) /\ Len(each) = N
      /\ \A n \in 1..N : each[n] = SaidByLines(PagePath(outline, n), pages[n])
  <2>1. each \in [1..N -> Seq(Spoken)]
    BY <1>2, <1>4
  <2>2. \A n \in 1..N : each[n] = SaidByLines(PagePath(outline, n), pages[n])
    BY <1>2, <1>4
  <2> HIDE DEF each
  <2> QED BY <2>1, <2>2, IsSequence
<1>6. numbers \in Seq(1..N) /\ Len(numbers) = N /\ \A n \in 1..N : numbers[n] = n
  <2>1. numbers \in [1..N -> 1..N] /\ \A n \in 1..N : numbers[n] = n
    BY <1>2
  <2> HIDE DEF numbers
  <2> QED BY <2>1, IsSequence
<1>7. ChunkPages(pages, outline) = TakenIn(step, <<>>, numbers)
  BY DEF ChunkPages, PageStep, PagePath
<1> HIDE DEF each, numbers, step
<1>8. <<>> \in Seq(Chunk)
  BY EmptySeq
<1> DEFINE f(n) == After(step, <<>>, numbers, n)
<1>9. /\ f(0) = <<>> /\ TakenIn(step, <<>>, numbers) = f(N)
      /\ \A n \in 0..N : f(n) \in Seq(Chunk)
      /\ \A n \in 1..N : f(n) = step[<<f(n - 1), n>>]
  <2>1. PICK X, E : X = Seq(Chunk) /\ E = 1..N
    OBVIOUS
  <2>2. <<>> \in X /\ step \in Steps(X, E) /\ numbers \in Seq(E)
    BY <1>3, <1>6, <1>8, <2>1
  <2>3. /\ f(0) = <<>>
        /\ \A n \in 0..Len(numbers) : f(n) \in X
        /\ \A n \in 1..Len(numbers) : f(n) = step[<<f(n - 1), numbers[n]>>]
        /\ f(Len(numbers)) = TakenIn(step, <<>>, numbers)
    BY <2>2, AfterIs
  <2>4. f(0) = <<>> /\ f(N) = TakenIn(step, <<>>, numbers)
    BY <1>6, <2>3
  <2>5. \A n \in 0..N : f(n) \in Seq(Chunk)
    BY <1>6, <2>1, <2>3
  <2>6. \A n \in 1..N : f(n) = step[<<f(n - 1), n>>]
    BY <1>6, <2>3
  <2> QED BY <2>4, <2>5, <2>6
<1> HIDE DEF f
<1> DEFINE S == {n \in 0..N : PagesRead(f(n), each, n)}
<1>12. 0 \in S
  <2>1. FlattenSeq(SubSeq(each, 1, 0)) = <<>>
    <3>1. SubSeq(each, 1, 0) = <<>>
      BY SubSeqEmpty
    <3> QED BY <3>1, Flattened
  <2>2. PagesRead(<<>>, each, 0)
    BY <2>1, NoneInOrder DEF PagesRead
  <2> QED BY <1>9, <2>2
<1>13. ASSUME NEW n \in 1..N, n - 1 \in S PROVE n \in S
  <2>1. PagesRead(f(n - 1), each, n - 1)
    BY <1>13
  <2>2. f(n - 1) \in Seq(Chunk)
    <3>1. n - 1 \in 0..N
      OBVIOUS
    <3> QED BY <1>9, <3>1
  <2>3. f(n) = Emit(f(n - 1), PagePath(outline, n), n, Paragraphs(pages[n]))
    BY <1>3, <1>9, <2>2
  <2>4. n \in 1..Len(each) /\ each[n] = SaidByLines(PagePath(outline, n), pages[n])
    BY <1>5
  <2>5. PagesRead(Emit(f(n - 1), PagePath(outline, n), n, Paragraphs(pages[n])), each, n)
    BY <1>3, <1>5, <2>1, <2>4, OnePageMore
  <2>6. PagesRead(f(n), each, n)
    BY <2>3, <2>5
  <2> QED BY <2>6
<1>14. N \in S
  <2> HIDE DEF S
  <2>1. N \in 0..N
    OBVIOUS
  <2> QED BY <1>12, <1>13, <2>1, UpTo
<1>15. PagesRead(f(N), each, N)
  BY <1>14
<1>16. SubSeq(each, 1, N) = each
  BY <1>5, SubSeqFull
<1>17. InOrder(f(N)) /\ AllAdd(Read(f(N)), <<>>) = FlattenSeq(each)
  BY <1>15, <1>16 DEF PagesRead
<1> QED BY <1>7, <1>9, <1>17 DEF each

-----------------------------------------------------------------------------
(* The headings in force *)

\* Of the first n lines, those of the places in I.
Picked(lines, I, n) == FlattenSeq([i \in 1..n |-> IF i \in I THEN <<lines[i]>> ELSE <<>>])

Places(lines, I, n, B) == \A i \in 1..n : i \in I => lines[i] \in B

\* Of no lines, none is picked.
LEMMA PickedNone ==
  ASSUME NEW lines, NEW I
  PROVE  Picked(lines, I, 0) = <<>>
<1>1. PICK each : each = [i \in 1..0 |-> IF i \in I THEN <<lines[i]>> ELSE <<>>]
  OBVIOUS
<1>2. each = <<>>
  <2>1. each \in [1..0 -> {}]
    BY <1>1
  <2>2. each \in Seq({}) /\ Len(each) = 0
    BY <2>1, IsSequence
  <2> QED BY <2>2, EmptySeq
<1>3. FlattenSeq(<<>>) = <<>>
  BY Flattened
<1> QED BY <1>1, <1>2, <1>3, Zenon DEF Picked

\* What is picked, as the sequences that are laid end to end.
LEMMA PickedIs ==
  ASSUME NEW lines, NEW I, NEW B, NEW n \in Nat, Places(lines, I, n, B)
  PROVE  \E each \in Seq(Seq(B)) :
           /\ Picked(lines, I, n) = FlattenSeq(each) /\ Len(each) = n
           /\ \A i \in 1..n : each[i] = IF i \in I THEN <<lines[i]>> ELSE <<>>
<1>1. \A i \in 1..n : (IF i \in I THEN <<lines[i]>> ELSE <<>>) \in Seq(B)
  <2>1. <<>> \in Seq(B) /\ \A b \in B : <<b>> \in Seq(B)
    BY EmptySeq
  <2> QED BY <2>1 DEF Places
<1>2. PICK C : C = Seq(B)
  OBVIOUS
<1>3. PICK each : each = [i \in 1..n |-> IF i \in I THEN <<lines[i]>> ELSE <<>>]
  OBVIOUS
<1>4. each \in [1..n -> C] /\ \A i \in 1..n : each[i] = IF i \in I THEN <<lines[i]>> ELSE <<>>
  BY <1>1, <1>2, <1>3
<1>5. each \in Seq(C) /\ Len(each) = n
  BY <1>4, IsSequence
<1>6. Picked(lines, I, n) = FlattenSeq(each)
  BY <1>3, Zenon DEF Picked
<1> QED BY <1>2, <1>4, <1>5, <1>6, Zenon

\* What is picked is a sequence of what stands in its places.
LEMMA PickedSeq ==
  ASSUME NEW lines, NEW I, NEW B, NEW n \in Nat, Places(lines, I, n, B)
  PROVE  Picked(lines, I, n) \in Seq(B)
<1>1. PICK each \in Seq(Seq(B)) : Picked(lines, I, n) = FlattenSeq(each)
  BY PickedIs
<1>2. FlattenSeq(each) \in Seq(B)
  BY Flattened
<1> QED BY <1>1, <1>2, Zenon

\* Of one line more: that line too, or no other.
LEMMA PickedMore ==
  ASSUME NEW lines, NEW I, NEW B, NEW n \in Nat, Places(lines, I, n, B),
         NEW m \in Nat, m = n + 1, Places(lines, I, m, B)
  PROVE  /\ m \in I => Picked(lines, I, m) = Append(Picked(lines, I, n), lines[m])
         /\ m \notin I => Picked(lines, I, m) = Picked(lines, I, n)
<1>1. PICK C : C = Seq(B)
  OBVIOUS
<1>2. PICK a \in Seq(C) :
        /\ Picked(lines, I, n) = FlattenSeq(a) /\ Len(a) = n
        /\ \A i \in 1..n : a[i] = IF i \in I THEN <<lines[i]>> ELSE <<>>
  BY <1>1, PickedIs
<1>3. PICK b \in Seq(C) :
        /\ Picked(lines, I, m) = FlattenSeq(b) /\ Len(b) = m
        /\ \A i \in 1..m : b[i] = IF i \in I THEN <<lines[i]>> ELSE <<>>
  BY <1>1, PickedIs
<1>4. /\ Len(a) = n /\ Len(b) = n + 1 /\ \A i \in 1..n : b[i] = a[i]
      /\ b[m] = IF m \in I THEN <<lines[m]>> ELSE <<>>
  <2>1. \A i \in 1..n : i \in 1..m
    OBVIOUS
  <2>2. m \in 1..m
    OBVIOUS
  <2> QED BY <1>2, <1>3, <2>1, <2>2
<1>5. b = Append(a, b[m]) /\ b[m] \in C
  BY <1>4, OneMore
<1>6. PICK last \in Seq(B) : last = b[m]
  BY <1>1, <1>5
<1>7. FlattenSeq(Append(a, last)) = FlattenSeq(a) \o last /\ FlattenSeq(a) \in Seq(B)
  BY <1>1, Flattened
<1>8. PICK p \in Seq(B) : p = Picked(lines, I, n)
  BY <1>2, <1>7
<1>9. Picked(lines, I, m) = p \o last
  BY <1>2, <1>3, <1>5, <1>6, <1>7, <1>8, Zenon
<1>10. ASSUME m \in I PROVE Picked(lines, I, m) = Append(p, lines[m])
  <2>1. PICK l \in B : l = lines[m]
    <3>1. m \in 1..m
      OBVIOUS
    <3> QED BY <1>10, <3>1 DEF Places
  <2>2. last = <<l>>
    BY <1>4, <1>6, <1>10, <2>1
  <2>3. Append(p, l) = p \o <<l>>
    BY AppendIsConcat
  <2> QED BY <1>9, <2>1, <2>2, <2>3, Zenon
<1>11. ASSUME m \notin I PROVE Picked(lines, I, m) = p
  <2>1. last = <<>>
    BY <1>4, <1>6, <1>11
  <2>2. p \o <<>> = p
    BY ConcatEmptySeq
  <2> QED BY <1>9, <2>1, <2>2, Zenon
<1> QED BY <1>8, <1>10, <1>11

\* The same places, the same lines.
LEMMA SamePicked ==
  ASSUME NEW lines, NEW I, NEW J, NEW n \in Nat, \A i \in 1..n : i \in I <=> i \in J
  PROVE  Picked(lines, I, n) = Picked(lines, J, n)
<1>1. [i \in 1..n |-> IF i \in I THEN <<lines[i]>> ELSE <<>>]
        = [i \in 1..n |-> IF i \in J THEN <<lines[i]>> ELSE <<>>]
  OBVIOUS
<1> QED BY <1>1, Zenon DEF Picked

\* Fewer places in fewer lines.
LEMMA FewerPlaces ==
  ASSUME NEW lines, NEW I, NEW B, NEW N \in Nat, Places(lines, I, N, B),
         NEW J, J \subseteq I, NEW n \in 0..N
  PROVE  Places(lines, J, n, B)
<1>1. \A i \in 1..n : i \in 1..N
  OBVIOUS
<1> QED BY <1>1 DEF Places

\* To keep some of the lines that were picked is to pick fewer.
LEMMA OnlyPicked ==
  ASSUME NEW lines, NEW I, NEW B, NEW N \in Nat, Places(lines, I, N, B),
         NEW J, NEW S, \A i : i \in J <=> i \in I /\ lines[i] \in S
  PROVE  Only(Picked(lines, I, N), S) = Picked(lines, J, N)
<1> DEFINE Same(n) == Only(Picked(lines, I, n), S) = Picked(lines, J, n)
           T == {n \in 0..N : Same(n)}
<1>0. J \subseteq I /\ I \subseteq I
  OBVIOUS
<1>1. ASSUME NEW n \in 0..N PROVE Places(lines, I, n, B) /\ Places(lines, J, n, B)
  BY <1>0, FewerPlaces
<1>2. \A s \in Seq(B), a \in B :
        Only(Append(s, a), S) = IF a \in S THEN Append(Only(s, S), a) ELSE Only(s, S)
  BY OnlyIs
<1>4. Same(0)
  <2>1. Picked(lines, I, 0) = <<>> /\ Picked(lines, J, 0) = <<>>
    BY PickedNone
  <2>2. Only(<<>>, S) = <<>>
    BY OnlyIs
  <2> QED BY <2>1, <2>2
<1>5. ASSUME NEW m \in 1..N, Same(m - 1) PROVE Same(m)
  <2>1. PICK n \in Nat : n = m - 1 /\ m = n + 1
    OBVIOUS
  <2>2. n \in 0..N /\ m \in 0..N /\ m \in Nat
    BY <2>1
  <2>3. /\ Places(lines, I, n, B) /\ Places(lines, J, n, B)
        /\ Places(lines, I, m, B) /\ Places(lines, J, m, B)
    BY <1>1, <2>2
  <2>4. PICK p \in Seq(B) : p = Picked(lines, I, n)
    BY <2>3, PickedSeq
  <2>5. PICK q \in Seq(B) : q = Picked(lines, J, n)
    BY <2>3, PickedSeq
  <2>6. Only(p, S) = q
    BY <1>5, <2>1, <2>4, <2>5
  <2>7. /\ m \in I => Picked(lines, I, m) = Append(Picked(lines, I, n), lines[m])
        /\ m \notin I => Picked(lines, I, m) = Picked(lines, I, n)
    BY <2>1, <2>2, <2>3, PickedMore
  <2>8. /\ m \in J => Picked(lines, J, m) = Append(Picked(lines, J, n), lines[m])
        /\ m \notin J => Picked(lines, J, m) = Picked(lines, J, n)
    BY <2>1, <2>2, <2>3, PickedMore
  <2>9. CASE m \in I
    <3>1. PICK l \in B : l = lines[m]
      <4>1. m \in 1..m
        OBVIOUS
      <4> QED BY <2>3, <2>9, <4>1 DEF Places
    <3>2. Picked(lines, I, m) = Append(p, l)
      BY <2>4, <2>7, <2>9, <3>1
    <3>3. Only(Append(p, l), S) = IF l \in S THEN Append(Only(p, S), l) ELSE Only(p, S)
      BY <1>2
    <3>4. CASE l \in S
      <4>1. Picked(lines, J, m) = Append(q, l)
        BY <2>5, <2>8, <2>9, <3>1, <3>4
      <4> QED BY <2>6, <3>2, <3>3, <3>4, <4>1
    <3>5. CASE l \notin S
      <4>1. Picked(lines, J, m) = q
        BY <2>5, <2>8, <2>9, <3>1, <3>5
      <4> QED BY <2>6, <3>2, <3>3, <3>5, <4>1
    <3> QED BY <3>4, <3>5
  <2>10. CASE m \notin I
    BY <2>4, <2>5, <2>6, <2>7, <2>8, <2>10
  <2> QED BY <2>9, <2>10
<1>6. \A m \in 1..N : m - 1 \in T => m \in T
  BY <1>5
<1>7. 0 \in T
  BY <1>4
<1>8. N \in T
  <2> HIDE DEF T
  <2>1. N \in 0..N
    OBVIOUS
  <2> QED BY <1>6, <1>7, <2>1, UpTo
<1> QED BY <1>8

\* The headings in force after one more are those of a lower level, and it.
LEMMA EnterPicked ==
  ASSUME NEW lines, NEW I, NEW B, NEW n \in Nat, Places(lines, I, n, B),
         NEW m \in Nat, m = n + 1, NEW h \in B, h = lines[m],
         NEW J, m \in J, \A i \in 1..n : i \in J <=> i \in I /\ lines[i].level < h.level
  PROVE  Enter(Picked(lines, I, n), h) = Picked(lines, J, m)
<1>1. PICK stack \in Seq(B) : stack = Picked(lines, I, n)
  BY PickedSeq
<1>3. PICK S : S = {x \in B : x.level < h.level}
  OBVIOUS
<1>4. Only(stack, {x \in ToSet(stack) : x.level < h.level}) = Only(stack, S)
  <2>1. PICK R : R = {x \in ToSet(stack) : x.level < h.level}
    OBVIOUS
  <2>2. ASSUME NEW i \in DOMAIN stack PROVE stack[i] \in R <=> stack[i] \in S
    <3>1. stack[i] \in B
      BY LenProperties, ElementOfSeq
    <3>2. stack[i] \in ToSet(stack)
      BY DEF ToSet
    <3> QED BY <1>3, <2>1, <3>1, <3>2
  <2>3. [i \in DOMAIN stack |-> IF stack[i] \in R THEN <<stack[i]>> ELSE <<>>]
          = [i \in DOMAIN stack |-> IF stack[i] \in S THEN <<stack[i]>> ELSE <<>>]
    BY <2>2
  <2>4. Only(stack, R) = Only(stack, S)
    BY <2>3, Zenon DEF Only
  <2> QED BY <2>1, <2>4
<1>5. PICK K : K = {i \in I : lines[i] \in S}
  OBVIOUS
<1>6. Only(stack, S) = Picked(lines, K, n)
  <2>1. \A i : i \in K <=> i \in I /\ lines[i] \in S
    BY <1>5
  <2>2. Only(Picked(lines, I, n), S) = Picked(lines, K, n)
    BY <2>1, OnlyPicked
  <2> QED BY <1>1, <2>2
<1>7. \A i \in 1..n : i \in K <=> i \in J
  BY <1>3, <1>5 DEF Places
<1>8. Picked(lines, K, n) = Picked(lines, J, n)
  BY <1>7, SamePicked
<1>9. Places(lines, J, n, B) /\ Places(lines, J, m, B)
  <2>1. \A i \in 1..m : i \in 1..n \/ i = m
    OBVIOUS
  <2> QED BY <2>1 DEF Places
<1>10. Picked(lines, J, m) = Append(Picked(lines, J, n), lines[m])
  BY <1>9, PickedMore
<1>11. Enter(Picked(lines, I, n), h) = Append(Picked(lines, J, n), h)
  BY <1>1, <1>4, <1>6, <1>8, Zenon DEF Enter
<1> QED BY <1>10, <1>11, Zenon

\* Of the file's first n lines: whether a fence is open after them, which headings are in
\* force, where a text stands.
FenceStep  == [p \in Fenced \X Line |-> FenceAfter(p[1], p[2])]
FenceAt(n) == After(FenceStep, <<>>, file.lines, n)
Held(n)    == {i \in 1..n : InForce(i, n)}
Here(n)    == Path(TrailAt(n))

\* The fence after each line, and InFence of the next.
LEMMA FenceAtIs ==
  ASSUME file.lines \in Seq(Line)
  PROVE  /\ FenceAt(0) = <<>>
         /\ \A n \in 0..Len(file.lines) : FenceAt(n) \in Fenced
         /\ \A n \in 1..Len(file.lines) :
              /\ FenceAt(n) = FenceAfter(FenceAt(n - 1), file.lines[n])
              /\ InFence(n) <=> FenceAt(n - 1) # <<>>
<1>1. ASSUME NEW p \in Fenced \X Line PROVE FenceAfter(p[1], p[2]) \in Fenced
  <2>1. p[1] \in Fenced /\ p[2] \in Line
    OBVIOUS
  <2> QED BY <2>1, FenceAfterIs
<1>2. FenceStep \in Steps(Fenced, Line)
  BY <1>1 DEF FenceStep, Steps
<1>3. <<>> \in Fenced
  BY DEF Fenced
<1>4. PICK lines \in Seq(Line) : lines = file.lines
  OBVIOUS
<1>5. /\ After(FenceStep, <<>>, lines, 0) = <<>>
      /\ \A n \in 0..Len(lines) : After(FenceStep, <<>>, lines, n) \in Fenced
      /\ \A n \in 1..Len(lines) :
           After(FenceStep, <<>>, lines, n)
             = FenceStep[<<After(FenceStep, <<>>, lines, n - 1), lines[n]>>]
  BY <1>2, <1>3, AfterIs
<1>6. /\ FenceAt(0) = <<>>
      /\ \A n \in 0..Len(lines) : FenceAt(n) \in Fenced
      /\ \A n \in 1..Len(lines) : FenceAt(n) = FenceStep[<<FenceAt(n - 1), lines[n]>>]
  BY <1>4, <1>5 DEF FenceAt
<1>7. ASSUME NEW n \in 1..Len(lines)
      PROVE  /\ FenceAt(n) = FenceAfter(FenceAt(n - 1), lines[n])
             /\ InFence(n) <=> FenceAt(n - 1) # <<>>
  <2>1. lines[n] \in Line /\ n - 1 \in 0..Len(lines)
    BY LenProperties, ElementOfSeq
  <2>2. PICK fence \in Fenced, line \in Line : fence = FenceAt(n - 1) /\ line = lines[n]
    BY <1>6, <2>1
  <2>3. FenceStep[<<fence, line>>] = FenceAfter(fence, line)
    BY DEF FenceStep
  <2>4. InFence(n) <=> FenceAt(n - 1) # <<>>
    BY Zenon DEF InFence, FenceAt, After, FenceStep
  <2> QED BY <1>6, <2>2, <2>3, <2>4
<1> QED BY <1>4, <1>6, <1>7

\* The trail is the titles of the headings that are picked.
LEMMA TrailIs ==
  ASSUME NEW n \in Nat
  PROVE  TrailAt(n) = Titles(Picked(file.lines, Held(n), n))
<1>1. [i \in 1..n |-> IF InForce(i, n) THEN <<file.lines[i]>> ELSE <<>>]
        = [i \in 1..n |-> IF i \in Held(n) THEN <<file.lines[i]>> ELSE <<>>]
  BY DEF Held
<1> QED BY <1>1, Zenon DEF TrailAt, Picked

\* A heading closes those of its level and below, and only a heading does.
LEMMA HeldIs ==
  ASSUME file.lines \in Seq(Line), NEW n \in 1..Len(file.lines)
  PROVE  /\ IsHeading(n) => n \in Held(n)
         /\ IsHeading(n) => \A i \in 1..n - 1 :
              i \in Held(n) <=> i \in Held(n - 1) /\ file.lines[i].level < file.lines[n].level
         /\ ~IsHeading(n) => Held(n) = Held(n - 1)
<1>1. Len(file.lines) \in Nat /\ n \in Nat
  BY LenProperties
<1>2. ASSUME NEW i \in 1..n - 1, IsHeading(i)
      PROVE  /\ i \in 1..Len(file.lines) /\ i \in 1..n
             /\ file.lines[i].level \in Nat
             /\ InForce(i, n) <=>
                  InForce(i, n - 1) /\ (IsHeading(n) => file.lines[n].level > file.lines[i].level)
  <2>1. i \in 1..Len(file.lines) /\ i \in 1..n
    BY <1>1
  <2>2. file.lines[i] \in Line
    BY <2>1, ElementOfSeq
  <2>3. file.lines[i].level \in Nat
    BY <1>2, <2>2, LineIs DEF IsHeading
  <2>4. \A k : k \in i + 1..n <=> k \in i + 1..n - 1 \/ k = n
    BY <1>1
  <2> QED BY <1>2, <2>1, <2>3, <2>4 DEF InForce
<1>3. ASSUME IsHeading(n) PROVE n \in Held(n) /\ file.lines[n].level \in Nat
  <2>1. n \in 1..n /\ \A k \in n + 1..n : FALSE
    BY <1>1
  <2>2. file.lines[n] \in Line
    BY ElementOfSeq
  <2>3. file.lines[n].level \in Nat
    BY <1>3, <2>2, LineIs DEF IsHeading
  <2> QED BY <1>3, <2>1, <2>3 DEF Held, InForce
<1>4. ASSUME IsHeading(n), NEW i \in 1..n - 1
      PROVE  i \in Held(n) <=> i \in Held(n - 1) /\ file.lines[i].level < file.lines[n].level
  <2>1. i \in 1..n
    BY <1>1
  <2>2. CASE IsHeading(i)
    <3>1. file.lines[n].level > file.lines[i].level <=> file.lines[i].level < file.lines[n].level
      BY <1>2, <1>3, <1>4, <2>2
    <3> QED BY <1>2, <1>4, <2>1, <2>2, <3>1 DEF Held
  <2>3. CASE ~IsHeading(i)
    BY <2>3 DEF Held, InForce
  <2> QED BY <2>2, <2>3
<1>5. ASSUME ~IsHeading(n) PROVE Held(n) = Held(n - 1)
  <2>1. ASSUME NEW i PROVE i \in Held(n) <=> i \in Held(n - 1)
    <3>1. i \in 1..n <=> i \in 1..n - 1 \/ i = n
      BY <1>1
    <3>2. i = n => i \notin Held(n) /\ i \notin 1..n - 1
      BY <1>1, <1>5 DEF Held, InForce
    <3>3. ASSUME i \in 1..n - 1 PROVE InForce(i, n) <=> InForce(i, n - 1)
      <4>1. IsHeading(i) => (InForce(i, n) <=> InForce(i, n - 1))
        BY <1>2, <1>5, <3>3
      <4> QED BY <4>1 DEF InForce
    <3> QED BY <3>1, <3>2, <3>3 DEF Held
  <2> QED BY <2>1
<1> QED BY <1>3, <1>4, <1>5

-----------------------------------------------------------------------------
(* Lines: what is pending, and what has been said *)

\* The headings of the file have titles a reader can tell from separators.
ClearHeadings == {l \in Line : l.kind = "heading" /\ l.title \in ClearTitles}
ClearFile ==
  /\ file.lines \in Seq(Line)
  /\ \A i \in 1..Len(file.lines) : IsHeading(i) => file.lines[i] \in ClearHeadings

InForceAt(n) == Picked(file.lines, Held(n), n)

\* Where a heading is in force there is a heading with a clear title.
LEMMA HeldPlaces ==
  ASSUME ClearFile, NEW n \in 0..Len(file.lines), NEW k \in 0..n
  PROVE  n \in Nat /\ k \in Nat /\ Places(file.lines, Held(n), k, ClearHeadings)
<1>1. Len(file.lines) \in Nat
  BY LenProperties DEF ClearFile
<1>2. ASSUME NEW i \in 1..k, i \in Held(n) PROVE file.lines[i] \in ClearHeadings
  <2>1. i \in 1..Len(file.lines)
    BY <1>1
  <2>2. IsHeading(i)
    BY <1>2 DEF Held, InForce
  <2> QED BY <2>1, <2>2 DEF ClearFile
<1>3. n \in Nat /\ k \in Nat
  BY <1>1
<1> QED BY <1>2, <1>3 DEF Places

\* The path after n lines is one to be read.
LEMMA HereIsClear ==
  ASSUME ClearFile, NEW n \in 0..Len(file.lines)
  PROVE  /\ InForceAt(n) \in Seq(ClearHeadings)
         /\ Here(n) = Path(Titles(InForceAt(n)))
         /\ ClearPath(Here(n)) /\ Here(n) \in Seq(Texts)
<1>1. n \in Nat /\ n \in 0..n /\ Places(file.lines, Held(n), n, ClearHeadings)
  <2>1. n \in Nat /\ n \in 0..n
    BY LenProperties DEF ClearFile
  <2> QED BY <2>1, HeldPlaces
<1>2. PICK stack \in Seq(ClearHeadings) : stack = InForceAt(n)
  BY <1>1, PickedSeq DEF InForceAt
<1>3. TrailAt(n) = Titles(stack)
  BY <1>1, <1>2, TrailIs DEF InForceAt
<1>4. \A l \in ClearHeadings : l.title \in ClearTitles
  BY DEF ClearHeadings
<1>5. Titles(stack) \in Seq(ClearTitles)
  BY <1>4, TitlesAre
<1>6. Here(n) = Path(Titles(stack))
  BY <1>3 DEF Here
<1>7. ClearPath(Here(n))
  BY <1>5, <1>6, PathIsClear
<1>8. Here(n) \in Seq(Texts)
  BY <1>7, ClearPathIs
<1> QED BY <1>2, <1>6, <1>7, <1>8

\* Before the first line no heading is in force.
LEMMA NoneInForce == InForceAt(0) = <<>>
BY PickedNone DEF InForceAt

\* A line that is no heading leaves the path as it is.
LEMMA HereStays ==
  ASSUME ClearFile, NEW n \in 1..Len(file.lines), ~IsHeading(n)
  PROVE  InForceAt(n) = InForceAt(n - 1) /\ Here(n) = Here(n - 1)
<1>1. PICK k \in Nat : k = n - 1 /\ n = k + 1
  BY LenProperties DEF ClearFile
<1>2. /\ n \in Nat /\ n \in 0..n /\ k \in 0..n
      /\ n \in 0..Len(file.lines) /\ k \in 0..Len(file.lines)
  BY <1>1, LenProperties DEF ClearFile
<1>3. Held(n) = Held(k) /\ n \notin Held(n)
  <2>1. n \notin Held(n)
    BY DEF Held, InForce
  <2> QED BY <1>1, <2>1, HeldIs DEF ClearFile
<1>4. /\ Places(file.lines, Held(n), k, ClearHeadings)
      /\ Places(file.lines, Held(n), n, ClearHeadings)
  BY <1>2, HeldPlaces
<1>5. Picked(file.lines, Held(n), n) = Picked(file.lines, Held(n), k)
  BY <1>1, <1>2, <1>3, <1>4, PickedMore
<1>6. InForceAt(n) = InForceAt(k)
  BY <1>3, <1>5 DEF InForceAt
<1>7. Here(n) = Here(k)
  BY <1>2, <1>6, HereIsClear
<1> QED BY <1>1, <1>6, <1>7

\* A heading enters the stack, as Enter has it.
LEMMA HereEnters ==
  ASSUME ClearFile, NEW n \in 1..Len(file.lines), IsHeading(n)
  PROVE  InForceAt(n) = Enter(InForceAt(n - 1), file.lines[n])
<1>1. PICK k \in Nat : k = n - 1 /\ n = k + 1
  BY LenProperties DEF ClearFile
<1>2. n \in Nat /\ k \in 0..k /\ k \in 0..Len(file.lines)
  BY <1>1, LenProperties DEF ClearFile
<1>3. PICK h \in ClearHeadings : h = file.lines[n]
  BY DEF ClearFile
<1>4. /\ n \in Held(n)
      /\ \A i \in 1..k : i \in Held(n) <=> i \in Held(k) /\ file.lines[i].level < h.level
  BY <1>1, <1>3, HeldIs DEF ClearFile
<1>5. Places(file.lines, Held(k), k, ClearHeadings)
  BY <1>2, HeldPlaces
<1>6. Enter(Picked(file.lines, Held(k), k), h) = Picked(file.lines, Held(n), n)
  BY <1>1, <1>2, <1>3, <1>4, <1>5, EnterPicked
<1> QED BY <1>1, <1>3, <1>6 DEF InForceAt

-----------------------------------------------------------------------------
\* The lines with words that no heading has closed yet.
Telling(n)   == IsText(n) /\ Visible(file.lines[n].text) # {}
Pending(n) == {q \in 1..n : Telling(q) /\ \A k \in q + 1..n : ~IsHeading(k)}

\* A heading leaves nothing pending; a line with words is pending.
LEMMA PendingIs ==
  ASSUME NEW n \in Nat, n >= 1
  PROVE  /\ IsHeading(n) => Pending(n) = {}
         /\ ~IsHeading(n) /\ Telling(n) => Pending(n) = Pending(n - 1) \cup {n}
         /\ ~IsHeading(n) /\ ~Telling(n) => Pending(n) = Pending(n - 1)
<1>1. ASSUME IsHeading(n), NEW q \in Pending(n) PROVE FALSE
  <2>1. q \in 1..n /\ Telling(q) /\ \A k \in q + 1..n : ~IsHeading(k)
    BY <1>1 DEF Pending
  <2>2. q = n
    <3>1. q # n => n \in q + 1..n
      BY <2>1
    <3> QED BY <1>1, <2>1, <3>1
  <2> QED BY <1>1, <2>1, <2>2 DEF Telling, IsText, IsHeading
<1>2. ASSUME ~IsHeading(n), NEW q 
      PROVE  q \in Pending(n) <=> (q \in Pending(n - 1) \/ (q = n /\ Telling(n)))
  <2>1. CASE q = n
    <3>1. q \in 1..n /\ q \notin 1..n - 1 /\ \A k \in q + 1..n : FALSE
      BY <2>1
    <3> QED BY <2>1, <3>1 DEF Pending
  <2>2. CASE q # n
    <3>1. q \in 1..n <=> q \in 1..n - 1
      BY <2>2
    <3>2. ASSUME q \in 1..n - 1
          PROVE  (\A k \in q + 1..n : ~IsHeading(k)) <=> (\A k \in q + 1..n - 1 : ~IsHeading(k))
      <4>1. \A k : k \in q + 1..n <=> k \in q + 1..n - 1 \/ k = n
        BY <3>2
      <4> QED BY <1>2, <4>1
    <3>3. ASSUME q \in 1..n - 1 PROVE q \in Pending(n) <=> q \in Pending(n - 1)
      BY <3>1, <3>2, <3>3, Zenon DEF Pending
    <3>4. q \notin 1..n - 1 => q \notin Pending(n) /\ q \notin Pending(n - 1)
      BY <3>1, Zenon DEF Pending
    <3> QED BY <2>2, <3>3, <3>4, Zenon
  <2> QED BY <2>1, <2>2
<1>3. ASSUME IsHeading(n) PROVE Pending(n) = {}
  BY <1>1, <1>3
<1>4. ASSUME ~IsHeading(n), Telling(n) PROVE Pending(n) = Pending(n - 1) \cup {n}
  BY <1>2, <1>4
<1>5. ASSUME ~IsHeading(n), ~Telling(n) PROVE Pending(n) = Pending(n - 1)
  <2>1. \A q : q \in Pending(n) <=> q \in Pending(n - 1)
    BY <1>2, <1>5, Zenon
  <2> QED BY <2>1
<1> QED BY <1>3, <1>4, <1>5

\* What is pending stands where the next line does.
LEMMA PendingHere ==
  ASSUME ClearFile
  PROVE  \A n \in 0..Len(file.lines) : \A q \in Pending(n) : Here(q) = Here(n)
<1> DEFINE T == {n \in 0..Len(file.lines) : \A q \in Pending(n) : Here(q) = Here(n)}
<1>1. Len(file.lines) \in Nat
  BY LenProperties DEF ClearFile
<1>2. 0 \in T
  BY <1>1 DEF Pending
<1>3. ASSUME NEW n \in 1..Len(file.lines), n - 1 \in T PROVE n \in T
  <2>1. n \in Nat /\ n >= 1 /\ n \in 0..Len(file.lines)
    BY <1>1
  <2>2. ASSUME NEW q \in Pending(n) PROVE Here(q) = Here(n)
    <3>1. ~IsHeading(n)
      BY <2>1, <2>2, PendingIs
    <3>2. q \in Pending(n - 1) \/ q = n
      BY <2>1, <2>2, <3>1, PendingIs
    <3>3. Here(n) = Here(n - 1)
      BY <3>1, HereStays
    <3> QED BY <1>3, <3>2, <3>3
  <2> QED BY <2>1, <2>2
<1>4. \A n \in 0..Len(file.lines) : n \in T
  <2> HIDE DEF T
  <2> QED BY <1>1, <1>2, <1>3, UpTo
<1> QED BY <1>4

\* The last text of a path stands behind a heading, and what follows it is pending.
Behind(path, n) ==
  \E m \in 1..n : /\ IsText(m) /\ Here(m) = path
                  /\ \E h \in m + 1..n : IsHeading(h)
                  /\ \A k \in m + 1..n : Telling(k) => k \in Pending(n)

LastFrom(chunks, n) == chunks # <<>> => Behind(chunks[Len(chunks)].path, n)

\* What is behind a heading stays there, until a section with words is closed.
LEMMA BehindIs ==
  ASSUME NEW n \in Nat, n >= 1, NEW path
  PROVE  /\ ~IsHeading(n) /\ Behind(path, n - 1) => Behind(path, n)
         /\ IsHeading(n) /\ Pending(n - 1) = {} /\ Behind(path, n - 1) => Behind(path, n)
<1> SUFFICES ASSUME Behind(path, n - 1), ~IsHeading(n) \/ Pending(n - 1) = {}
             PROVE  Behind(path, n)
  OBVIOUS
<1>1. PICK m \in 1..n - 1 :
        /\ IsText(m) /\ Here(m) = path
        /\ \E h \in m + 1..n - 1 : IsHeading(h)
        /\ \A k \in m + 1..n - 1 : Telling(k) => k \in Pending(n - 1)
  BY DEF Behind
<1>2. m \in 1..n /\ \A k : k \in m + 1..n <=> k \in m + 1..n - 1 \/ k = n
  OBVIOUS
<1>3. ASSUME NEW k \in m + 1..n, Telling(k) PROVE k \in Pending(n)
  <2>1. CASE IsHeading(n)
    <3>1. k # n
      BY <1>3, <2>1 DEF Telling, IsText, IsHeading
    <3> QED BY <1>1, <1>2, <1>3, <2>1, <3>1
  <2>2. CASE ~IsHeading(n)
    BY <1>1, <1>2, <1>3, <2>2, PendingIs
  <2> QED BY <2>1, <2>2
<1>4. \E h \in m + 1..n : IsHeading(h)
  BY <1>1, <1>2
<1> QED BY <1>1, <1>2, <1>3, <1>4 DEF Behind

\* The section a heading closes is behind that heading.
LEMMA NowBehind ==
  ASSUME ClearFile, NEW n \in 1..Len(file.lines), IsHeading(n), Pending(n - 1) # {}
  PROVE  Behind(Here(n - 1), n)
<1>1. n \in Nat /\ n - 1 \in Nat /\ n - 1 \in 0..Len(file.lines)
  BY LenProperties DEF ClearFile
<1>2. Pending(n - 1) \subseteq 1..n - 1 /\ Pending(n - 1) \subseteq Nat
  <2>1. Pending(n - 1) \subseteq 1..n - 1
    BY DEF Pending
  <2> QED BY <1>1, <2>1
<1>3. IsFiniteSet(Pending(n - 1))
  <2>1. IsFiniteSet(1..n - 1)
    BY <1>1, FS_Interval
  <2> QED BY <1>2, <2>1, FS_Subset
<1>4. PICK m \in Pending(n - 1) : \A q \in Pending(n - 1) : q <= m
  <2>1. PICK P : P = Pending(n - 1)
    OBVIOUS
  <2> QED BY <1>2, <1>3, <2>1, GreatestOf
<1>5. m \in 1..n - 1 /\ Telling(m) /\ \A k \in m + 1..n - 1 : ~IsHeading(k)
  BY <1>4 DEF Pending
<1>6. IsText(m) /\ Here(m) = Here(n - 1)
  BY <1>1, <1>5, PendingHere DEF Telling
<1>7. m \in 1..n /\ n \in m + 1..n
  BY <1>1, <1>5
<1>8. ASSUME NEW k \in m + 1..n, Telling(k) PROVE FALSE
  <2>1. k # n
    BY <1>8 DEF Telling, IsText, IsHeading
  <2>2. k \in 1..n - 1 /\ ~(k <= m) /\ \A j \in k + 1..n - 1 : j \in m + 1..n - 1
    BY <1>1, <1>5, <2>1
  <2>3. k \in Pending(n - 1)
    BY <1>5, <1>8, <2>2 DEF Pending
  <2> QED BY <1>4, <2>2, <2>3
<1> QED BY <1>6, <1>7, <1>8 DEF Behind

\* What is pending stands elsewhere than the last chunk, if no sections repeat.
LEMMA PendingIsFresh ==
  ASSUME ClearFile, NEW n \in 0..Len(file.lines), Pending(n) # {}, ~SectionsRepeat,
         NEW chunks, LastFrom(chunks, n)
  PROVE  Fresh(chunks, Here(n), 0)
<1> SUFFICES ASSUME Behind(Here(n), n) PROVE FALSE
  BY DEF Fresh, LastFrom
<1>1. Len(file.lines) \in Nat /\ DOMAIN file.lines = 1..Len(file.lines) /\ n \in Nat
  BY LenProperties DEF ClearFile
<1>2. PICK m \in 1..n : /\ IsText(m) /\ Here(m) = Here(n)
                        /\ \E h \in m + 1..n : IsHeading(h)
                        /\ \A k \in m + 1..n : Telling(k) => k \in Pending(n)
  BY DEF Behind
<1>3. PICK h \in m + 1..n : IsHeading(h)
  BY <1>2
<1>4. PICK q \in Pending(n) : \A p \in Pending(n) : q <= p
  <2>1. Pending(n) \subseteq Nat
    BY <1>1 DEF Pending
  <2>2. PICK P : P = Pending(n)
    OBVIOUS
  <2> QED BY <2>1, <2>2, LeastOf
<1>5. q \in 1..n /\ Telling(q) /\ \A k \in q + 1..n : ~IsHeading(k)
  BY <1>4 DEF Pending
<1>6. h < q
  <2>1. h # q
    BY <1>3, <1>5 DEF Telling, IsText, IsHeading
  <2>2. h \notin q + 1..n
    BY <1>3, <1>5
  <2> QED BY <1>1, <1>3, <1>5, <2>1, <2>2
<1>7. /\ m \in DOMAIN file.lines /\ q \in DOMAIN file.lines /\ m < q
      /\ h \in m + 1..q - 1 /\ \A k \in m + 1..q - 1 : k \in m + 1..n /\ ~(q <= k)
  BY <1>1, <1>2, <1>3, <1>5, <1>6
<1>8. IsText(q) /\ Here(m) = Here(q)
  BY <1>1, <1>2, <1>4, <1>5, PendingHere DEF Telling
<1>9. ASSUME NEW k \in m + 1..q - 1, IsText(k) PROVE Visible(file.lines[k].text) = {}
  <2>1. ~Telling(k)
    BY <1>2, <1>4, <1>7
  <2> QED BY <1>9, <2>1 DEF Telling
<1>10. SectionsRepeat
  BY <1>2, <1>3, <1>7, <1>8, <1>9 DEF SectionsRepeat, Here
<1> QED BY <1>10

\* The chunks once the open section is closed; the loop of chunk_markdown.
Flushed(acc) == Emit(acc.chunks, Path(Titles(acc.stack)), 0, Paragraphs(acc.section))

\* The fields of what has been read.
LEMMA SectioningIs ==
  ASSUME NEW acc \in Sectioning
  PROVE  /\ acc.chunks \in Seq(Chunk) /\ acc.section \in Seq(Line) /\ acc.fence \in Fenced
         /\ acc.stack \in Seq({l \in Line : l.kind = "heading"})
         /\ Flushed(acc) \in Seq(Chunk)
<1>1. /\ acc.chunks \in Seq(Chunk) /\ acc.section \in Seq(Line) /\ acc.fence \in Fenced
      /\ acc.stack \in Seq({l \in Line : l.kind = "heading"})
  BY DEF Sectioning
<1>2. PICK A : A = {l \in Line : l.kind = "heading"}
  OBVIOUS
<1>7. PICK stack \in Seq(A) : stack = acc.stack
  BY <1>1, <1>2
<1>3. \A l \in A : l.title \in Texts
  BY <1>2, LineIs DEF Titled
<1>4. Titles(stack) \in Seq(Texts)
  BY <1>3, TitlesAre
<1>5. Path(Titles(stack)) \in Seq(Texts)
  BY <1>4, PathIsTexts
<1>6. Emit(acc.chunks, Path(Titles(stack)), 0, Paragraphs(acc.section)) \in Seq(Chunk)
  BY <1>1, <1>5, EmitIsTyped
<1> QED BY <1>1, <1>7, <1>6 DEF Flushed

\* A line of a section, a bare heading, a heading: what each makes of what was read so far.
LEMMA ReadLineIs ==
  ASSUME NEW acc \in Sectioning, NEW line \in Line
  PROVE  /\ ReadLine(acc, line) \in Sectioning
         /\ ~(acc.fence = <<>> /\ line.kind = "heading") =>
              /\ ReadLine(acc, line).section = Append(acc.section, line)
              /\ ReadLine(acc, line).chunks = acc.chunks
              /\ ReadLine(acc, line).stack = acc.stack
              /\ ReadLine(acc, line).fence = FenceAfter(acc.fence, line)
         /\ acc.fence = <<>> /\ line.kind = "heading" /\ line.title = <<>> =>
              ReadLine(acc, line) = acc
         /\ acc.fence = <<>> /\ line.kind = "heading" /\ line.title # <<>> =>
              /\ ReadLine(acc, line).section = <<>>
              /\ ReadLine(acc, line).chunks = Flushed(acc)
              /\ ReadLine(acc, line).stack = Enter(acc.stack, line)
              /\ ReadLine(acc, line).fence = acc.fence
<1>1. PICK next : next = ReadLine(acc, line)
  OBVIOUS
<1>2. /\ acc.chunks \in Seq(Chunk) /\ acc.section \in Seq(Line) /\ acc.fence \in Fenced
      /\ acc.stack \in Seq({l \in Line : l.kind = "heading"})
  BY SectioningIs
<1>3. PICK A : A = {l \in Line : l.kind = "heading"}
  OBVIOUS
<1>4. CASE ~(acc.fence = <<>> /\ line.kind = "heading")
  <2>1. PICK more \in Seq(Line) : more = Append(acc.section, line)
    BY <1>2, AppendProperties
  <2>2. PICK fence \in Fenced : fence = FenceAfter(acc.fence, line)
    BY <1>2, FenceAfterIs
  <2>3. next = [acc EXCEPT !.section = more, !.fence = fence]
    BY <1>1, <1>4, <2>1, <2>2 DEF ReadLine
  <2>4. /\ next \in Sectioning /\ next.section = more /\ next.fence = fence
        /\ next.chunks = acc.chunks /\ next.stack = acc.stack
    BY <2>3 DEF Sectioning
  <2> QED BY <1>1, <1>4, <2>1, <2>2, <2>4
<1>5. CASE acc.fence = <<>> /\ line.kind = "heading" /\ line.title = <<>>
  <2>1. next = acc
    BY <1>1, <1>5 DEF ReadLine
  <2> QED BY <1>1, <1>5, <2>1
<1>6. CASE acc.fence = <<>> /\ line.kind = "heading" /\ line.title # <<>>
  <2>1. PICK chunks \in Seq(Chunk) : chunks = Flushed(acc)
    BY SectioningIs
  <2>2. PICK stack \in Seq(A) : stack = Enter(acc.stack, line)
    <3>1. line \in A /\ acc.stack \in Seq(A)
      BY <1>2, <1>3, <1>6
    <3> QED BY <3>1, EnterIs
  <2>3. PICK none \in Seq(Line) : none = <<>>
    BY EmptySeq
  <2>4. Flush(acc) = [acc EXCEPT !.chunks = chunks, !.section = none]
    BY <2>1, <2>3 DEF Flush, Flushed
  <2>5. PICK mid : mid = Flush(acc)
    OBVIOUS
  <2>6. /\ mid \in Sectioning /\ mid.section = none /\ mid.chunks = chunks
        /\ mid.stack = acc.stack /\ mid.fence = acc.fence
    BY <2>4, <2>5 DEF Sectioning
  <2>7. next = [mid EXCEPT !.stack = Enter(@, line)]
    BY <1>1, <1>6, <2>5, Zenon DEF ReadLine
  <2>8. next = [mid EXCEPT !.stack = stack]
    BY <2>2, <2>6, <2>7
  <2>9. /\ next \in Sectioning /\ next.section = none /\ next.chunks = chunks
        /\ next.stack = stack /\ next.fence = mid.fence
    BY <1>3, <2>6, <2>8 DEF Sectioning
  <2> QED BY <1>1, <1>6, <2>1, <2>2, <2>3, <2>6, <2>9
<1> QED BY <1>4, <1>5, <1>6

ReadStep == [p \in Sectioning \X Line |-> ReadLine(p[1], p[2])]
Unread   == [chunks |-> <<>>, stack |-> <<>>, section |-> <<>>, fence |-> <<>>]

\* What the first n lines of the file come to.
ReadTo(n) == After(ReadStep, Unread, file.lines, n)

\* What has been read after each line.
LEMMA ReadToIs ==
  ASSUME file.lines \in Seq(Line)
  PROVE  /\ ReadTo(0) = Unread
         /\ \A n \in 0..Len(file.lines) : ReadTo(n) \in Sectioning
         /\ \A n \in 1..Len(file.lines) :
              ReadTo(n) = ReadLine(ReadTo(n - 1), file.lines[n])
         /\ ChunkMarkdown(file.lines) = Flushed(ReadTo(Len(file.lines)))
<1>1. ASSUME NEW p \in Sectioning \X Line PROVE ReadLine(p[1], p[2]) \in Sectioning
  <2>1. p[1] \in Sectioning /\ p[2] \in Line
    OBVIOUS
  <2> QED BY <2>1, ReadLineIs
<1>2. ReadStep \in Steps(Sectioning, Line)
  BY <1>1 DEF ReadStep, Steps
<1>3. Unread \in Sectioning
  <2>1. /\ <<>> \in Seq(Chunk) /\ <<>> \in Seq({l \in Line : l.kind = "heading"})
        /\ <<>> \in Seq(Line) /\ <<>> \in Fenced
    BY EmptySeq DEF Fenced
  <2> QED BY <2>1 DEF Unread, Sectioning
<1>4. PICK lines \in Seq(Line) : lines = file.lines
  OBVIOUS
<1>5. /\ After(ReadStep, Unread, lines, 0) = Unread
      /\ \A n \in 0..Len(lines) : After(ReadStep, Unread, lines, n) \in Sectioning
      /\ \A n \in 1..Len(lines) :
           After(ReadStep, Unread, lines, n)
             = ReadStep[<<After(ReadStep, Unread, lines, n - 1), lines[n]>>]
      /\ After(ReadStep, Unread, lines, Len(lines)) = TakenIn(ReadStep, Unread, lines)
  BY <1>2, <1>3, AfterIs
<1>6. /\ ReadTo(0) = Unread
      /\ \A n \in 0..Len(lines) : ReadTo(n) \in Sectioning
      /\ \A n \in 1..Len(lines) : ReadTo(n) = ReadStep[<<ReadTo(n - 1), lines[n]>>]
      /\ ReadTo(Len(lines)) = TakenIn(ReadStep, Unread, lines)
  BY <1>4, <1>5 DEF ReadTo
<1>7. ASSUME NEW n \in 1..Len(lines) PROVE ReadTo(n) = ReadLine(ReadTo(n - 1), lines[n])
  <2>1. lines[n] \in Line /\ n - 1 \in 0..Len(lines)
    BY LenProperties, ElementOfSeq
  <2>2. PICK acc \in Sectioning, line \in Line : acc = ReadTo(n - 1) /\ line = lines[n]
    BY <1>6, <2>1
  <2>3. ReadStep[<<acc, line>>] = ReadLine(acc, line)
    BY DEF ReadStep
  <2> QED BY <1>6, <2>2, <2>3
<1>8. ChunkMarkdown(lines) = Flushed(ReadTo(Len(lines)))
  <2>1. PICK acc \in Sectioning : acc = ReadTo(Len(lines))
    <3>1. Len(lines) \in 0..Len(lines)
      BY LenProperties
    <3> QED BY <1>6, <3>1
  <2>2. Flush(acc).chunks = Flushed(acc)
    <3>1. PICK chunks \in Seq(Chunk) : chunks = Flushed(acc)
      BY SectioningIs
    <3>2. Flush(acc) = [acc EXCEPT !.chunks = chunks, !.section = <<>>]
      BY <3>1 DEF Flush, Flushed
    <3> QED BY <3>1, <3>2 DEF Sectioning
  <2>3. ChunkMarkdown(lines) = Flush(TakenIn(ReadStep, Unread, lines)).chunks
    BY Zenon DEF ChunkMarkdown, ReadStep, Unread
  <2> QED BY <1>6, <2>1, <2>2, <2>3, Zenon
<1> QED BY <1>4, <1>6, <1>7, <1>8

\* What each line says, and what the first n do.
LineSaid(n) == IF IsText(n) THEN Said(Here(n), file.lines[n].text) ELSE <<>>
LineSays    == [n \in DOMAIN file.lines |-> LineSaid(n)]
SaidTo(n)   == FlattenSeq(SubSeq(LineSays, 1, n))

\* What the first lines say, line by line.
LEMMA SaidToIs ==
  ASSUME ClearFile
  PROVE  /\ SaidTo(0) = <<>> /\ SaidTo(Len(file.lines)) = LinesSay
         /\ \A n \in 0..Len(file.lines) : SaidTo(n) \in Seq(Spoken)
         /\ \A n \in 1..Len(file.lines) : SaidTo(n) = SaidTo(n - 1) \o LineSaid(n)
<1>1. PICK N \in Nat : N = Len(file.lines) /\ DOMAIN file.lines = 1..N
  BY LenProperties DEF ClearFile
<1>2. ASSUME NEW n \in 1..N PROVE LineSaid(n) \in Seq(Spoken)
  <2>1. n \in 0..N /\ file.lines[n] \in Line
    BY <1>1, ElementOfSeq DEF ClearFile
  <2>2. Here(n) \in Seq(Texts)
    BY <1>1, <2>1, HereIsClear
  <2>3. file.lines[n].text \in Texts
    BY <2>1, LineIs
  <2>4. Said(Here(n), file.lines[n].text) \in Seq(Spoken)
    BY <2>2, <2>3, SaidIs
  <2> QED BY <2>4, EmptySeq DEF LineSaid
<1>3. PICK C : C = Seq(Spoken)
  OBVIOUS
<1>4. PICK each : each = LineSays
  OBVIOUS
<1>5. each \in [1..N -> C] /\ \A n \in 1..N : each[n] = LineSaid(n)
  BY <1>1, <1>2, <1>3, <1>4 DEF LineSays
<1>6. each \in Seq(C) /\ Len(each) = N
  BY <1>5, IsSequence
<1>7. SubSeq(each, 1, 0) = <<>> /\ SubSeq(each, 1, N) = each
  <2>1. SubSeq(each, 1, 0) = <<>>
    BY SubSeqEmpty
  <2> QED BY <1>6, <2>1, SubSeqFull
<1>8. FlattenSeq(<<>>) = <<>>
  BY Flattened
<1>9. LinesSay = FlattenSeq(LineSays)
  BY DEF LinesSay, LineSays, LineSaid, Here
<1>10. ASSUME NEW n \in 1..N PROVE SaidTo(n) = SaidTo(n - 1) \o LineSaid(n)
  <2>1. n \in 1..Len(each) /\ each[n] = LineSaid(n)
    BY <1>5, <1>6
  <2>2. FlattenSeq(SubSeq(each, 1, n)) = FlattenSeq(SubSeq(each, 1, n - 1)) \o each[n]
    BY <1>3, <1>6, <2>1, FlattenOneMore
  <2> QED BY <1>4, <2>1, <2>2, Zenon DEF SaidTo
<1>11. SaidTo(0) = <<>> /\ SaidTo(N) = LinesSay
  BY <1>4, <1>7, <1>8, <1>9, Zenon DEF SaidTo
<1>12. ASSUME NEW n \in 0..N PROVE SaidTo(n) \in Seq(Spoken)
  <2>1. SubSeq(each, 1, n) \in Seq(C)
    BY <1>6, InTwo
  <2>2. FlattenSeq(SubSeq(each, 1, n)) \in Seq(Spoken)
    BY <1>3, <2>1, Flattened
  <2> QED BY <1>4, <2>2 DEF SaidTo
<1> QED BY <1>1, <1>10, <1>11, <1>12

\* The chunks so far and the section they wait for say what the lines so far do.
Kept(acc, n) ==
  ~SectionsRepeat =>
    AllAdd(Read(acc.chunks), <<>>) \o SaidByLines(Here(n), acc.section) = SaidTo(n)

\* The invariant of reading: after n lines the fence and the stack are those of the file, the
\* chunks are in order, and their last one stands behind a heading.
Sound(acc, n) ==
  /\ acc.fence = FenceAt(n) /\ acc.stack = InForceAt(n)
  /\ InOrder(acc.chunks) /\ LastFrom(acc.chunks, n)
  /\ SaidByLines(Here(n), acc.section) = <<>> <=> Pending(n) = {}
  /\ Kept(acc, n)

\* Closing the section, the chunks say it all.
LEMMA FlushSays ==
  ASSUME ClearFile, NEW n \in 0..Len(file.lines), NEW acc \in Sectioning, Sound(acc, n)
  PROVE  /\ SaysMore(Flushed(acc), acc.chunks, Here(n), 0, acc.section)
         /\ ~SectionsRepeat => AllAdd(Read(Flushed(acc)), <<>>) = SaidTo(n)
<1>1. /\ acc.chunks \in Seq(Chunk) /\ acc.section \in Seq(Line)
      /\ InOrder(acc.chunks) /\ LastFrom(acc.chunks, n)
      /\ SaidByLines(Here(n), acc.section) = <<>> <=> Pending(n) = {}
      /\ Kept(acc, n) /\ acc.stack = InForceAt(n)
  BY SectioningIs DEF Sound
<1>2. ClearPath(Here(n)) /\ Here(n) = Path(Titles(InForceAt(n)))
  BY HereIsClear
<1>3. PICK after : after = Flushed(acc)
  OBVIOUS
<1>4. after = Emit(acc.chunks, Here(n), 0, Paragraphs(acc.section))
  BY <1>1, <1>2, <1>3 DEF Flushed
<1>5. SaysMore(Emit(acc.chunks, Here(n), 0, Paragraphs(acc.section)),
               acc.chunks, Here(n), 0, acc.section)
  BY <1>1, <1>2, EmitSays
<1>6. SaysMore(after, acc.chunks, Here(n), 0, acc.section)
  BY <1>4, <1>5, Zenon
<1>7. ASSUME ~SectionsRepeat PROVE AllAdd(Read(after), <<>>) = SaidTo(n)
  <2>1. Fresh(acc.chunks, Here(n), 0) \/ SaidByLines(Here(n), acc.section) = <<>>
    BY <1>1, <1>7, PendingIsFresh
  <2>2. AllAdd(Read(after), <<>>)
          = AllAdd(Read(acc.chunks), <<>>) \o SaidByLines(Here(n), acc.section)
    BY <1>6, <2>1 DEF SaysMore
  <2> QED BY <1>1, <1>7, <2>2 DEF Kept
<1> QED BY <1>3, <1>6, <1>7

\* A line of text keeps the invariant: it goes to the open section.
LEMMA TextIsRead ==
  ASSUME ClearFile, NEW n \in 1..Len(file.lines), IsText(n),
         NEW acc \in Sectioning, Sound(acc, n - 1)
  PROVE  Sound(ReadLine(acc, file.lines[n]), n)
<1>1. PICK m \in 0..Len(file.lines) : m = n - 1
  BY LenProperties DEF ClearFile
<1>2. n \in Nat /\ n >= 1 /\ n \in 0..Len(file.lines)
  BY LenProperties DEF ClearFile
<1>3. PICK line \in Line : line = file.lines[n]
  BY ElementOfSeq DEF ClearFile
<1>4. /\ acc.fence = FenceAt(m) /\ acc.stack = InForceAt(m)
      /\ InOrder(acc.chunks) /\ LastFrom(acc.chunks, m)
      /\ SaidByLines(Here(m), acc.section) = <<>> <=> Pending(m) = {}
      /\ Kept(acc, m)
  BY <1>1 DEF Sound
<1>5. /\ FenceAt(n) = FenceAfter(FenceAt(m), line)
      /\ InFence(n) <=> FenceAt(m) # <<>>
  BY <1>1, <1>3, FenceAtIs DEF ClearFile
<1>6. ~(acc.fence = <<>> /\ line.kind = "heading") /\ ~IsHeading(n)
  BY <1>3, <1>4, <1>5 DEF IsText, IsHeading
<1>7. PICK next \in Sectioning :
        /\ next = ReadLine(acc, line) /\ next.section = Append(acc.section, line)
        /\ next.chunks = acc.chunks /\ next.stack = acc.stack
        /\ next.fence = FenceAfter(acc.fence, line)
  BY <1>6, ReadLineIs
<1>8. InForceAt(n) = InForceAt(m) /\ Here(n) = Here(m) /\ Here(n) \in Seq(Texts)
  BY <1>1, <1>2, <1>6, HereStays, HereIsClear
<1>9. LastFrom(acc.chunks, n)
  BY <1>1, <1>2, <1>4, <1>6, BehindIs DEF LastFrom
<1>10. acc.chunks \in Seq(Chunk) /\ acc.section \in Seq(Line) /\ line.text \in Texts
  BY SectioningIs, LineIs
<1>11. PICK before \in Seq(Spoken), more \in Seq(Spoken) :
         before = SaidByLines(Here(n), acc.section) /\ more = Said(Here(n), line.text)
  BY <1>8, <1>10, SaidByLinesIs, SaidIs
<1>12. SaidByLines(Here(n), next.section) = before \o more
  BY <1>7, <1>8, <1>10, <1>11, SaidByLinesIs
<1>13. more = <<>> <=> ~Telling(n)
  BY <1>3, <1>8, <1>10, <1>11, SaidNothing DEF Telling
<1>14. SaidByLines(Here(n), next.section) = <<>> <=> Pending(n) = {}
  <2>1. before \o more = <<>> <=> before = <<>> /\ more = <<>>
    BY ConcatEqualIffEmpty
  <2>2. before = <<>> <=> Pending(m) = {}
    BY <1>4, <1>8, <1>11
  <2>3. CASE Telling(n)
    <3>1. Pending(n) = Pending(m) \cup {n}
      BY <1>1, <1>2, <1>6, <2>3, PendingIs
    <3>2. Pending(n) # {}
      BY <3>1
    <3> QED BY <1>12, <1>13, <2>1, <2>3, <3>2
  <2>4. CASE ~Telling(n)
    <3>1. Pending(n) = Pending(m)
      BY <1>1, <1>2, <1>6, <2>4, PendingIs
    <3> QED BY <1>12, <1>13, <2>1, <2>2, <2>4, <3>1
  <2> QED BY <2>3, <2>4
<1>15. Kept(next, n)
  <2>1. SUFFICES ASSUME ~SectionsRepeat
                 PROVE  AllAdd(Read(next.chunks), <<>>) \o SaidByLines(Here(n), next.section)
                          = SaidTo(n)
    BY DEF Kept
  <2>2. PICK all \in Seq(Spoken) : all = AllAdd(Read(acc.chunks), <<>>)
    BY <1>10, EmptySeq, ReadIs, AllAddIs
  <2>3. all \o before = SaidTo(m)
    BY <1>4, <1>8, <1>11, <2>1, <2>2 DEF Kept
  <2>4. SaidTo(n) = SaidTo(m) \o more
    BY <1>1, <1>3, <1>11, SaidToIs DEF LineSaid
  <2>5. (all \o before) \o more = all \o (before \o more)
    BY ConcatAssociative
  <2> QED BY <1>7, <1>12, <2>2, <2>3, <2>4, <2>5, Zenon
<1>16. /\ next.fence = FenceAt(n) /\ next.stack = InForceAt(n)
       /\ InOrder(next.chunks) /\ LastFrom(next.chunks, n)
  BY <1>4, <1>5, <1>7, <1>8, <1>9
<1>17. Sound(next, n)
  BY <1>14, <1>15, <1>16 DEF Sound
<1> QED BY <1>3, <1>7, <1>17, Zenon

\* A heading keeps it: its section is closed, fresh or without words.
LEMMA HeadingIsRead ==
  ASSUME ClearFile, NEW n \in 1..Len(file.lines), ~IsText(n),
         NEW acc \in Sectioning, Sound(acc, n - 1)
  PROVE  Sound(ReadLine(acc, file.lines[n]), n)
<1>1. PICK m \in 0..Len(file.lines) : m = n - 1
  BY LenProperties DEF ClearFile
<1>2. n \in Nat /\ n >= 1 /\ n \in 0..Len(file.lines)
  BY LenProperties DEF ClearFile
<1>3. PICK line \in Line : line = file.lines[n]
  BY ElementOfSeq DEF ClearFile
<1>4. /\ acc.fence = FenceAt(m) /\ acc.stack = InForceAt(m)
      /\ InOrder(acc.chunks) /\ LastFrom(acc.chunks, m)
      /\ SaidByLines(Here(m), acc.section) = <<>> <=> Pending(m) = {}
      /\ Kept(acc, m)
  BY <1>1 DEF Sound
<1>5. /\ FenceAt(n) = FenceAfter(FenceAt(m), line)
      /\ InFence(n) <=> FenceAt(m) # <<>>
  BY <1>1, <1>3, FenceAtIs DEF ClearFile
<1>6. /\ acc.fence = <<>> /\ line.kind = "heading"
      /\ IsHeading(n) <=> line.title # <<>>
  BY <1>3, <1>4, <1>5 DEF IsText, IsHeading
<1>7. FenceAt(n) = FenceAt(m)
  <2>1. line.kind # "fence"
    BY <1>6
  <2> QED BY <1>5, <2>1 DEF FenceAfter
<1>8. PICK next \in Sectioning : next = ReadLine(acc, line)
  BY ReadLineIs
<1>9. ~Telling(n)
  BY DEF Telling
<1>10. PICK all \in Seq(Spoken) : all = SaidTo(m) /\ SaidTo(n) = all
  <2>1. LineSaid(n) = <<>>
    BY DEF LineSaid
  <2>2. SaidTo(n) = SaidTo(m) \o <<>>
    BY <1>1, <2>1, SaidToIs
  <2>3. SaidTo(m) \in Seq(Spoken)
    BY SaidToIs
  <2> QED BY <2>2, <2>3, ConcatEmptySeq
<1>11. CASE line.title = <<>>
  <2>1. next = acc /\ ~IsHeading(n)
    BY <1>6, <1>8, <1>11, ReadLineIs
  <2>2. InForceAt(n) = InForceAt(m) /\ Here(n) = Here(m) /\ Pending(n) = Pending(m)
    BY <1>1, <1>2, <1>9, <2>1, HereStays, PendingIs
  <2>3. LastFrom(acc.chunks, n)
    BY <1>1, <1>2, <1>4, <2>1, BehindIs DEF LastFrom
  <2>4. Kept(acc, n)
    BY <1>4, <1>10, <2>2 DEF Kept
  <2>5. Sound(acc, n)
    BY <1>4, <1>7, <2>2, <2>3, <2>4 DEF Sound
  <2> QED BY <1>3, <1>8, <2>1, <2>5, Zenon
<1>12. CASE line.title # <<>>
  <2>1. /\ IsHeading(n) /\ next.section = <<>> /\ next.chunks = Flushed(acc)
        /\ next.stack = Enter(acc.stack, line) /\ next.fence = acc.fence
    BY <1>6, <1>8, <1>12, ReadLineIs
  <2>2. InForceAt(n) = Enter(InForceAt(m), line) /\ Pending(n) = {}
    BY <1>1, <1>2, <1>3, <2>1, HereEnters, PendingIs
  <2>3. /\ SaysMore(next.chunks, acc.chunks, Here(m), 0, acc.section)
        /\ ~SectionsRepeat => AllAdd(Read(next.chunks), <<>>) = SaidTo(m)
    BY <1>1, <2>1, FlushSays
  <2>4. SaidByLines(Here(n), next.section) = <<>>
    <3>1. Here(n) \in Seq(Texts)
      BY <1>2, HereIsClear
    <3> QED BY <2>1, <3>1, SaidByLinesIs
  <2>5. LastFrom(next.chunks, n)
    <3>1. CASE Pending(m) = {}
      <4>1. next.chunks = acc.chunks
        BY <1>4, <2>3, <3>1 DEF SaysMore
      <4> QED BY <1>1, <1>2, <1>4, <2>1, <3>1, <4>1, BehindIs DEF LastFrom
    <3>2. CASE Pending(m) # {}
      <4>1. next.chunks[Len(next.chunks)].path = Here(m)
        BY <1>4, <2>3, <3>2 DEF SaysMore
      <4>2. Behind(Here(m), n)
        BY <1>1, <2>1, <3>2, NowBehind
      <4> QED BY <4>1, <4>2 DEF LastFrom
    <3> QED BY <3>1, <3>2
  <2>6. Kept(next, n)
    <3>1. all \o <<>> = all
      BY ConcatEmptySeq
    <3> QED BY <1>10, <2>3, <2>4, <3>1 DEF Kept
  <2>7. InOrder(next.chunks)
    BY <2>3 DEF SaysMore
  <2>8. Sound(next, n)
    BY <1>4, <1>7, <2>1, <2>2, <2>4, <2>5, <2>6, <2>7 DEF Sound
  <2> QED BY <1>3, <1>8, <2>8, Zenon
<1> QED BY <1>11, <1>12

\* The chunks of Markdown say what its lines do, under the headings they stand under.
LEMMA LinesAreRead ==
  ASSUME ClearFile
  PROVE  /\ InOrder(ChunkMarkdown(file.lines))
         /\ ~SectionsRepeat => AllAdd(Read(ChunkMarkdown(file.lines)), <<>>) = LinesSay
<1>1. PICK N \in Nat : N = Len(file.lines)
  BY LenProperties DEF ClearFile
<1>2. /\ ReadTo(0) = Unread
      /\ \A n \in 0..N : ReadTo(n) \in Sectioning
      /\ \A n \in 1..N : ReadTo(n) = ReadLine(ReadTo(n - 1), file.lines[n])
      /\ ChunkMarkdown(file.lines) = Flushed(ReadTo(N))
  BY <1>1, ReadToIs DEF ClearFile
<1> DEFINE T == {n \in 0..N : Sound(ReadTo(n), n)}
<1>3. 0 \in T
  <2>1. 0 \in 0..N /\ 0 \in 0..Len(file.lines)
    BY <1>1
  <2>2. /\ Unread.fence = <<>> /\ Unread.stack = <<>> /\ Unread.chunks = <<>>
        /\ Unread.section = <<>>
    BY DEF Unread
  <2>3. FenceAt(0) = <<>> /\ InForceAt(0) = <<>> /\ InOrder(<<>>) /\ LastFrom(<<>>, 0)
    BY FenceAtIs, NoneInForce, NoneInOrder DEF ClearFile, LastFrom
  <2>4. SaidByLines(Here(0), <<>>) = <<>> /\ Pending(0) = {}
    <3>1. Here(0) \in Seq(Texts)
      BY <2>1, HereIsClear
    <3>2. Pending(0) = {}
      BY DEF Pending
    <3> QED BY <3>1, <3>2, SaidByLinesIs
  <2>5. Kept(Unread, 0)
    <3>1. AllAdd(Read(<<>>), <<>>) = <<>> /\ SaidTo(0) = <<>>
      BY NoneInOrder, SaidToIs
    <3>2. <<>> \o <<>> = <<>>
      BY EmptySeq, ConcatEmptySeq
    <3> QED BY <2>2, <2>4, <3>1, <3>2 DEF Kept
  <2>6. Sound(Unread, 0)
    BY <2>2, <2>3, <2>4, <2>5 DEF Sound
  <2> QED BY <1>2, <2>1, <2>6
<1>4. ASSUME NEW n \in 1..N, n - 1 \in T PROVE n \in T
  <2>1. n \in 0..N /\ n - 1 \in 0..N /\ n \in 1..Len(file.lines)
    BY <1>1
  <2>2. PICK acc \in Sectioning : acc = ReadTo(n - 1) /\ Sound(acc, n - 1)
    BY <1>2, <1>4, <2>1
  <2>3. Sound(ReadLine(acc, file.lines[n]), n)
    BY <2>1, <2>2, TextIsRead, HeadingIsRead
  <2>4. Sound(ReadTo(n), n)
    BY <1>2, <2>2, <2>3
  <2> QED BY <2>1, <2>4
<1>5. N \in T
  <2> HIDE DEF T
  <2>1. N \in 0..N
    OBVIOUS
  <2> QED BY <1>3, <1>4, <2>1, UpTo
<1>6. PICK acc \in Sectioning : acc = ReadTo(N) /\ Sound(acc, N)
  BY <1>2, <1>5
<1>7. N \in 0..Len(file.lines)
  BY <1>1
<1>8. /\ SaysMore(Flushed(acc), acc.chunks, Here(N), 0, acc.section)
      /\ ~SectionsRepeat => AllAdd(Read(Flushed(acc)), <<>>) = SaidTo(N)
  BY <1>6, <1>7, FlushSays
<1>9. InOrder(Flushed(acc))
  BY <1>8 DEF SaysMore
<1>10. SaidTo(N) = LinesSay
  BY <1>1, SaidToIs
<1> QED BY <1>2, <1>6, <1>8, <1>9, <1>10

-----------------------------------------------------------------------------
(* The file *)

\* The file is of the lines, pages and bookmarks there are.
FileTypeOK ==
  file \in [lines : Seq(Lines), pages : Seq(Pages), outline : Seq(Bookmarks)]

\* The file an author writes or an extractor reads stays one: lines, or pages with bookmarks
\* (the Extraction of documents.py that chunking.py is given).
THEOREM FileIsTyped == ChunkingSpec => []FileTypeOK
<1>1. ChunkingInit => FileTypeOK
  <2>1. <<>> \in Seq(Lines) /\ <<>> \in Seq(Pages) /\ <<>> \in Seq(Bookmarks)
    BY EmptySeq
  <2> QED BY <2>1 DEF ChunkingInit, FileTypeOK
<1>2. ASSUME FileTypeOK, [ChunkingNext]_file PROVE FileTypeOK'
  <2>1. PICK A, B, C : A = Seq(Lines) /\ B = Seq(Pages) /\ C = Seq(Bookmarks)
    OBVIOUS
  <2>2. file \in [lines : A, pages : B, outline : C]
    BY <1>2, <2>1 DEF FileTypeOK
  <2>3. file' \in [lines : A, pages : B, outline : C]
    <3>1. CASE WriteLine
      <4>1. PICK line \in Lines : file' = [file EXCEPT !.lines = Append(@, line)]
        BY <3>1 DEF WriteLine
      <4>2. Append(file.lines, line) \in A
        BY <2>1, <2>2, AppendProperties
      <4> QED BY <2>2, <4>1, <4>2
    <3>2. CASE AddPage
      <4>1. PICK page \in Pages : file' = [file EXCEPT !.pages = Append(@, page)]
        BY <3>2 DEF AddPage
      <4>2. Append(file.pages, page) \in B
        BY <2>1, <2>2, AppendProperties
      <4> QED BY <2>2, <4>1, <4>2
    <3>3. CASE AddBookmark
      <4>1. PICK b \in Bookmarks : file' = [file EXCEPT !.outline = Append(@, b)]
        BY <3>3 DEF AddBookmark
      <4>2. Append(file.outline, b) \in C
        BY <2>1, <2>2, AppendProperties
      <4> QED BY <2>2, <4>1, <4>2
    <3>4. CASE UNCHANGED file
      BY <2>2, <3>4
    <3> QED BY <1>2, <3>1, <3>2, <3>3, <3>4 DEF ChunkingNext
  <2> QED BY <2>1, <2>3 DEF FileTypeOK
<1> QED BY <1>1, <1>2, PTL DEF ChunkingSpec

\* The chunks of a file are in order, and add up to what it says.
LEMMA ChunksAreRead ==
  ASSUME FileTypeOK, TitlesAreClear
  PROVE  /\ InOrder(Chunks)
         /\ file.pages = <<>> /\ ~SectionsRepeat => AllAdd(Read(Chunks), <<>>) = LinesSay
         /\ file.pages # <<>> => AllAdd(Read(Chunks), <<>>) = PagesSay
<1>1. /\ file.lines \in Seq(Lines) /\ file.pages \in Seq(Pages)
      /\ file.outline \in Seq(Bookmarks)
  BY DEF FileTypeOK
<1>2. CASE file.pages = <<>>
  <2>1. file.lines \in Seq(Line)
    <3>1. Lines \subseteq Line
      BY ChunkingAssumption
    <3> QED BY <1>1, <3>1, SeqOfMore
  <2>2. ASSUME NEW i \in 1..Len(file.lines), IsHeading(i) PROVE file.lines[i] \in ClearHeadings
    <3>1. PICK l \in Lines : l = file.lines[i]
      BY <1>1, ElementOfSeq
    <3>2. l \in Line
      BY ChunkingAssumption
    <3>3. l.kind = "heading" /\ l.title # <<>>
      BY <2>2, <3>1 DEF IsHeading
    <3>4. l.title \in ClearTitles
      <4>1. l.title \in Titled /\ Unmarked(l.title)
        BY <3>2, <3>3, LineIs DEF TitlesAreClear
      <4> QED BY <3>3, <4>1 DEF ClearTitles, Heads
    <3> QED BY <3>1, <3>2, <3>3, <3>4 DEF ClearHeadings
  <2>3. ClearFile
    BY <2>1, <2>2 DEF ClearFile
  <2>4. Chunks = ChunkMarkdown(file.lines)
    BY <1>2 DEF Chunks
  <2> QED BY <1>2, <2>3, <2>4, LinesAreRead
<1>3. CASE file.pages # <<>>
  <2>1. PICK C : C = Seq(Line)
    OBVIOUS
  <2>2. Pages \subseteq C
    <3>1. PICK A : A = {l \in Line : l.kind # "heading"}
      OBVIOUS
    <3>2. A \subseteq Line /\ Pages \subseteq Seq(A)
      BY <3>1, ChunkingAssumption
    <3> QED BY <2>1, <3>2, SeqOfMore
  <2>3. PICK pages \in Seq(C) : pages = file.pages
    BY <1>1, <2>2, SeqOfMore
  <2>4. PICK outline \in Seq(Bookmarks) : outline = file.outline
    BY <1>1
  <2>5. /\ InOrder(ChunkPages(pages, outline))
        /\ AllAdd(Read(ChunkPages(pages, outline)), <<>>)
             = FlattenSeq([n \in DOMAIN pages |-> PageSaid(pages, outline, n)])
    BY <2>1, PagesAreRead
  <2>6. Chunks = ChunkPages(pages, outline)
    BY <1>3, <2>3, <2>4 DEF Chunks
  <2>7. PagesSay = FlattenSeq([n \in DOMAIN pages |-> PageSaid(pages, outline, n)])
    BY <2>3, <2>4, Zenon DEF PagesSay, PageSaid, PagePath, PageText
  <2>8. InOrder(Chunks) /\ AllAdd(Read(Chunks), <<>>) = PagesSay
    BY <2>5, <2>6, <2>7, Zenon
  <2> QED BY <1>3, <2>8
<1> QED BY <1>2, <1>3

\* What a file of clear titles says is what is read back from its chunks.
LEMMA ReadBack ==
  ASSUME FileTypeOK, TitlesAreClear
  PROVE  ReadBackIsTheText
<1>1. InOrder(Chunks)
  BY ChunksAreRead
<1>2. PICK passages \in Seq(Passages) :
        /\ passages = Shown(Chunks)
        /\ passages = Read(Chunks)
  <2>1. Chunks \in Seq(Chunk)
    BY <1>1 DEF InOrder
  <2>2. \A i \in DOMAIN Chunks : Chunks[i] \in Chunk
    BY <2>1, LenProperties, ElementOfSeq
  <2>3. [i \in DOMAIN Chunks |-> Passage(Chunks[i])]
          = [i \in DOMAIN Chunks |-> AsPassage[Chunks[i]]]
    BY <2>2 DEF AsPassage
  <2>4. Read(Chunks) \in Seq(Passages)
    BY <2>1, ReadIs
  <2> QED BY <2>3, <2>4, Zenon DEF Read, Mapped, Shown
<1>3. \A i \in DOMAIN passages : Len(passages[i].text) <= Target
  <2>1. Chunks \in Seq(Chunk) /\ \A i \in 1..Len(Chunks) : Len(passages[i].text) <= Target
    BY <1>1, <1>2 DEF InOrder
  <2>2. DOMAIN passages = 1..Len(Chunks)
    <3>1. Len(Read(Chunks)) = Len(Chunks)
      BY <2>1, ReadIs
    <3> QED BY <1>2, <3>1, LenProperties
  <2> QED BY <2>1, <2>2
<1>4. PICK said : said = IF file.pages = <<>> THEN LinesSay ELSE PagesSay
  OBVIOUS
<1>5. ASSUME ~SectionsRepeat, NEW i \in 0..Len(passages)
      PROVE  PassagesSay(JoinPassages(SubSeq(passages, 1, i), <<>>))
               \o PassagesSay(JoinPassages(From(passages, i + 1),
                                           IF i = 0 THEN <<>> ELSE <<passages[i]>>))
               = said
  <2>1. PassagesSay(JoinPassages(SubSeq(passages, 1, i), <<>>))
          \o PassagesSay(JoinPassages(From(passages, i + 1),
                                      IF i = 0 THEN <<>> ELSE <<passages[i]>>))
          = AllAdd(passages, <<>>)
    BY WindowsSay
  <2>2. AllAdd(passages, <<>>) = said
    BY <1>2, <1>4, <1>5, ChunksAreRead
  <2> QED BY <2>1, <2>2, Zenon
<1>6. ReadsBack(passages, said)
  BY <1>3, <1>5, Zenon DEF ReadsBack
<1>7. ReadsBack(Shown(Chunks), IF file.pages = <<>> THEN LinesSay ELSE PagesSay)
  BY <1>2, <1>4, <1>6, Zenon
<1> QED BY <1>7, Zenon DEF ReadBackIsTheText

\* Whatever the file, the sizes and the document's title: what chunk_text and join_passages
\* give a reader of the chunks, whole or in two windows, is what the author wrote, each
\* character once, in order and under its path, where no title repeats the separator's mark.
THEOREM ReadBackIsSafe ==
  ASSUME TitlesAreClear
  PROVE  ChunkingSpec => []ReadBackIsTheText
<1>1. FileTypeOK => ReadBackIsTheText
  BY ReadBack
<1> QED BY <1>1, FileIsTyped, PTL
=============================================================================

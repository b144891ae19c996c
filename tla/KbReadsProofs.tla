--------------------------- MODULE KbReadsProofs ---------------------------
(***************************************************************************)
(* What a caller that reads a whole text page by page ends with, for any   *)
(* documents, contents, passages, readers and page size, whatever the      *)
(* store does between the pages (KbReads, on the theorems of KbStore); and *)
(* what a search in memory compares (KbSearch).                            *)
(***************************************************************************)
EXTENDS KbSearch, KbStoreProofs, NaturalSets

-----------------------------------------------------------------------------
(* Pages.                                                                    *)

\* The first passages of what is left.
FirstOf(R) == {o \in R : Cardinality({q \in R : q < o}) < PageSize}

LEMMA LowerOnesAreFewer ==
  ASSUME NEW R \in SUBSET Nat, NEW o \in R, NEW q \in R, q <= o
  PROVE  /\ IsFiniteSet({x \in R : x < o})
         /\ Cardinality({x \in R : x < q}) \in Nat
         /\ Cardinality({x \in R : x < o}) \in Nat
         /\ Cardinality({x \in R : x < q}) <= Cardinality({x \in R : x < o})
<1>0. q \in Nat /\ o \in Nat /\ \A x \in R : x \in Nat
  OBVIOUS
<1>1. {x \in R : x < o} \subseteq 0..o /\ {x \in R : x < q} \subseteq {x \in R : x < o}
  <2>1. ASSUME NEW x \in R, x < o PROVE x \in 0..o
    BY <1>0, <2>1
  <2>2. ASSUME NEW x \in R, x < q PROVE x < o
    BY <1>0, <2>2
  <2> QED
    BY <2>1, <2>2
<1>2. IsFiniteSet(0..o)
  BY FS_Interval
<1>3. IsFiniteSet({x \in R : x < o})
  BY <1>1, <1>2, FS_Subset
<1> QED
  BY <1>1, <1>3, FS_Subset, FS_CardinalityType

\* A page that leaves something out ends at a passage, and holds what is up to it.
LEMMA PagesEnd ==
  ASSUME NEW R \in SUBSET Nat, FirstOf(R) # R
  PROVE  /\ Last(FirstOf(R)) \in R
         /\ FirstOf(R) = {o \in R : o <= Last(FirstOf(R))}
<1>1. ASSUME NEW o \in FirstOf(R), NEW q \in R, q <= o
      PROVE  q \in FirstOf(R)
  <2>1. Cardinality({x \in R : x < o}) < PageSize /\ o \in R /\ PageSize \in Nat
    BY ReadsAssumption DEF FirstOf
  <2>2. Cardinality({x \in R : x < q}) < PageSize
    BY <1>1, <2>1, LowerOnesAreFewer
  <2> QED
    BY <2>2 DEF FirstOf
<1>2. FirstOf(R) \subseteq R
  BY DEF FirstOf
<1>3. PICK b \in R : b \notin FirstOf(R)
  BY <1>2
<1>4. FirstOf(R) # {}
  <2>1. PICK a \in R : \A x \in R : a <= x
    BY <1>3, LeastOf
  <2>2. {x \in R : x < a} = {}
    <3>1. ASSUME NEW x \in R, x < a PROVE FALSE
      <4>1. a \in Nat /\ x \in Nat /\ a <= x
        BY <2>1
      <4> QED
        BY <3>1, <4>1
    <3> QED
      BY <3>1
  <2>3. Cardinality({x \in R : x < a}) < PageSize
    BY <2>2, FS_EmptySet, ReadsAssumption
  <2> QED
    BY <2>3 DEF FirstOf
<1>5. IsFiniteSet(FirstOf(R))
  <2>1. FirstOf(R) \subseteq 0..b
    <3> SUFFICES ASSUME NEW o \in FirstOf(R) PROVE o \in 0..b
      OBVIOUS
    <3>1. o \in Nat /\ b \in Nat /\ ~(b <= o)
      BY <1>1, <1>2, <1>3
    <3> QED
      BY <3>1
  <2> QED
    <3>1. IsFiniteSet(0..b)
      BY <1>3, FS_Interval
    <3> QED
      BY <2>1, <3>1, FS_Subset
<1>6. \E x \in FirstOf(R) : \A y \in FirstOf(R) : y <= x
  BY <1>2, <1>4, <1>5, GreatestOf
<1>7. /\ Last(FirstOf(R)) \in FirstOf(R)
      /\ \A y \in FirstOf(R) : y <= Last(FirstOf(R))
  BY <1>6 DEF Last
<1> HIDE DEF FirstOf
<1> QED
  BY <1>1, <1>2, <1>7

-----------------------------------------------------------------------------
(* What is behind a walk.                                                    *)

\* A row is of something that was uploaded.
RowsHaveContent ==
  \A d \in Docs : \A n \in NumbersOf(d) : versions[d][n].content \in Contents

\* The version is served, and the walk has its text up to the last passage.
Reading(w) ==
  /\ versions[w.source.doc][w.source.version].state = "ready"
  /\ w.text = TextOf(w.source)
  /\ w.got = {ContentOf(w.source)} \X {o \in OrdinalsOf(w.source) : o <= w.after}

\* There will be no row of that number again: the document is gone, or has a later row.
Superseded(d, n) ==
  \/ docs[d].state = "gone"
  \/ versions[d][n].state = "none" /\ \E m \in NumbersOf(d) : n < m

\* Of a text that is being read either goes on or will not be answered from again; without
\* the second, a number that were given twice would splice two texts.
WalkStands(w) ==
  /\ w.doing = "paging" /\ ~w.source.draft =>
       Reading(w) \/ Superseded(w.source.doc, w.source.version)
  /\ w.doing = "whole" => w.got = w.text

ReadsInv ==
  /\ ReadsTypeOK
  /\ RowsHaveContent
  /\ \A r \in Readers : WalkStands(readers[r])

\* The newest of the rows there are.
LEMMA NewestIs ==
  ASSUME NEW d \in Docs, NEW n \in NumbersOf(d)
  PROVE  \E m \in NumbersOf(d) : IsNewest(d, m) /\ n <= m
<1>1. NumbersOf(d) \subseteq Nat /\ NumbersOf(d) \subseteq 1..MaxVersion
  BY DEF NumbersOf, Numbers
<1>2. IsFiniteSet(1..MaxVersion)
  BY FS_Interval, BoundsAssumption
<1>3. IsFiniteSet(NumbersOf(d)) /\ NumbersOf(d) # {}
  BY <1>1, <1>2, FS_Subset
<1>4. PICK m \in NumbersOf(d) : \A k \in NumbersOf(d) : k <= m
  BY <1>1, <1>3, GreatestOf
<1> QED
  BY <1>4 DEF IsNewest

\* A later row stays, itself or another, while the document does.
LEMMA LaterRowStays ==
  ASSUME TypeOK, AllAgree, Next, NEW d \in Docs, NEW n \in Numbers, NEW m \in NumbersOf(d),
         n < m, docs'[d].state = "live"
  PROVE  \E k \in NumbersOf(d)' : n < k
<1>1. PICK k \in NumbersOf(d) : IsNewest(d, k) /\ m <= k
  BY NewestIs
<1>2. k \in Numbers /\ versions'[d][k].state # "none"
  BY <1>1, NewestStays DEF NumbersOf
<1>3. n < k
  BY <1>1 DEF NumbersOf, Numbers
<1> QED
  BY <1>2, <1>3 DEF NumbersOf

LEMMA SupersededStays ==
  ASSUME TypeOK, AllAgree, Next, NEW d \in Docs, NEW n \in Numbers, Superseded(d, n)
  PROVE  Superseded(d, n)'
<1>1. CASE docs[d].state = "gone"
  BY <1>1, DocumentsEnd DEF Superseded
<1>2. ASSUME versions[d][n].state = "none", NEW m \in NumbersOf(d), n < m
      PROVE  Superseded(d, n)'
  <2>1. Live(d)
    BY <1>2 DEF AllAgree, Agree, NumbersOf
  <2>2. docs'[d].state \in {"live", "gone"}
    BY <2>1, DocumentsEnd
  <2>3. CASE docs'[d].state = "gone"
    BY <2>3 DEF Superseded
  <2>4. CASE docs'[d].state = "live"
    <3>1. \E k \in NumbersOf(d)' : n < k
      BY <1>2, <2>4, LaterRowStays
    <3>2. versions'[d][n].state = "none"
      <4>1. SUFFICES ASSUME versions'[d][n].state # "none" PROVE FALSE
        OBVIOUS
      <4>2. m < n
        BY <1>2, <4>1, RowsAreBornAbove DEF Born
      <4> QED
        BY <1>2, <4>2 DEF NumbersOf, Numbers
    <3> QED
      BY <3>1, <3>2 DEF Superseded
  <2> QED
    BY <2>2, <2>3, <2>4
<1> QED
  BY <1>1, <1>2 DEF Superseded

\* A served version is what it was, or its number is done with.
LEMMA ServedOrSuperseded ==
  ASSUME TypeOK, AllAgree, Next, NEW d \in Docs, NEW n \in Numbers,
         versions[d][n].state = "ready"
  PROVE  \/ versions'[d][n] = versions[d][n] /\ chunks'[d][n] = chunks[d][n]
         \/ Superseded(d, n)'
<1>1. CASE versions'[d][n].state # "none"
  BY <1>1, ReadyStands
<1>2. CASE versions'[d][n].state = "none"
  <2>1. n \in NumbersOf(d) /\ Live(d)
    BY DEF NumbersOf, AllAgree, Agree
  <2>2. docs'[d].state \in {"live", "gone"}
    BY <2>1, DocumentsEnd
  <2>3. CASE docs'[d].state = "gone"
    BY <2>3 DEF Superseded
  <2>4. CASE docs'[d].state = "live"
    <3>1. PICK m \in NumbersOf(d) : IsNewest(d, m) /\ n <= m
      BY <2>1, NewestIs
    <3>2. m # n
      BY <1>2, <2>4, <3>1, NewestStays
    <3>3. n < m
      BY <2>1, <3>1, <3>2 DEF NumbersOf, Numbers
    <3>4. \E k \in NumbersOf(d)' : n < k
      BY <2>4, <3>3, LaterRowStays
    <3> QED
      BY <1>2, <3>4 DEF Superseded
  <2> QED
    BY <2>2, <2>3, <2>4
<1> QED
  BY <1>1, <1>2

-----------------------------------------------------------------------------
(* The store's steps.                                                        *)

LEMMA RowsHaveContentStep ==
  ASSUME TypeOK, AllAgree, RowsHaveContent, Next
  PROVE  RowsHaveContent'
<1> SUFFICES ASSUME NEW d \in Docs, NEW n \in Numbers, versions'[d][n].state # "none"
             PROVE  versions'[d][n].content \in Contents
  BY DEF RowsHaveContent, NumbersOf
<1>1. CASE versions[d][n].state = "none"
  BY <1>1, RowsAreBornAbove DEF Born
<1>2. CASE versions[d][n].state # "none"
  BY <1>2, ContentStays DEF RowsHaveContent, NumbersOf
<1> QED
  BY <1>1, <1>2

LEMMA StoreStepStands ==
  ASSUME TypeOK, AllAgree, Next, NEW w \in Walk, WalkStands(w)
  PROVE  WalkStands(w)'
<1>1. CASE w.doing = "paging" /\ ~w.source.draft
  <2> DEFINE d == w.source.doc
             n == w.source.version
  <2>1. d \in Docs /\ n \in Numbers
    BY DEF Walk, Source
  <2>2. CASE Superseded(d, n)
    <3>1. Superseded(d, n)'
      BY <2>1, <2>2, SupersededStays
    <3> QED
      BY <1>1, <3>1 DEF WalkStands
  <2>3. CASE Reading(w)
    <3>1. CASE Superseded(d, n)'
      BY <1>1, <3>1 DEF WalkStands
    <3>2. CASE versions'[d][n] = versions[d][n] /\ chunks'[d][n] = chunks[d][n]
      <4>1. Reading(w)'
        BY <1>1, <2>3, <3>2 DEF Reading, TextOf, ContentOf, OrdinalsOf
      <4> QED
        BY <1>1, <4>1 DEF WalkStands
    <3>3. versions[d][n].state = "ready"
      BY <2>3 DEF Reading
    <3> HIDE DEF d, n
    <3> QED
      BY <2>1, <3>1, <3>2, <3>3, ServedOrSuperseded
  <2> QED
    BY <1>1, <2>2, <2>3 DEF WalkStands
<1>2. CASE ~(w.doing = "paging" /\ ~w.source.draft)
  BY <1>2 DEF WalkStands
<1> QED
  BY <1>1, <1>2

-----------------------------------------------------------------------------
(* The readers' steps.                                                       *)

\* What an answer is from has a row, and a served one is ready.
LEMMA SourcesAreRows ==
  ASSUME TypeOK, AllAgree, NEW s,
         \/ \E d \in Docs, p \in Profiles : s \in ServedSource(d, p)
         \/ \E d \in Docs, n \in Numbers : s \in VersionSource(d, n)
  PROVE  /\ s \in Source
         /\ Live(s.doc)
         /\ s.version \in NumbersOf(s.doc)
         /\ ~s.draft => versions[s.doc][s.version].state = "ready"
<1>1. ASSUME NEW d \in Docs, NEW p \in Profiles, s \in ServedSource(d, p)
      PROVE  /\ s \in Source
             /\ Live(s.doc)
             /\ versions[s.doc][s.version].state = "ready"
  <2>1. s = [doc |-> d, version |-> docs[d].active, draft |-> FALSE] /\ ServedTo(d, p)
    BY <1>1 DEF ServedSource
  <2>2. docs[d].active \in Numbers
    BY <2>1, BoundsAssumption DEF TypeOK, DocRow, ServedTo, Served, Numbers
  <2> QED
    BY <2>1, <2>2 DEF Source, ServedTo, Served
<1>2. ASSUME NEW d \in Docs, NEW n \in Numbers, s \in VersionSource(d, n)
      PROVE  /\ s \in Source
             /\ Live(s.doc)
             /\ versions[s.doc][s.version].state \in {"ready", "awaiting_confirmation"}
             /\ ~s.draft => versions[s.doc][s.version].state = "ready"
  <2>1. s \in [doc : {d}, version : {n}, draft : BOOLEAN]
    BY <1>2 DEF VersionSource
  <2>2. s \in Source /\ s.doc = d /\ s.version = n /\ s.draft \in BOOLEAN
    BY <2>1 DEF Source
  <2>3. /\ Live(d)
        /\ IF s.draft THEN Awaiting(d, n) ELSE versions[d][n].state = "ready"
    BY <1>2 DEF VersionSource
  <2> QED
    BY <2>2, <2>3 DEF Awaiting
<1> QED
  BY <1>1, <1>2 DEF NumbersOf, Source

\* One more answer to a walk whose source still is one.
LEMMA WalkedStands ==
  ASSUME TypeOK, RowsHaveContent,
         NEW w \in Walk, w.doing = "paging",
         w.source.version \in NumbersOf(w.source.doc),
         ~w.source.draft => Reading(w)
  PROVE  Walked(w) \in {Idle} \cup Walk /\ WalkStands(Walked(w))
<1> DEFINE s == w.source
           c == ContentOf(s)
           all == OrdinalsOf(s)
           rest == {o \in all : o > w.after}
           kept == FirstOf(rest)
           got == w.got \cup ({c} \X kept)
           further == [w EXCEPT !.after = Last(kept), !.got = got]
           done == [w EXCEPT !.doing = "whole", !.got = got]
<1>1. /\ s \in Source /\ s.doc \in Docs /\ s.version \in Numbers /\ s.draft \in BOOLEAN
      /\ w.after \in Ordinals \cup {-1} /\ w.got \in SUBSET Passages
      /\ w.text \in SUBSET Passages
  BY DEF Walk, Source
<1>2. c \in Contents
  BY <1>1 DEF RowsHaveContent, ContentOf
<1>3. all \in SUBSET Ordinals /\ all \in SUBSET Nat
  <2>1. drafts[s.doc][s.version] \in SUBSET Ordinals
        /\ chunks[s.doc][s.version] \in SUBSET Ordinals
    BY <1>1 DEF TypeOK
  <2> QED
    BY <2>1, ReadsAssumption DEF OrdinalsOf
<1>4. w.after \in Int /\ \A o \in all : o \in Int
  BY <1>1, <1>3, ReadsAssumption
<1>5. rest \in SUBSET Nat /\ rest \subseteq all /\ kept \subseteq rest
  BY <1>3 DEF FirstOf
<1>6. got \in SUBSET Passages
  BY <1>1, <1>2, <1>3, <1>5 DEF Passages
<1>7. Walked(w) = IF kept # rest THEN further
                  ELSE IF s.draft THEN Idle ELSE done
  BY DEF Walked, PageOf, FirstOf
<1>8. CASE kept # rest
  <2>1. Last(kept) \in rest /\ kept = {o \in rest : o <= Last(kept)}
    BY <1>5, <1>8, PagesEnd
  <2>2. further \in Walk /\ further.doing = "paging" /\ further.source = s
        /\ further.after = Last(kept) /\ further.got = got /\ further.text = w.text
    <3>1. Last(kept) \in Ordinals
      BY <1>3, <1>5, <2>1
    <3> HIDE DEF kept, got
    <3> QED
      BY <1>6, <3>1 DEF Walk
  <2>3. ASSUME ~s.draft PROVE Reading(further)
    <3>1. /\ versions[s.doc][s.version].state = "ready" /\ w.text = TextOf(s)
          /\ w.got = {c} \X {o \in all : o <= w.after}
      BY <2>3 DEF Reading
    <3>2. {o \in all : o <= Last(kept)} = {o \in all : o <= w.after} \cup kept
      <4> DEFINE l == Last(kept)
      <4>1. l \in Int /\ l > w.after
        BY <1>4, <2>1
      <4>2. kept = {o \in rest : o <= l}
        BY <2>1
      <4> HIDE DEF l, kept
      <4>3. {o \in all : o <= l} = {o \in all : o <= w.after} \cup {o \in rest : o <= l}
        <5> HIDE DEF all
        <5> QED BY <1>4, <4>1
      <4>4. {o \in all : o <= l} = {o \in all : o <= w.after} \cup kept
        BY <4>2, <4>3
      <4> QED
        BY <4>4 DEF l
    <3>3. got = {c} \X {o \in all : o <= Last(kept)}
      <4> HIDE DEF kept, c, all
      <4> QED BY <3>1, <3>2
    <3> HIDE DEF further, got, kept
    <3> QED
      BY <2>2, <3>1, <3>3 DEF Reading
  <2>4. Walked(w) = further
    BY <1>7, <1>8
  <2> HIDE DEF further, got, kept
  <2> QED
    BY <2>2, <2>3, <2>4 DEF WalkStands
<1>9. CASE kept = rest /\ s.draft
  <2>1. Walked(w) = Idle
    BY <1>7, <1>9
  <2> QED
    BY <2>1 DEF WalkStands, Idle
<1>10. CASE kept = rest /\ ~s.draft
  <2>1. Walked(w) = done
    BY <1>7, <1>10
  <2>2. done \in Walk /\ done.doing = "whole" /\ done.got = got /\ done.text = w.text
    <3> HIDE DEF kept, got
    <3> QED
      BY <1>6 DEF Walk
  <2>3. w.text = {c} \X all /\ w.got = {c} \X {o \in all : o <= w.after}
    BY <1>10 DEF Reading, TextOf
  <2>4. all = {o \in all : o <= w.after} \cup kept
    <3>1. all = {o \in all : o <= w.after} \cup rest
      <4> HIDE DEF all
      <4> QED BY <1>4
    <3> QED
      BY <1>10, <3>1
  <2>5. got = w.text
    <3> HIDE DEF kept, c, all
    <3> QED BY <2>3, <2>4
  <2> HIDE DEF done, got
  <2> QED
    BY <2>1, <2>2, <2>5 DEF WalkStands
<1> QED
  BY <1>8, <1>9, <1>10, <1>1

LEMMA BeginStands ==
  ASSUME TypeOK, AllAgree, RowsHaveContent, NEW s,
         \/ \E d \in Docs, p \in Profiles : s \in ServedSource(d, p)
         \/ \E d \in Docs, n \in Numbers : s \in VersionSource(d, n)
  PROVE  LET w == [doing |-> "paging", source |-> s, after |-> -1, got |-> {},
                   text |-> IF s.draft THEN {} ELSE TextOf(s)]
         IN  Walked(w) \in {Idle} \cup Walk /\ WalkStands(Walked(w))
<1> DEFINE w == [doing |-> "paging", source |-> s, after |-> -1, got |-> {},
                 text |-> IF s.draft THEN {} ELSE TextOf(s)]
<1>1. /\ s \in Source /\ s.version \in NumbersOf(s.doc)
      /\ ~s.draft => versions[s.doc][s.version].state = "ready"
  BY SourcesAreRows
<1>2. TextOf(s) \in SUBSET Passages
  <2>1. s.doc \in Docs /\ s.version \in Numbers
    BY <1>1 DEF Source
  <2>2. ContentOf(s) \in Contents
    BY <1>1, <2>1 DEF RowsHaveContent, ContentOf
  <2>3. OrdinalsOf(s) \in SUBSET Ordinals
    BY <2>1 DEF OrdinalsOf, TypeOK
  <2> QED
    BY <2>2, <2>3 DEF TextOf, Passages
<1>3. w \in Walk /\ w.doing = "paging" /\ w.source = s
  BY <1>1, <1>2 DEF Walk
<1>4. ASSUME ~s.draft PROVE Reading(w)
  <2>1. \A o \in OrdinalsOf(s) : o \in Nat
    BY <1>1, <1>4, ReadsAssumption DEF OrdinalsOf, TypeOK, Source
  <2>2. {o \in OrdinalsOf(s) : o <= -1} = {}
    BY <2>1
  <2> QED
    BY <1>1, <1>4, <2>2 DEF Reading
<1> HIDE DEF w
<1>5. Walked(w) \in {Idle} \cup Walk /\ WalkStands(Walked(w))
  BY <1>1, <1>3, <1>4, WalkedStands
<1> QED
  BY <1>5 DEF w

LEMMA ContinueStands ==
  ASSUME TypeOK, AllAgree, RowsHaveContent, NEW w \in Walk, WalkStands(w), w.doing = "paging",
         \/ \E d \in Docs, p \in Profiles : w.source \in ServedSource(d, p)
         \/ \E d \in Docs, n \in Numbers : w.source \in VersionSource(d, n)
  PROVE  Walked(w) \in {Idle} \cup Walk /\ WalkStands(Walked(w))
<1>1. /\ Live(w.source.doc) /\ w.source.version \in NumbersOf(w.source.doc)
      /\ ~w.source.draft => versions[w.source.doc][w.source.version].state = "ready"
  BY SourcesAreRows
<1>2. ~w.source.draft => ~Superseded(w.source.doc, w.source.version)
  BY <1>1 DEF Superseded, Live
<1>3. ~w.source.draft => Reading(w)
  BY <1>2 DEF WalkStands
<1> QED
  BY <1>1, <1>3, WalkedStands

LEMMA ReadsStand ==
  ASSUME TypeOK, AllAgree, RowsHaveContent, Reads,
         readers \in [Readers -> {Idle} \cup Walk],
         \A r \in Readers : WalkStands(readers[r])
  PROVE  /\ readers' \in [Readers -> {Idle} \cup Walk]
         /\ \A r \in Readers : WalkStands(readers'[r])
<1> DEFINE Good(w) == w \in {Idle} \cup Walk /\ WalkStands(w)
<1>1. PICK r \in Readers : \/ \E p \in Profiles : ReadServed(r, p)
                          \/ VersionText(r)
  BY DEF Reads
<1>2. SUFFICES \E w : Good(w) /\ readers' = [readers EXCEPT ![r] = w]
  <2> SUFFICES ASSUME NEW w, Good(w), readers' = [readers EXCEPT ![r] = w]
               PROVE  /\ readers' \in [Readers -> {Idle} \cup Walk]
                      /\ \A q \in Readers : WalkStands(readers'[q])
    BY <1>2
  <2> QED
    OBVIOUS
<1>3. Good(Idle)
  BY DEF WalkStands, Idle
<1>4. ASSUME NEW sources, BeginWalk(r, sources),
             \/ \E d \in Docs, p \in Profiles : sources = ServedSource(d, p)
             \/ \E d \in Docs, n \in Numbers : sources = VersionSource(d, n)
      PROVE  \E w : Good(w) /\ readers' = [readers EXCEPT ![r] = w]
  <2>1. PICK s \in sources :
          readers' = [readers EXCEPT ![r] =
             Walked([doing |-> "paging", source |-> s, after |-> -1, got |-> {},
                     text |-> IF s.draft THEN {} ELSE TextOf(s)])]
    BY <1>4 DEF BeginWalk
  <2>2. Good(Walked([doing |-> "paging", source |-> s, after |-> -1, got |-> {},
                     text |-> IF s.draft THEN {} ELSE TextOf(s)]))
    BY <1>4, BeginStands
  <2> HIDE DEF Good
  <2> QED
    BY <2>1, <2>2
<1>5. ASSUME NEW sources, ContinueWalk(r, sources),
             readers[r].doing = "paging" => readers[r].source.doc \in Docs
                                            /\ readers[r].source.version \in Numbers,
             \/ \E p \in Profiles : sources = ServedSource(readers[r].source.doc, p)
             \/ sources = VersionSource(readers[r].source.doc, readers[r].source.version)
      PROVE  \E w : Good(w) /\ readers' = [readers EXCEPT ![r] = w]
  <2>1. readers[r].doing = "paging" /\ readers[r] \in Walk
    BY <1>5 DEF ContinueWalk, Idle
  <2>2. readers' = [readers EXCEPT ![r] =
          IF readers[r].source \in sources THEN Walked(readers[r]) ELSE Idle]
    BY <1>5 DEF ContinueWalk
  <2>3. ASSUME readers[r].source \in sources PROVE Good(Walked(readers[r]))
    BY <1>5, <2>1, <2>3, ContinueStands
  <2> HIDE DEF Good
  <2> QED
    BY <1>3, <2>2, <2>3
<1>6. readers[r].doing = "paging" => readers[r].source.doc \in Docs
                                     /\ readers[r].source.version \in Numbers
  BY DEF Idle, Walk, Source
<1> HIDE DEF Good
<1> QED
  BY <1>1, <1>4, <1>5, <1>6 DEF ReadServed, VersionText

-----------------------------------------------------------------------------
(* The theorems.                                                             *)

\* Readers change nothing of the store: every step is one of the store's, or leaves it alone.
THEOREM ReadsImplementStore == ReadsSpec => Spec
<1>1. ReadsInit => Init
  BY DEF ReadsInit
<1>2. [ReadsNext]_readsVars => [Next]_storeVars
  BY DEF ReadsNext, readsVars, storeVars, SetProfiles, Reads
<1> QED
  BY <1>1, <1>2, PTL DEF ReadsSpec, Spec

\* Hence the tables agree under any readers, and the store's steps are as they were.
THEOREM ReadsKeepStore ==
  ReadsSpec => /\ []StoreInv
               /\ ServedIsImmutable
               /\ NumbersAreNotReused
               /\ AnswersMoveForward
               /\ RemovalsAreRecorded
BY ReadsImplementStore, StoreInvariant, ServedImmutable, NumbersNotReused, AnswersForward,
   RemovalsRecorded

LEMMA ReadsInvInit == ReadsInit => ReadsInv
<1> SUFFICES ASSUME ReadsInit PROVE ReadsInv
  OBVIOUS
<1>1. TypeOK
  BY TypeCorrectStart DEF ReadsInit
<1>2. RowsHaveContent
  BY NoVersionIsRow DEF ReadsInit, Init, RowsHaveContent, NumbersOf
<1>3. \A r \in Readers : readers[r] = Idle
  BY DEF ReadsInit
<1>4. WalkStands(Idle)
  BY DEF WalkStands, Idle
<1> QED
  BY <1>1, <1>2, <1>3, <1>4 DEF ReadsInv, ReadsTypeOK, ReadsInit

LEMMA ReadsInvStep ==
  ASSUME ReadsInv, AllAgree, [ReadsNext]_readsVars
  PROVE  ReadsInv'
<1>0. /\ TypeOK /\ RowsHaveContent
      /\ profiles \in [Docs -> SUBSET Profiles]
      /\ readers \in [Readers -> {Idle} \cup Walk]
      /\ \A r \in Readers : WalkStands(readers[r])
  BY DEF ReadsInv, ReadsTypeOK
<1>1. CASE Next /\ UNCHANGED <<profiles, readers>>
  <2>1. TypeOK'
    BY <1>0, <1>1, HostType, IngestCallType DEF Next
  <2>2. RowsHaveContent'
    BY <1>0, <1>1, RowsHaveContentStep
  <2>3. ASSUME NEW r \in Readers PROVE WalkStands(readers[r])'
    <3>1. CASE readers[r] = Idle
      BY <1>1, <3>1 DEF WalkStands, Idle
    <3>2. CASE readers[r] \in Walk
      <4>1. PICK w \in Walk : w = readers[r]
        BY <3>2
      <4>2. WalkStands(w)'
        BY <1>0, <1>1, <4>1, StoreStepStands
      <4>3. readers'[r] = w
        BY <1>1, <4>1
      <4> QED
        BY <4>2, <4>3 DEF WalkStands, Reading, TextOf, ContentOf, OrdinalsOf, Superseded,
           NumbersOf
    <3> QED
      BY <1>0, <3>1, <3>2
  <2> QED
    BY <1>0, <1>1, <2>1, <2>2, <2>3 DEF ReadsInv, ReadsTypeOK
<1>2. ASSUME UNCHANGED storeVars
      PROVE  /\ TypeOK' /\ RowsHaveContent'
             /\ \A w : WalkStands(w)' <=> WalkStands(w)
  BY <1>0, <1>2 DEF storeVars, TypeOK, RowsHaveContent, NumbersOf, WalkStands, Reading,
     TextOf, ContentOf, OrdinalsOf, Superseded
<1>3. ASSUME NEW d \in Docs, SetProfiles(d)
      PROVE  ReadsInv'
  <2>1. profiles' \in [Docs -> SUBSET Profiles]
    BY <1>0, <1>3 DEF SetProfiles
  <2>2. UNCHANGED storeVars /\ readers' = readers
    BY <1>3 DEF SetProfiles
  <2> QED
    BY <1>0, <1>2, <2>1, <2>2 DEF ReadsInv, ReadsTypeOK
<1>4. CASE Reads
  <2>1. UNCHANGED storeVars /\ profiles' = profiles
    BY <1>4 DEF Reads
  <2>2. /\ readers' \in [Readers -> {Idle} \cup Walk]
        /\ \A r \in Readers : WalkStands(readers'[r])
    BY <1>0, <1>4, ReadsStand
  <2> QED
    BY <1>0, <1>2, <2>1, <2>2 DEF ReadsInv, ReadsTypeOK
<1>5. CASE UNCHANGED readsVars
  <2>1. UNCHANGED storeVars /\ profiles' = profiles /\ readers' = readers
    BY <1>5 DEF readsVars, storeVars
  <2> QED
    BY <1>0, <1>2, <2>1 DEF ReadsInv, ReadsTypeOK
<1> QED
  BY <1>1, <1>3, <1>4, <1>5 DEF ReadsNext

\* What is behind every walk, in every state: its text goes on as it was, or its number is
\* done with.
THEOREM ReadsInvariant == ReadsSpec => []ReadsInv
<1>1. StoreInv /\ ReadsInv /\ [ReadsNext]_readsVars => ReadsInv'
  BY StoreInvIsAllAgree, ReadsInvStep
<1> QED
  BY <1>1, ReadsInvInit, ReadsKeepStore, PTL DEF ReadsSpec

\* Profiles and walks have their types: what an answer names is a document's version, and
\* what it holds are passages of an uploaded content.
THEOREM ReadsTypeCorrect == ReadsSpec => []ReadsTypeOK
<1>1. ReadsInv => ReadsTypeOK
  BY DEF ReadsInv
<1> QED
  BY <1>1, ReadsInvariant, PTL

\* A caller that reads a served text page by page, and keeps to the version its first answer
\* named, ends with the whole text of that version as it was then (read_served, version_text).
THEOREM WalksRead == ReadsSpec => []WalksReadOneText
<1>1. ReadsInv => WalksReadOneText
  BY DEF ReadsInv, WalkStands, WalksReadOneText
<1> QED
  BY <1>1, ReadsInvariant, PTL

-----------------------------------------------------------------------------
(* A search in memory.                                                       *)

\* No search is under way between two steps, and what was found kept to its model.
FoundInOneSpace(q) ==
  q.doing \in {"idle", "found"} /\ (q.doing = "found" => q.spaces \subseteq {q.model})

SearchInv == \E Q : queries \in [Readers -> Q] /\ \A r \in Readers : FoundInOneSpace(queries[r])

\* The vector is compared with passages of its own model, or not at all.
LEMMA FoundIsInOneSpace ==
  ASSUME NEW p, NEW m, NEW hits \in Hits(p, UsesVector(p, m))
  PROVE  FoundInOneSpace(Found(m, UsesVector(p, m), hits))
<1> DEFINE q == Found(m, UsesVector(p, m), hits)
<1>1. /\ q.doing = "found" /\ q.model = m
      /\ q.spaces = IF UsesVector(p, m) THEN {ModelOf[h[1]] : h \in hits} ELSE {}
  BY DEF Found
<1>2. ASSUME UsesVector(p, m), NEW h \in hits PROVE ModelOf[h[1]] = m
  <2>1. h \in UNION {TextOf(s) : s \in ServedSources(p)}
    BY <1>2 DEF Hits
  <2>2. PICK s \in ServedSources(p) : h \in TextOf(s)
    BY <2>1
  <2>3. h[1] = ContentOf(s)
    BY <2>2 DEF TextOf
  <2> QED BY <1>2, <2>2, <2>3 DEF UsesVector
<1> HIDE DEF q
<1>3. q.spaces \subseteq {m}
  BY <1>1, <1>2
<1> QED BY <1>1, <1>3 DEF FoundInOneSpace, q

\* In memory nothing comes between the choice of the vector and the passages that it is
\* compared with (in_memory.py, search): a vector meets passages of its own model only.
THEOREM SearchesKeepToOneSpace ==
  ASSUME InMemory
  PROVE  SearchSpec => []OneVectorSpace
<1>1. SearchInit => SearchInv
  <2> SUFFICES ASSUME SearchInit PROVE SearchInv
    OBVIOUS
  <2>1. queries \in [Readers -> {NoQuery}]
    BY DEF SearchInit
  <2>2. FoundInOneSpace(NoQuery)
    BY DEF FoundInOneSpace, NoQuery
  <2>3. \A r \in Readers : FoundInOneSpace(queries[r])
    BY <2>1, <2>2
  <2> QED BY <2>1, <2>3 DEF SearchInv
<1>2. SearchInv /\ [SearchNext]_searchVars => SearchInv'
  <2> SUFFICES ASSUME SearchInv, [SearchNext]_searchVars PROVE SearchInv'
    OBVIOUS
  <2>1. PICK Q : queries \in [Readers -> Q] /\ \A r \in Readers : FoundInOneSpace(queries[r])
    BY DEF SearchInv
  <2>2. CASE queries' = queries
    BY <2>1, <2>2 DEF SearchInv
  <2>3. CASE Search
    <3>1. PICK r \in Readers :
            \/ \E p \in Profiles, m \in Models : SearchAtOnce(r, p, m)
            \/ SearchPassages(r)
      BY <2>3 DEF Search, SearchModels
    <3>2. ~SearchPassages(r)
      BY <2>1 DEF SearchPassages, FoundInOneSpace
    <3>3. PICK p \in Profiles, m \in Models : SearchAtOnce(r, p, m)
      BY <3>1, <3>2
    <3>4. PICK hits \in Hits(p, UsesVector(p, m)) :
            queries' = [queries EXCEPT ![r] = Found(m, UsesVector(p, m), hits)]
      BY <3>3 DEF SearchAtOnce
    <3>5. PICK answer : answer = Found(m, UsesVector(p, m), hits)
      OBVIOUS
    <3>6. queries' \in [Readers -> Q \cup {answer}]
      BY <2>1, <3>4, <3>5
    <3>7. FoundInOneSpace(answer)
      BY <3>5, FoundIsInOneSpace
    <3>8. \A x \in Readers : queries'[x] = IF x = r THEN answer ELSE queries[x]
      BY <2>1, <3>4, <3>5
    <3>9. \A x \in Readers : FoundInOneSpace(queries'[x])
      BY <2>1, <3>7, <3>8
    <3> QED BY <3>6, <3>9 DEF SearchInv
  <2> QED BY <2>2, <2>3 DEF SearchNext, searchVars
<1>3. SearchInv => OneVectorSpace
  BY DEF SearchInv, FoundInOneSpace, OneVectorSpace
<1> QED BY <1>1, <1>2, <1>3, PTL DEF SearchSpec

\* A search changes nothing that is read: what is proved of the readers and of the store
\* holds with any number of searches between (search, in both adapters).
THEOREM SearchesImplementReads == SearchSpec => ReadsSpec
<1>1. SearchInit => ReadsInit
  BY DEF SearchInit
<1>2. [SearchNext]_searchVars => [ReadsNext]_readsVars
  BY DEF SearchNext, Search, searchVars, readsVars
<1> QED
  BY <1>1, <1>2, PTL DEF SearchSpec, ReadsSpec

\* What is served is of an uploaded content, and so of a model there is.
LEMMA ServedModels ==
  ASSUME ReadsInv, NEW p, NEW h, h \in UNION {TextOf(s) : s \in ServedSources(p)}
  PROVE  ModelOf[h[1]] \in Models
<1>0. PICK d \in Docs : \E s \in ServedSource(d, p) : h \in TextOf(s)
  BY DEF ServedSources
<1>1. PICK s \in ServedSource(d, p) : h \in TextOf(s)
  BY <1>0
<1>2. /\ s.doc = d /\ s.version = docs[d].active
      /\ docs[d].active \in NumbersOf(d)
  <2>1. ServedTo(d, p) /\ s = [doc |-> d, version |-> docs[d].active, draft |-> FALSE]
    BY <1>1 DEF ServedSource
  <2>2. docs[d].active \in 0..MaxVersion /\ docs[d].active # 0
    BY <2>1 DEF ServedTo, Served, ReadsInv, ReadsTypeOK, TypeOK, DocRow
  <2>3. docs[d].active \in Numbers /\ versions[d][docs[d].active].state # "none"
    BY <2>1, <2>2, BoundsAssumption DEF ServedTo, Served, Numbers
  <2> QED BY <2>1, <2>3 DEF NumbersOf
<1>3. h[1] = ContentOf(s)
  BY <1>1 DEF TextOf
<1>4. ContentOf(s) \in Contents
  BY <1>2 DEF ReadsInv, RowsHaveContent, ContentOf
<1> QED BY <1>3, <1>4 DEF Models

\* So is what an answer is found among.
LEMMA FoundIsTyped ==
  ASSUME ReadsInv, NEW p, NEW m \in Models, NEW vector \in BOOLEAN, NEW hits \in Hits(p, vector)
  PROVE  Found(m, vector, hits) \in Answer
<1> DEFINE all == UNION {TextOf(s) : s \in ServedSources(p)}
           spaces == IF vector THEN {ModelOf[h[1]] : h \in hits} ELSE {}
<1>1. hits \subseteq all
  BY DEF Hits
<1>2. \A h \in all : ModelOf[h[1]] \in Models
  BY ServedModels
<1> HIDE DEF all
<1>3. spaces \in SUBSET Models
  BY <1>1, <1>2
<1>4. Found(m, vector, hits)
        = [doing |-> "found", model |-> m, vector |-> vector, spaces |-> spaces]
  BY DEF Found
<1> HIDE DEF spaces
<1> QED BY <1>3, <1>4 DEF Answer

\* A search has a type in either adapter: what it has found are models of uploaded contents.
THEOREM SearchTypeCorrect == SearchSpec => []SearchTypeOK
<1> DEFINE All == {NoQuery} \cup Query \cup Answer
           Typed == queries \in [Readers -> All]
<1>1. SearchInit => Typed
  BY DEF SearchInit
<1>2. ReadsInv /\ Typed /\ [SearchNext]_searchVars => Typed'
  <2> SUFFICES ASSUME ReadsInv, Typed, [SearchNext]_searchVars PROVE Typed'
    OBVIOUS
  <2>1. CASE queries' = queries
    BY <2>1
  <2>2. ASSUME NEW r \in Readers, NEW q \in All, queries' = [queries EXCEPT ![r] = q]
        PROVE  Typed'
    <3> HIDE DEF All
    <3> QED BY <2>2
  <2>3. CASE Search
    <3>1. PICK r \in Readers :
            \/ \E p \in Profiles, m \in Models : SearchAtOnce(r, p, m) \/ SearchModels(r, p, m)
            \/ SearchPassages(r)
      BY <2>3 DEF Search
    <3>2. ASSUME NEW p \in Profiles, NEW m \in Models, SearchAtOnce(r, p, m) PROVE Typed'
      <4>1. PICK hits \in Hits(p, UsesVector(p, m)) :
              queries' = [queries EXCEPT ![r] = Found(m, UsesVector(p, m), hits)]
        BY <3>2 DEF SearchAtOnce
      <4>2. UsesVector(p, m) \in BOOLEAN
        BY DEF UsesVector
      <4>3. Found(m, UsesVector(p, m), hits) \in Answer
        BY <4>2, FoundIsTyped
      <4> QED BY <2>2, <4>1, <4>3
    <3>3. ASSUME NEW p \in Profiles, NEW m \in Models, SearchModels(r, p, m) PROVE Typed'
      <4>1. PICK vector \in BOOLEAN : vector = UsesVector(p, m)
        BY DEF UsesVector
      <4>2. PICK q : q = [doing |-> "searching", profile |-> p, model |-> m, vector |-> vector]
        OBVIOUS
      <4>3. q \in Query
        BY <4>2 DEF Query
      <4>4. queries' = [queries EXCEPT ![r] = q]
        BY <3>3, <4>1, <4>2 DEF SearchModels
      <4> QED BY <2>2, <4>3, <4>4
    <3>4. CASE SearchPassages(r)
      <4>1. PICK q \in All : q = queries[r]
        <5> HIDE DEF All
        <5> QED OBVIOUS
      <4>2. q.doing = "searching"
        BY <3>4, <4>1 DEF SearchPassages
      <4>3. q \in Query
        BY <4>1, <4>2 DEF NoQuery, Query, Answer
      <4>4. q.model \in Models /\ q.vector \in BOOLEAN
        BY <4>3 DEF Query
      <4>5. PICK hits \in Hits(q.profile, q.vector) :
              queries' = [queries EXCEPT ![r] = Found(q.model, q.vector, hits)]
        BY <3>4, <4>1 DEF SearchPassages
      <4>6. Found(q.model, q.vector, hits) \in Answer
        BY <4>4, FoundIsTyped
      <4> QED BY <2>2, <4>5, <4>6
    <3> QED BY <3>1, <3>2, <3>3, <3>4
  <2> QED BY <2>1, <2>3 DEF SearchNext, searchVars
<1>3. ReadsTypeOK /\ Typed => SearchTypeOK
  BY DEF SearchTypeOK
<1> QED
  BY <1>1, <1>2, <1>3, SearchesImplementReads, ReadsInvariant, ReadsTypeCorrect, PTL
  DEF SearchSpec
=============================================================================

-------------------------- MODULE WordCountProofs --------------------------
(***************************************************************************)
(* Proofs about WordCount: no word is counted more often than it occurs,   *)
(* and what is missing from a count is on its way or was lost, for every   *)
(* text and any numbers of partitions, when no partition is assigned to    *)
(* two instances of lines2words.                                           *)
(***************************************************************************)
EXTENDS WordCount, SequenceTheorems, FiniteSetTheorems, TLAPS

\* Any two instances differ in parity, as 1 and 2 of the start scripts do;
\* PartitionsFor deals the partitions out in steps of two.
DifferentParity == \A i, j \in Instances : i # j => (i - j) % 2 # 0

----------------------------------------------------------------------------
(* Partitions and positions. *)

\* Instances of different parity have no partition in common.
LEMMA PartitionsDisjoint ==
  ASSUME DifferentParity
  PROVE  \A i, j \in Instances : \A p \in PartitionsFor(i) :
           p \in PartitionsFor(j) => i = j
<1> SUFFICES ASSUME NEW i \in Instances, NEW j \in Instances,
                    NEW p \in PartitionsFor(i), p \in PartitionsFor(j), i # j
             PROVE  FALSE
  OBVIOUS
<1>1. i \in Nat /\ j \in Nat /\ MaxPartitions["t2l"] \in Nat
  BY WordCountAssumption
<1>2. p \in Int /\ (p - i) % 2 = 0 /\ (p - j) % 2 = 0
  BY <1>1 DEF PartitionsFor, createConsumerPartitions
<1>3. (i - j) % 2 = 0
  BY <1>1, <1>2
<1>4. QED
  BY <1>3 DEF DifferentParity

\* The text has finitely many places for words.
LEMMA PositionsFinite == IsFiniteSet(Positions)
<1> DEFINE Place(k) == {<<k, j>> : j \in 1..Len(Text[k])}
           n == Len(Text)
           S == {Place(k) : k \in 1..n}
<1>1. n \in Nat /\ \A k \in 1..n : Len(Text[k]) \in Nat
  <2>1. \A k \in 1..n : Text[k] \in Seq(DOMAIN Lower)
    BY WordCountAssumption, ElementOfSeq
  <2>2. QED
    BY <2>1, WordCountAssumption, LenProperties
<1>2. ASSUME NEW k \in 1..n PROVE IsFiniteSet(Place(k))
  <2> DEFINE D == 1..Len(Text[k])
             f == [j \in D |-> <<k, j>>]
  <2>1. f \in Surjection(D, Place(k))
    <3>1. f \in [D -> Place(k)]
      BY Zenon
    <3>2. \A q \in Place(k) : \E j \in D : f[j] = q
      BY Zenon
    <3>3. QED
      BY <3>1, <3>2, Zenon DEF Surjection
  <2>2. IsFiniteSet(D)
    <3>1. Len(Text[k]) \in Int /\ 1 \in Int
      BY <1>1
    <3>2. QED
      BY <3>1, FS_Interval
  <2>3. QED
    BY <2>1, <2>2, FS_Surjection
<1>3. IsFiniteSet(S)
  <2> DEFINE f == [k \in 1..n |-> Place(k)]
  <2>1. f \in Surjection(1..n, S)
    BY DEF Surjection
  <2>2. IsFiniteSet(1..n)
    BY <1>1, FS_Interval
  <2>3. QED
    BY <2>1, <2>2, FS_Surjection
<1>4. \A T \in S : IsFiniteSet(T)
  BY <1>2
<1>5. IsFiniteSet(UNION S)
  BY <1>3, <1>4, FS_UNION
<1>6. QED
  BY <1>5 DEF Positions

----------------------------------------------------------------------------
(* The inductive invariant. *)

\* Every line that was read has been sent once.
LinesSent ==
  /\ lineNo \in 0..Len(Text)
  /\ \A m \in t2lSent : m.seq \in 1..lineNo
  /\ \A m, k \in t2lSent : m.seq = k.seq => m = k
  /\ \A k \in 1..lineNo : \E m \in t2lSent : m.seq = k

\* An instance takes lines of its partitions, and every word of one.
LinesTaken ==
  /\ DOMAIN t2lTaken = Instances
  /\ \A i \in Instances : \A t \in t2lTaken[i] :
       /\ t.pub \in t2lSent
       /\ t.pub.chan \in PartitionsFor(i)
       /\ \A j \in 1..Len(Text[t.pub.seq]) :
            \E w \in l2wSent : w.line = t.pub.seq /\ w.at = j

\* A word that was sent stands in a line that an instance has taken, and is
\* the only one from its place.
WordsSent ==
  /\ \A w \in l2wSent :
       /\ w.at \in 1..Len(Text[w.line])
       /\ \E i \in Instances : \E t \in t2lTaken[i] : t.pub.seq = w.line
  /\ \A w, v \in l2wSent : w.line = v.line /\ w.at = v.at => w = v

\* The counts are those of the words taken.
TakenOf(w) == {m \in TakenWords : WordOf(m) = w}

Counts ==
  /\ DOMAIN l2wTaken = {"wordcount"}
  /\ TakenWords \subseteq l2wSent
  /\ IsFiniteSet(TakenWords)
  /\ wordCountMap \in [Words -> Nat]
  /\ \A w \in Words : wordCountMap[w] = Cardinality(TakenOf(w))

WordInv == LinesSent /\ LinesTaken /\ WordsSent /\ Counts

\* Nothing has been read.
LEMMA WordInvInit == Init => WordInv
<1> SUFFICES ASSUME Init PROVE WordInv
  OBVIOUS
<1>1. /\ lineNo = 0 /\ t2lSent = {} /\ t2lTaken = [i \in Instances |-> {}]
      /\ l2wSent = {} /\ l2wTaken = [c \in {"wordcount"} |-> {}]
      /\ wordCountMap = [w \in Words |-> 0]
  BY DEF Init, T2L!Init, L2W!Init
<1>2. Len(Text) \in Nat
  BY WordCountAssumption, LenProperties
<1>3. LinesSent
  BY <1>1, <1>2 DEF LinesSent
<1>4. LinesTaken
  BY <1>1 DEF LinesTaken
<1>5. WordsSent
  BY <1>1 DEF WordsSent
<1>6. TakenWords = {} /\ \A w \in Words : TakenOf(w) = {}
  BY <1>1 DEF TakenWords, TakenOf
<1>7. Counts
  BY <1>1, <1>6, FS_EmptySet DEF Counts
<1>8. QED
  BY <1>3, <1>4, <1>5, <1>7 DEF WordInv

\* Steps that take no word leave the counts alone.
LEMMA CountsKept ==
  ASSUME Counts, l2wSent \subseteq l2wSent', UNCHANGED <<l2wTaken, wordCountMap>>
  PROVE  Counts'
<1>1. TakenWords' = TakenWords
  BY DEF TakenWords
<1>2. \A w \in Words : TakenOf(w)' = TakenOf(w)
  BY <1>1 DEF TakenOf, WordOf
<1>3. QED
  BY <1>1, <1>2 DEF Counts

\* text2lines reads a line.
LEMMA WordInvText ==
  ASSUME WordInv, text2lines PROVE WordInv'
<1>1. PICK m : /\ t2lSent' = t2lSent \cup {m} /\ m.seq = lineNo + 1
  <2>1. PICK p \in PartitionsOf("t2l") :
          T2L!Put({[from |-> "text2lines", seq |-> lineNo + 1, chan |-> p]})
    BY DEF text2lines
  <2> DEFINE m == [from |-> "text2lines", seq |-> lineNo + 1, chan |-> p]
  <2>2. t2lSent' = t2lSent \cup {m}
    BY <2>1 DEF T2L!Put
  <2>3. m.seq = lineNo + 1
    OBVIOUS
  <2>4. QED
    BY <2>2, <2>3, Zenon
<1>2. /\ lineNo' = lineNo + 1 /\ lineNo < Len(Text)
      /\ UNCHANGED <<wordCountMap, l2wSent, l2wTaken, t2lTaken>>
  BY DEF text2lines, T2L!Put, l2wVars
<1>3. LinesSent'
  <2>1. lineNo \in Nat /\ Len(Text) \in Nat
    BY WordCountAssumption, LenProperties DEF WordInv, LinesSent
  <2>2. lineNo' \in 0..Len(Text)
    BY <1>2, <2>1
  <2>3. \A k \in t2lSent : k.seq \in 1..lineNo
    BY DEF WordInv, LinesSent
  <2>4. \A k \in t2lSent' : k.seq \in 1..lineNo'
    BY <1>1, <1>2, <2>1, <2>3
  <2>5. \A k \in t2lSent : k.seq # m.seq
    BY <1>1, <2>1, <2>3
  <2>6. \A k, l \in t2lSent' : k.seq = l.seq => k = l
    BY <1>1, <2>5 DEF WordInv, LinesSent
  <2>7. \A k \in 1..lineNo' : \E l \in t2lSent' : l.seq = k
    <3> TAKE k \in 1..lineNo'
    <3>1. k \in 1..lineNo \/ k = lineNo + 1
      BY <1>2, <2>1
    <3>2. QED
      BY <1>1, <3>1 DEF WordInv, LinesSent
  <2>8. QED
    BY <2>2, <2>4, <2>6, <2>7 DEF LinesSent
<1>4. LinesTaken'
  BY <1>1, <1>2 DEF WordInv, LinesTaken
<1>5. WordsSent'
  BY <1>2 DEF WordInv, WordsSent
<1>6. Counts'
  BY <1>2, CountsKept DEF WordInv
<1>7. QED
  BY <1>3, <1>4, <1>5, <1>6 DEF WordInv

\* An instance of lines2words splits a line, which nobody has split before.
LEMMA WordInvSplit ==
  ASSUME DifferentParity, WordInv, NEW i \in Instances, lines2words(i)
  PROVE  WordInv'
<1>1. PICK m, parts :
        /\ m \in t2lSent
        /\ m.chan \in PartitionsFor(i)
        /\ T2L!Take(i, [pub |-> m])
        /\ L2W!Put(WordMessages(i, m.seq, parts))
  BY DEF lines2words
<1>2. UNCHANGED <<lineNo, wordCountMap, t2lSent, l2wTaken>>
  BY <1>1 DEF lines2words, T2L!Take, L2W!Put
<1> DEFINE d == [pub |-> m]
           W == WordMessages(i, m.seq, parts)
<1>3. /\ t2lTaken' = [t2lTaken EXCEPT ![i] = @ \cup {d}]
      /\ \A t \in t2lTaken[i] : t.pub # m
      /\ l2wSent' = l2wSent \cup W
  BY <1>1 DEF T2L!Take, L2W!Put
<1>4. /\ \A w \in W : w.line = m.seq /\ w.at \in 1..Len(Text[m.seq])
      /\ \A j \in 1..Len(Text[m.seq]) : \E w \in W : w.line = m.seq /\ w.at = j
      /\ \A w, v \in W : w.at = v.at => w = v
  <2> DEFINE J == 1..Len(Text[m.seq])
             msg(j) == [from |-> i, seq |-> seqNo[i] + j, chan |-> parts[j],
                        line |-> m.seq, at |-> j]
  <2>1. W = {msg(j) : j \in J}
    BY DEF WordMessages
  <2>2. \A j \in J : msg(j).line = m.seq /\ msg(j).at = j
    OBVIOUS
  <2> HIDE DEF W, msg, J
  <2>3. \A w \in W : \E j \in J : w = msg(j)
    BY <2>1, Zenon
  <2>4. \A j \in J : msg(j) \in W
    BY <2>1, Zenon
  <2>5. /\ \A w \in W : w.line = m.seq /\ w.at \in J
        /\ \A j \in J : \E w \in W : w.line = m.seq /\ w.at = j
        /\ \A w, v \in W : w.at = v.at => w = v
    BY <2>2, <2>3, <2>4
  <2>6. QED
    BY <2>5 DEF J
<1>5. d.pub = m
  OBVIOUS
<1> HIDE DEF d, W
<1>6. \A k \in Instances : t2lTaken[k] \subseteq t2lTaken'[k]
  BY <1>3 DEF WordInv, LinesTaken
<1>7. d \in t2lTaken'[i]
  BY <1>3 DEF WordInv, LinesTaken
<1>8. \A k \in Instances : \A t \in t2lTaken'[k] : t \in t2lTaken[k] \/ (t = d /\ k = i)
  BY <1>3 DEF WordInv, LinesTaken
<1>9. \A w \in l2wSent : w.line # m.seq
  <2> SUFFICES ASSUME NEW w \in l2wSent, w.line = m.seq PROVE FALSE
    OBVIOUS
  <2>1. PICK k \in Instances : \E t \in t2lTaken[k] : t.pub.seq = w.line
    BY DEF WordInv, WordsSent
  <2>1a. PICK t \in t2lTaken[k] : t.pub.seq = w.line
    BY <2>1
  <2>2. t.pub \in t2lSent /\ t.pub.chan \in PartitionsFor(k)
    BY DEF WordInv, LinesTaken
  <2>3. t.pub = m
    BY <1>1, <2>1a, <2>2 DEF WordInv, LinesSent
  <2>4. k = i
    BY <1>1, <2>2, <2>3, PartitionsDisjoint
  <2>5. QED
    BY <1>3, <2>3, <2>4
<1>10. LinesSent'
  BY <1>2 DEF WordInv, LinesSent
<1>11. LinesTaken'
  <2>1. DOMAIN t2lTaken' = Instances
    BY <1>3 DEF WordInv, LinesTaken
  <2>2. ASSUME NEW k \in Instances, NEW t \in t2lTaken'[k]
        PROVE  /\ t.pub \in t2lSent'
               /\ t.pub.chan \in PartitionsFor(k)
               /\ \A j \in 1..Len(Text[t.pub.seq]) :
                    \E w \in l2wSent' : w.line = t.pub.seq /\ w.at = j
    <3>1. CASE t \in t2lTaken[k]
      BY <1>2, <1>3, <3>1 DEF WordInv, LinesTaken
    <3>2. CASE t = d /\ k = i
      BY <1>1, <1>2, <1>3, <1>4, <1>5, <3>2
    <3>3. QED
      BY <1>8, <3>1, <3>2
  <2>3. QED
    BY <2>1, <2>2 DEF LinesTaken
<1>12. WordsSent'
  <2>1. ASSUME NEW w \in l2wSent'
        PROVE  /\ w.at \in 1..Len(Text[w.line])
               /\ \E k \in Instances : \E t \in t2lTaken'[k] : t.pub.seq = w.line
    <3>1. CASE w \in l2wSent
      <4>1. PICK k \in Instances : \E t \in t2lTaken[k] : t.pub.seq = w.line
        BY <3>1 DEF WordInv, WordsSent
      <4>1a. PICK t \in t2lTaken[k] : t.pub.seq = w.line
        BY <4>1
      <4>2. QED
        BY <1>6, <3>1, <4>1a DEF WordInv, WordsSent
    <3>2. CASE w \in W
      BY <1>4, <1>5, <1>7, <3>2
    <3>3. QED
      BY <1>3, <3>1, <3>2
  <2>2. \A w, v \in l2wSent' : w.line = v.line /\ w.at = v.at => w = v
    BY <1>3, <1>4, <1>9 DEF WordInv, WordsSent
  <2>3. QED
    BY <2>1, <2>2 DEF WordsSent
<1>13. Counts'
  BY <1>2, <1>3, CountsKept DEF WordInv
<1>14. QED
  BY <1>10, <1>11, <1>12, <1>13 DEF WordInv

\* wordcount counts a word, which it has not taken before.
LEMMA WordInvCount ==
  ASSUME WordInv, countWord PROVE WordInv'
<1>1. PICK m \in l2wSent : /\ L2W!Take("wordcount", [pub |-> m])
                           /\ wordCountMap' = Counted(wordCountMap, WordOf(m))
  BY DEF countWord
<1>2. UNCHANGED <<lineNo, t2lSent, t2lTaken, l2wSent>>
  BY <1>1 DEF countWord, t2lVars, L2W!Take
<1>3. LinesSent' /\ LinesTaken' /\ WordsSent'
  BY <1>2 DEF WordInv, LinesSent, LinesTaken, WordsSent
<1>4. /\ l2wTaken' = [l2wTaken EXCEPT !["wordcount"] = @ \cup {[pub |-> m]}]
      /\ \A t \in l2wTaken["wordcount"] : t.pub # m
  BY <1>1 DEF L2W!Take
<1>5. /\ DOMAIN l2wTaken' = {"wordcount"}
      /\ l2wTaken'["wordcount"] = l2wTaken["wordcount"] \cup {[pub |-> m]}
  BY <1>4 DEF WordInv, Counts
<1>6. TakenWords' = TakenWords \cup {m} /\ m \notin TakenWords
  <2>1. TakenWords' = {t.pub : t \in l2wTaken["wordcount"] \cup {[pub |-> m]}}
    BY <1>5 DEF TakenWords
  <2>2. {t.pub : t \in l2wTaken["wordcount"] \cup {[pub |-> m]}} = TakenWords \cup {m}
    <3> DEFINE d == [pub |-> m]
    <3>1. d.pub = m
      OBVIOUS
    <3> HIDE DEF d
    <3>2. {t.pub : t \in l2wTaken["wordcount"] \cup {d}}
            = {t.pub : t \in l2wTaken["wordcount"]} \cup {d.pub}
      OBVIOUS
    <3>3. QED
      BY <3>1, <3>2 DEF TakenWords, d
  <2>3. m \notin TakenWords
    BY <1>4 DEF TakenWords
  <2>4. QED
    BY <2>1, <2>2, <2>3
<1>7. IsFiniteSet(TakenWords') /\ TakenWords' \subseteq l2wSent'
  BY <1>1, <1>2, <1>6, FS_AddElement DEF WordInv, Counts
<1>8. WordOf(m) \in Words
  <2>1. m.line \in 1..Len(Text) /\ m.at \in 1..Len(Text[m.line])
    <3>1. PICK i \in Instances : \E t \in t2lTaken[i] : t.pub.seq = m.line
      BY DEF WordInv, WordsSent
    <3>1a. PICK t \in t2lTaken[i] : t.pub.seq = m.line
      BY <3>1
    <3>2. t.pub.seq \in 1..lineNo /\ lineNo \in 0..Len(Text)
      BY DEF WordInv, LinesTaken, LinesSent
    <3>3. Len(Text) \in Nat
      BY WordCountAssumption, LenProperties
    <3>4. QED
      BY <3>1a, <3>2, <3>3 DEF WordInv, WordsSent
  <2>2. Text[m.line] \in Seq(DOMAIN Lower)
    BY <2>1, WordCountAssumption, ElementOfSeq
  <2>3. Text[m.line][m.at] \in DOMAIN Lower
    BY <2>1, <2>2, ElementOfSeq
  <2>4. QED
    BY <2>3 DEF WordOf, Words
<1>9. wordCountMap \in [Words -> Nat]
  BY DEF WordInv, Counts
<1>10. wordCountMap' = [wordCountMap EXCEPT ![WordOf(m)] = @ + 1]
  BY <1>1 DEF Counted
<1>11. ASSUME NEW w \in Words
       PROVE  wordCountMap'[w] = Cardinality(TakenOf(w)')
  <2>1. IsFiniteSet(TakenOf(w)) /\ wordCountMap[w] = Cardinality(TakenOf(w))
    <3>1. TakenOf(w) \in SUBSET TakenWords
      BY DEF TakenOf
    <3>2. QED
      BY <3>1, FS_Subset DEF WordInv, Counts
  <2>2. CASE WordOf(m) = w
    <3>1. TakenOf(w)' = TakenOf(w) \cup {m} /\ m \notin TakenOf(w)
      BY <1>6, <2>2 DEF TakenOf, WordOf
    <3>2. Cardinality(TakenOf(w) \cup {m}) = Cardinality(TakenOf(w)) + 1
      BY <2>1, <3>1, FS_AddElement
    <3>3. wordCountMap'[w] = wordCountMap[w] + 1
      BY <1>9, <1>10, <2>2
    <3>4. QED
      BY <2>1, <3>1, <3>2, <3>3
  <2>3. CASE WordOf(m) # w
    <3>1. TakenOf(w)' = TakenOf(w)
      BY <1>6, <2>3 DEF TakenOf, WordOf
    <3>2. wordCountMap'[w] = wordCountMap[w]
      BY <1>9, <1>10, <2>3
    <3>3. QED
      BY <2>1, <3>1, <3>2
  <2>4. QED
    BY <2>2, <2>3
<1>12. wordCountMap' \in [Words -> Nat]
  BY <1>8, <1>9, <1>10
<1>13. Counts'
  BY <1>5, <1>7, <1>11, <1>12 DEF Counts
<1>14. QED
  BY <1>3, <1>13 DEF WordInv

\* The inductive step.
LEMMA WordInvNext ==
  ASSUME DifferentParity PROVE WordInv /\ [Next]_vars => WordInv'
<1> SUFFICES ASSUME WordInv, [Next]_vars PROVE WordInv'
  OBVIOUS
<1>1. CASE Acknowledge \/ UNCHANGED vars
  <2>1. UNCHANGED <<lineNo, wordCountMap, t2lSent, t2lTaken, l2wSent, l2wTaken>>
    BY <1>1 DEF Acknowledge, vars, t2lVars, l2wVars, T2L!Release, L2W!Release
  <2>2. LinesSent' /\ LinesTaken' /\ WordsSent'
    BY <2>1 DEF WordInv, LinesSent, LinesTaken, WordsSent
  <2>3. Counts'
    BY <2>1, CountsKept DEF WordInv
  <2>4. QED
    BY <2>2, <2>3 DEF WordInv
<1>2. CASE text2lines
  BY <1>2, WordInvText
<1>3. CASE \E i \in Instances : lines2words(i)
  BY <1>3, WordInvSplit
<1>4. CASE countWord
  BY <1>4, WordInvCount
<1>5. QED
  BY <1>1, <1>2, <1>3, <1>4 DEF Next

----------------------------------------------------------------------------
(* Theorems. *)

\* Where w stands in the first k lines.
PlacesOf(w, k) == {p \in Positions : p[1] <= k /\ Lower[Text[p[1]][p[2]]] = w}

\* Different words come from different places of the lines read so far.
LEMMA WordsToPlaces ==
  ASSUME WordInv, NEW w \in Words
  PROVE  /\ IsFiniteSet(PlacesOf(w, lineNo))
         /\ [m \in TakenOf(w) |-> <<m.line, m.at>>]
              \in Injection(TakenOf(w), PlacesOf(w, lineNo))
<1> DEFINE f == [m \in TakenOf(w) |-> <<m.line, m.at>>]
<1>1. IsFiniteSet(PlacesOf(w, lineNo))
  <2>1. PlacesOf(w, lineNo) \in SUBSET Positions
    BY DEF PlacesOf
  <2>2. QED
    BY <2>1, PositionsFinite, FS_Subset
<1>2. ASSUME NEW m \in TakenOf(w) PROVE <<m.line, m.at>> \in PlacesOf(w, lineNo)
  <2>1. m \in l2wSent /\ Lower[Text[m.line][m.at]] = w
    BY DEF TakenOf, WordOf, WordInv, Counts
  <2>2. PICK i \in Instances : \E t \in t2lTaken[i] : t.pub.seq = m.line
    BY <2>1 DEF WordInv, WordsSent
  <2>3. PICK t \in t2lTaken[i] : t.pub.seq = m.line
    BY <2>2
  <2>4. m.line \in 1..lineNo /\ lineNo \in 0..Len(Text)
    BY <2>3 DEF WordInv, LinesTaken, LinesSent
  <2>5. Len(Text) \in Nat
    BY WordCountAssumption, LenProperties
  <2>6. m.line \in 1..Len(Text) /\ m.line <= lineNo
    BY <2>4, <2>5
  <2>7. m.at \in 1..Len(Text[m.line])
    BY <2>1 DEF WordInv, WordsSent
  <2>8. <<m.line, m.at>> \in Positions
    BY <2>6, <2>7 DEF Positions
  <2>9. QED
    BY <2>1, <2>6, <2>8 DEF PlacesOf
<1>3. \A m, v \in TakenOf(w) : m.line = v.line /\ m.at = v.at => m = v
  BY DEF TakenOf, WordInv, Counts, WordsSent
<1>4. f \in [TakenOf(w) -> PlacesOf(w, lineNo)]
  BY <1>2
<1>5. \A m, v \in TakenOf(w) : f[m] = f[v] => m = v
  BY <1>3
<1> HIDE DEF f
<1>6. f \in Injection(TakenOf(w), PlacesOf(w, lineNo))
  BY <1>4, <1>5 DEF Injection, IsInjective
<1>7. QED
  BY <1>1, <1>6 DEF f

\* No word is counted more often than it occurs in the lines read so far, for
\* every text and any numbers of partitions: no line goes to two instances of
\* lines2words (lines2words.cpp, createConsumerPartitions) and no word is
\* counted twice (wordcount.cpp, countWord).
THEOREM NoWordOvercounted ==
  ASSUME DifferentParity
  PROVE  FairSpec => []NeverOvercounted
<1>1. WordInv => NeverOvercounted
  <2> SUFFICES ASSUME WordInv, NEW w \in Words
               PROVE  wordCountMap[w] <= Occurrences(w, lineNo)
    BY DEF NeverOvercounted
  <2>1. wordCountMap[w] = Cardinality(TakenOf(w))
    BY DEF WordInv, Counts
  <2>2. Cardinality(TakenOf(w)) <= Cardinality(PlacesOf(w, lineNo))
    BY WordsToPlaces, FS_Injection
  <2>3. Occurrences(w, lineNo) = Cardinality(PlacesOf(w, lineNo))
    BY DEF Occurrences, PlacesOf
  <2>4. QED
    BY <2>1, <2>2, <2>3
<1>2. QED
  BY <1>1, WordInvInit, WordInvNext, PTL DEF FairSpec

\* When every line has been split and every word sent has been taken, the
\* counts are those of the text: nothing is lost between the lines and the
\* edge l2w (lines2words.cpp), nor between the edge and the map
\* (wordcount.cpp), for every text and any numbers of partitions.
THEOREM CountsAreComplete ==
  ASSUME DifferentParity
  PROVE  FairSpec => []CompleteUnlessLost
<1>1. WordInv => CompleteUnlessLost
  <2> SUFFICES ASSUME WordInv, lineNo = Len(Text),
                      \A m \in t2lSent : \E i \in Instances : [pub |-> m] \in t2lTaken[i],
                      l2wSent = TakenWords, NEW w \in Words
               PROVE  wordCountMap[w] = Occurrences(w, Len(Text))
    BY DEF CompleteUnlessLost
  <2>1. wordCountMap[w] = Cardinality(TakenOf(w))
    BY DEF WordInv, Counts
  <2> DEFINE f == [m \in TakenOf(w) |-> <<m.line, m.at>>]
  <2>2. /\ IsFiniteSet(PlacesOf(w, lineNo))
        /\ f \in Injection(TakenOf(w), PlacesOf(w, lineNo))
    BY WordsToPlaces
  <2>3. ASSUME NEW p \in PlacesOf(w, lineNo) PROVE \E m \in TakenOf(w) : f[m] = p
    <3>1. PICK k \in 1..Len(Text) : \E j \in 1..Len(Text[k]) : p = <<k, j>>
      BY DEF PlacesOf, Positions
    <3>2. PICK j \in 1..Len(Text[k]) : p = <<k, j>>
      BY <3>1
    <3>3. Lower[Text[k][j]] = w
      BY <3>2 DEF PlacesOf
    <3>4. PICK l \in t2lSent : l.seq = k
      BY DEF WordInv, LinesSent
    <3>5. PICK i \in Instances : [pub |-> l] \in t2lTaken[i]
      OBVIOUS
    <3>6. PICK t \in t2lTaken[i] : t.pub = l
      BY <3>5
    <3>7. PICK m \in l2wSent : m.line = k /\ m.at = j
      BY <3>4, <3>6 DEF WordInv, LinesTaken
    <3>8. m \in TakenOf(w)
      BY <3>3, <3>7 DEF TakenOf, WordOf
    <3>9. f[m] = p
      BY <3>2, <3>7, <3>8
    <3>10. QED
      BY <3>8, <3>9
  <2> HIDE DEF f
  <2>4. f \in Surjection(TakenOf(w), PlacesOf(w, lineNo))
    BY <2>2, <2>3 DEF Injection, Surjection
  <2>5. Cardinality(TakenOf(w)) = Cardinality(PlacesOf(w, lineNo))
    BY <2>2, <2>4, FS_Injection
  <2>6. QED
    BY <2>1, <2>5 DEF Occurrences, PlacesOf
<1>2. QED
  BY <1>1, WordInvInit, WordInvNext, PTL DEF FairSpec

============================================================================

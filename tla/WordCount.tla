----------------------------- MODULE WordCount -----------------------------
(***************************************************************************)
(* The word count application (examples/wordCount): text2lines reads a     *)
(* text and pushes its lines on edge t2l, instances of lines2words split   *)
(* the lines and push the words on edge l2w, and wordcount counts them.    *)
(* The edges are two instances of EdgeDelivery, which IceFlow is shown to  *)
(* implement; the partitions are the application's own business and are    *)
(* part of this module.                                                    *)
(***************************************************************************)
EXTENDS Integers, Sequences, FiniteSets

CONSTANTS Text,           \* the lines of the source text, sequences of words
          Lower,          \* Lower[w]: w in lower case
          MaxPartitions,  \* maxPartitions of t2l and of l2w
          Instances       \* the instance numbers lines2words is started with

ASSUME WordCountAssumption ==
  /\ Text \in Seq(Seq(DOMAIN Lower))
  /\ MaxPartitions \in [{"t2l", "l2w"} -> Nat \ {0}]
  /\ Instances \subseteq Nat

VARIABLES lineNo,         \* lines text2lines has pushed
          seqNo,          \* seqNo[i]: publications of instance i
          wordCountMap,   \* occurrences by word
          t2lSent, t2lTaken, t2lReleased,
          l2wSent, l2wTaken, l2wReleased

t2lVars == <<t2lSent, t2lTaken, t2lReleased>>
l2wVars == <<l2wSent, l2wTaken, l2wReleased>>
vars == <<lineNo, seqNo, wordCountMap, t2lVars, l2wVars>>

T2L == INSTANCE EdgeDelivery WITH Consumers <- Instances,
         sent <- t2lSent, taken <- t2lTaken, released <- t2lReleased

L2W == INSTANCE EdgeDelivery WITH Consumers <- {"wordcount"},
         sent <- l2wSent, taken <- l2wTaken, released <- l2wReleased

Words == {Lower[w] : w \in DOMAIN Lower}

Init ==
  /\ lineNo = 0
  /\ seqNo = [i \in Instances |-> 0]
  /\ wordCountMap = [w \in Words |-> 0]
  /\ T2L!Init
  /\ L2W!Init

\* The partition numbers an edge's producers draw from.
PartitionsOf(edge) == 0..(MaxPartitions[edge] - 1)

----------------------------------------------------------------------------
\* text2lines: the next line, empty ones included, is pushed.
text2lines ==
  /\ lineNo < Len(Text)
  /\ lineNo' = lineNo + 1
  /\ \E p \in PartitionsOf("t2l") :
       T2L!Put({[from |-> "text2lines", seq |-> lineNo + 1, chan |-> p]})
  /\ UNCHANGED <<seqNo, wordCountMap, l2wVars>>

\* Mutant: an instance takes every partition from its own on.
createConsumerPartitions_all(highest, index, number) == index..highest

\* Mutant: counting starts behind the instance's own number.
createConsumerPartitions_after(highest, index, number) ==
  {i \in (index + 1)..highest : (i - index) % number = 0}

\* Every number-th partition from index up to and including highest.
createConsumerPartitions(highest, index, number) ==
  {i \in index..highest : (i - index) % number = 0}

\* What instance i asks repartitionConsumer for: the number of instances on
\* its command line is not used, it is always 2.
PartitionsFor(i) == createConsumerPartitions(MaxPartitions["t2l"], i, 2)

\* The words of line k as instance i publishes them, numbered from seqNo[i]
\* on; parts[j] is the partition drawn for the j-th.
WordMessages(i, k, parts) ==
  {[from |-> i, seq |-> seqNo[i] + j, chan |-> parts[j], line |-> k, at |-> j]
     : j \in 1..Len(Text[k])}

\* The callback of instance i on line m: every word is pushed.  The
\* acknowledgement of the line that follows takes a number too.
lines2words(i) ==
  \E m \in t2lSent :
    /\ m.chan \in PartitionsFor(i)
    /\ T2L!Take(i, [pub |-> m])
    /\ \E parts \in [1..Len(Text[m.seq]) -> PartitionsOf("l2w")] :
         L2W!Put(WordMessages(i, m.seq, parts))
    /\ seqNo' = [seqNo EXCEPT ![i] = @ + Len(Text[m.seq]) + 1]
    /\ UNCHANGED <<lineNo, wordCountMap>>

\* Mutant: the count starts again at every new word.
Counted_once(map, w) == [map EXCEPT ![w] = 1]

\* wordCountMap[word]++
Counted(map, w) == [map EXCEPT ![w] = @ + 1]

WordOf(m) == Lower[Text[m.line][m.at]]

\* The callback of wordcount, which takes partition 0: the word is counted in
\* lower case.
countWord ==
  \E m \in l2wSent :
    /\ m.chan = 0
    /\ L2W!Take("wordcount", [pub |-> m])
    /\ wordCountMap' = Counted(wordCountMap, WordOf(m))
    /\ UNCHANGED <<lineNo, seqNo, t2lVars>>

\* Acknowledgements reach the producers.
Acknowledge ==
  \/ /\ \E m \in t2lSent : T2L!Release(m)
     /\ UNCHANGED <<lineNo, seqNo, wordCountMap, l2wVars>>
  \/ /\ \E m \in l2wSent : L2W!Release(m)
     /\ UNCHANGED <<lineNo, seqNo, wordCountMap, t2lVars>>

Next ==
  \/ text2lines
  \/ \E i \in Instances : lines2words(i)
  \/ countWord
  \/ Acknowledge

\* The text is read to its end on a thread of its own, and every event loop
\* handles what it can fetch; the network does not fail.
FairSpec ==
  /\ Init /\ [][Next]_vars
  /\ WF_vars(text2lines)
  /\ \A i \in Instances : WF_vars(lines2words(i))
  /\ WF_vars(countWord)

----------------------------------------------------------------------------
(* Properties. *)

Positions == UNION {{<<k, j>> : j \in 1..Len(Text[k])} : k \in 1..Len(Text)}

\* How often w occurs in the first k lines.
Occurrences(w, k) ==
  Cardinality({p \in Positions : p[1] <= k /\ Lower[Text[p[1]][p[2]]] = w})

TakenWords == {t.pub : t \in l2wTaken["wordcount"]}

\* Words that left their producer's store before wordcount fetched them.
LostWords == l2wReleased \ TakenWords

\* No word is counted more often than it occurs in the lines read so far:
\* no line goes to two instances of lines2words (lines2words.cpp,
\* createConsumerPartitions) and no word is counted twice.
NeverOvercounted ==
  \A w \in Words : wordCountMap[w] <= Occurrences(w, lineNo)

\* The counts are those of the text when every line has been split and no word
\* is on its way or was lost on the way: what is missing from a count is missing
\* because of an acknowledgement that named another instance's word.
CompleteUnlessLost ==
  /\ lineNo = Len(Text)
  /\ \A m \in t2lSent : \E i \in Instances : [pub |-> m] \in t2lTaken[i]
  /\ l2wSent = TakenWords
  => \A w \in Words : wordCountMap[w] = Occurrences(w, Len(Text))

\* Every word of every line is eventually counted, or lost to such an
\* acknowledgement: whichever partition a line is pushed to, an instance of
\* lines2words serves it, and wordcount serves the words' only partition.
EveryWordIsCounted ==
  \A p \in Positions :
    lineNo >= p[1] ~>
      \E m \in TakenWords \cup LostWords : m.line = p[1] /\ m.at = p[2]

============================================================================

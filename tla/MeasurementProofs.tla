------------------------- MODULE MeasurementProofs -------------------------
(***************************************************************************)
(* Proofs about Measurement: its state stays typed, memory holds fewer     *)
(* entries than the threshold, and every field is recorded once and in     *)
(* order unless its file could not be opened, for every threshold and any  *)
(* number of fields.                                                       *)
(***************************************************************************)
EXTENDS Measurement, SequenceTheorems, WellFoundedInduction, TLAPS

----------------------------------------------------------------------------
(* Flattening a sequence of sequences. *)

\* The least-number principle, by which the proofs below do their induction.
LEMMA LeastNumber ==
  ASSUME NEW T \in SUBSET Nat, T # {}
  PROVE  \E x \in T : \A y \in T : x <= y
<1>1. PICK x \in T : \A y \in T : ~(<<y, x>> \in OpToRel(<, Nat))
  BY WFMin, NatLessThanWellFounded
<1>2. \A y \in T : y < x => <<y, x>> \in OpToRel(<, Nat)
  BY DEF OpToRel
<1>3. \A y \in T : ~(y < x)
  BY <1>1, <1>2, Zenon
<1>4. QED
  BY <1>3

\* What the recursive function inside FlattenSeq computes.
Flattens(f, seqs) ==
  f = [i \in 1..Len(seqs) |-> IF i = 1 THEN seqs[i] ELSE f[i - 1] \o seqs[i]]

\* There is such a function for every prefix of a sequence.
LEMMA FlattensPrefix ==
  ASSUME NEW seqs, NEW n \in Nat
  PROVE  \E f : f = [i \in 1..n |-> IF i = 1 THEN seqs[i] ELSE f[i - 1] \o seqs[i]]
<1> DEFINE Has(m) ==
      \E f : f = [i \in 1..m |-> IF i = 1 THEN seqs[i] ELSE f[i - 1] \o seqs[i]]
           T == {m \in Nat : ~Has(m)}
<1>1. Has(0)
  <2>1. [i \in 1..0 |-> IF i = 1 THEN seqs[i] ELSE <<>>[i - 1] \o seqs[i]] = <<>>
    BY DEF Has
  <2>2. QED
    BY <2>1
<1>2. ASSUME NEW m \in Nat, Has(m) PROVE Has(m + 1)
  <2>1. PICK f : f = [i \in 1..m |-> IF i = 1 THEN seqs[i] ELSE f[i - 1] \o seqs[i]]
    BY <1>2
  <2> DEFINE g == [i \in 1..(m + 1) |->
                     IF i = m + 1 THEN IF i = 1 THEN seqs[i] ELSE f[i - 1] \o seqs[i]
                                  ELSE f[i]]
             h == [i \in 1..(m + 1) |-> IF i = 1 THEN seqs[i] ELSE g[i - 1] \o seqs[i]]
  <2>2. ASSUME NEW i \in 1..(m + 1) PROVE g[i] = h[i]
    <3>1. CASE i = m + 1
      <4>1. i # 1 => g[i - 1] = f[i - 1]
        BY <3>1
      <4>2. QED
        BY <3>1, <4>1
    <3>2. CASE i # m + 1
      <4>1. i \in 1..m
        BY <3>2
      <4>2. f[i] = IF i = 1 THEN seqs[i] ELSE f[i - 1] \o seqs[i]
        BY <4>1, <2>1
      <4>3. i # 1 => g[i - 1] = f[i - 1]
        BY <4>1
      <4>4. QED
        BY <4>2, <4>3, <3>2
    <3>3. QED
      BY <3>1, <3>2
  <2>3. g = h
    BY <2>2
  <2>4. QED
    BY <2>3
<1>3. ASSUME T # {} PROVE FALSE
  <2> HIDE DEF Has
  <2>1. PICK m \in T : \A k \in T : m <= k
    BY <1>3, LeastNumber
  <2>2. m # 0
    BY <1>1, <2>1
  <2>3. m - 1 \in Nat /\ Has(m - 1)
    BY <2>1, <2>2
  <2>4. Has(m - 1 + 1)
    BY <1>2, <2>3
  <2>5. QED
    BY <2>1, <2>4
<1>4. QED
  BY <1>3

\* FlattenSeq is the last value of such a function.
LEMMA FlattenSeqDef ==
  ASSUME NEW seqs, Len(seqs) \in Nat \ {0}
  PROVE  \E f : Flattens(f, seqs) /\ FlattenSeq(seqs) = f[Len(seqs)]
<1> DEFINE f == CHOOSE f : f = [i \in 1..Len(seqs) |->
                       IF i = 1 THEN seqs[i] ELSE f[i - 1] \o seqs[i]]
<1>1. Flattens(f, seqs)
  BY FlattensPrefix, Zenon DEF Flattens
<1>2. FlattenSeq(seqs) = f[Len(seqs)]
  BY Zenon DEF FlattenSeq
<1>3. QED
  BY <1>1, <1>2, Zenon

\* The value of such a function at one index.
FlattensAt(f, s, i) ==
  /\ i = 1 => f[i] = s[i]
  /\ i # 1 => f[i] = f[i - 1] \o s[i]

\* A function that flattens does so at every index.
LEMMA FlattensEverywhere ==
  ASSUME NEW f, NEW s, Flattens(f, s), NEW i \in 1..Len(s)
  PROVE  FlattensAt(f, s, i)
<1> DEFINE h == [j \in 1..Len(s) |-> IF j = 1 THEN s[j] ELSE f[j - 1] \o s[j]]
<1>1. f = h
  BY Zenon DEF Flattens
<1>2. h[i] = IF i = 1 THEN s[i] ELSE f[i - 1] \o s[i]
  BY Zenon
<1>3. QED
  BY <1>1, <1>2, Zenon DEF FlattensAt

\* Nothing is flattened to nothing.
LEMMA FlattenEmpty == FlattenSeq(<<>>) = <<>>
BY DEF FlattenSeq

\* A sequence at the end comes at the end.
LEMMA FlattenAppend ==
  ASSUME NEW X, NEW s \in Seq(Seq(X)), NEW x \in Seq(X)
  PROVE  FlattenSeq(Append(s, x)) = FlattenSeq(s) \o x
<1>0. PICK n \in Nat, t \in Seq(Seq(X)) : n = Len(s) /\ t = Append(s, x)
  BY LenProperties, AppendProperties
<1>1. /\ n \in Nat /\ Len(t) = n + 1 /\ t[n + 1] = x
      /\ \A i \in 1..n : t[i] = s[i]
  BY <1>0, AppendProperties, LenProperties
<1>2. PICK g : Flattens(g, t) /\ FlattenSeq(t) = g[n + 1]
  <2>1. Len(t) \in Nat \ {0}
    BY <1>1
  <2>2. QED
    BY <2>1, <1>1, FlattenSeqDef
<1>3. /\ n + 1 = 1 => g[n + 1] = x
      /\ n + 1 # 1 => g[n + 1] = g[n] \o x
  <2>1. n + 1 \in 1..Len(t)
    BY <1>1
  <2>2. FlattensAt(g, t, n + 1)
    BY <1>2, <2>1, FlattensEverywhere, Zenon
  <2>3. (n + 1) - 1 = n
    BY <1>1
  <2>4. /\ n + 1 = 1 => g[n + 1] = t[n + 1]
        /\ n + 1 # 1 => g[n + 1] = g[(n + 1) - 1] \o t[n + 1]
    BY <2>2 DEF FlattensAt
  <2>5. QED
    BY <1>1, <2>3, <2>4, Zenon
<1>4. CASE n = 0
  <2>1. s = <<>>
    BY <1>0, <1>4, EmptySeq, LenProperties
  <2>2. FlattenSeq(s) \o x = x
    BY <2>1, FlattenEmpty, ConcatEmptySeq
  <2>3. QED
    BY <1>0, <1>2, <1>3, <1>4, <2>2
<1>5. CASE n # 0
  <2>1. PICK f : Flattens(f, s) /\ FlattenSeq(s) = f[n]
    BY <1>0, <1>1, <1>5, FlattenSeqDef
  <2>2. f[n] = g[n]
    <3>1. \A i \in 1..n : FlattensAt(f, s, i) /\ FlattensAt(g, t, i)
      <4> TAKE i \in 1..n
      <4>1. i \in 1..Len(s) /\ i \in 1..Len(t)
        BY <1>0, <1>1
      <4>2. QED
        BY <1>2, <2>1, <4>1, FlattensEverywhere, Zenon
    <3> DEFINE T == {i \in 1..n : f[i] # g[i]}
    <3>2. ASSUME T # {} PROVE FALSE
      <4>1. PICK m \in T : \A k \in T : m <= k
        <5>1. T \in SUBSET Nat
          OBVIOUS
        <5>2. QED
          BY <3>2, <5>1, LeastNumber
      <4>2. CASE m = 1
        BY <1>1, <3>1, <4>1, <4>2 DEF FlattensAt
      <4>3. CASE m # 1
        <5>1. m - 1 \in 1..n /\ m - 1 \notin T
          BY <4>1, <4>3
        <5>2. f[m - 1] = g[m - 1]
          BY <5>1
        <5>3. QED
          BY <1>1, <3>1, <4>1, <4>3, <5>2 DEF FlattensAt
      <4>4. QED
        BY <4>2, <4>3
    <3>3. n \in 1..n
      BY <1>5
    <3>4. QED
      BY <3>2, <3>3
  <2>3. n + 1 # 1
    BY <1>1, <1>5
  <2>4. QED
    BY <1>0, <1>2, <1>3, <2>1, <2>2, <2>3
<1>6. QED
  BY <1>4, <1>5

\* Flattening gives a sequence of the elements' elements.
LEMMA FlattenType ==
  ASSUME NEW X, NEW s \in Seq(Seq(X))
  PROVE  FlattenSeq(s) \in Seq(X)
<1> DEFINE n == Len(s)
<1>1. n \in Nat /\ \A i \in 1..n : s[i] \in Seq(X)
  BY LenProperties, ElementOfSeq
<1>2. CASE n = 0
  <2>1. s = <<>>
    BY <1>2, EmptySeq, LenProperties
  <2>2. QED
    BY <2>1, FlattenEmpty, EmptySeq
<1>3. CASE n # 0
  <2>1. PICK f : Flattens(f, s) /\ FlattenSeq(s) = f[n]
    BY <1>1, <1>3, FlattenSeqDef
  <2>2. \A i \in 1..n : FlattensAt(f, s, i)
    BY <2>1, FlattensEverywhere, Zenon
  <2> DEFINE T == {i \in 1..n : f[i] \notin Seq(X)}
  <2>3. ASSUME T # {} PROVE FALSE
    <3>1. PICK m \in T : \A k \in T : m <= k
      <4>1. T \in SUBSET Nat
        BY <1>1
      <4>2. QED
        BY <2>3, <4>1, LeastNumber
    <3>2. CASE m = 1
      BY <1>1, <2>2, <3>1, <3>2 DEF FlattensAt
    <3>3. CASE m # 1
      <4>1. m - 1 \in 1..n /\ m - 1 \notin T
        BY <1>1, <3>1, <3>3
      <4>2. f[m - 1] \in Seq(X) /\ s[m] \in Seq(X)
        BY <1>1, <4>1
      <4>3. f[m - 1] \o s[m] \in Seq(X)
        BY <4>2, ConcatProperties
      <4>4. QED
        BY <2>2, <3>1, <3>3, <4>3 DEF FlattensAt
    <3>4. QED
      BY <3>2, <3>3
  <2>4. n \in 1..n
    BY <1>1, <1>3
  <2>5. QED
    BY <2>1, <2>3, <2>4
<1>4. QED
  BY <1>2, <1>3

\* An element at the end of the last sequence comes at the end.
LEMMA FlattenLast ==
  ASSUME NEW X, NEW s \in Seq(Seq(X)), s # <<>>, NEW e \in X
  PROVE  FlattenSeq([s EXCEPT ![Len(s)] = Append(@, e)]) = Append(FlattenSeq(s), e)
<1>1. PICK u \in Seq(Seq(X)), x \in Seq(X) : s = Append(u, x)
  BY SequenceEmptyOrAppend
<1>2. /\ Len(u) \in Nat /\ Len(s) = Len(u) + 1 /\ s[Len(s)] = x
      /\ \A i \in 1..Len(u) : s[i] = u[i]
  BY <1>1, AppendProperties, LenProperties
<1>3. Append(x, e) \in Seq(X)
  BY AppendProperties
<1>4. [s EXCEPT ![Len(s)] = Append(@, e)] = Append(u, Append(x, e))
  <2> DEFINE v == [s EXCEPT ![Len(s)] = Append(x, e)]
             w == Append(u, Append(x, e))
  <2>1. /\ v \in Seq(Seq(X)) /\ Len(v) = Len(u) + 1
        /\ \A i \in 1..Len(u) : v[i] = u[i]
        /\ v[Len(u) + 1] = Append(x, e)
    <3>1. Len(s) \in 1..Len(s)
      BY <1>2
    <3>2. /\ v \in Seq(Seq(X)) /\ Len(v) = Len(s)
          /\ \A j \in 1..Len(s) : v[j] = IF j = Len(s) THEN Append(x, e) ELSE s[j]
      BY <1>3, <3>1, ExceptSeq
    <3> HIDE DEF v
    <3>3. QED
      BY <1>2, <3>2
  <2>2. /\ w \in Seq(Seq(X)) /\ Len(w) = Len(u) + 1
        /\ \A i \in 1..Len(u) : w[i] = u[i]
        /\ w[Len(u) + 1] = Append(x, e)
    BY <1>2, <1>3, AppendProperties
  <2> HIDE DEF v, w
  <2>3. \A i \in 1..Len(v) : v[i] = w[i]
    <3> TAKE i \in 1..Len(v)
    <3>1. i \in 1..Len(u) \/ i = Len(u) + 1
      BY <1>2, <2>1
    <3>2. QED
      BY <2>1, <2>2, <3>1, Zenon
  <2>4. v = w
    BY <2>1, <2>2, <2>3, SeqEqual
  <2>5. QED
    BY <1>2, <2>4 DEF v, w
<1>5. FlattenSeq(Append(u, Append(x, e))) = FlattenSeq(u) \o Append(x, e)
  BY <1>3, FlattenAppend
<1>6. FlattenSeq(s) = FlattenSeq(u) \o x
  BY <1>1, FlattenAppend
<1>7. FlattenSeq(u) \in Seq(X)
  BY FlattenType
<1>8. FlattenSeq(u) \o Append(x, e) = Append(FlattenSeq(u) \o x, e)
  <2> HIDE <1>1, <1>2
  <2>1. \A v \in Seq(X) : v \o Append(x, e) = Append(v \o x, e)
    OBVIOUS
  <2>2. QED
    BY <1>7, <2>1
<1>9. QED
  BY <1>4, <1>5, <1>6, <1>8

----------------------------------------------------------------------------
(* Type correctness. *)

\* An index of the loop never passes the end of the longest possible vector,
\* because every entry is the field of some call of setField.
TypeInv == TypeOK /\ Len(m_entries) <= fields

Lines == Seq(1..MaxFields)

\* The files, and their parts, as sequences.
LEMMA FilesSeq ==
  ASSUME TypeOK
  PROVE  /\ files \in Seq(Lines) /\ Len(files) = m_fileCount
         /\ parts \in Seq(Lines) /\ Len(parts) = m_fileCount
<1>1. /\ files \in [1..m_fileCount -> Lines] /\ m_fileCount \in Nat
      /\ parts \in [1..m_fileCount -> Lines]
  BY DEF TypeOK, Lines
<1>2. files \in Seq(Lines) /\ parts \in Seq(Lines)
  BY <1>1, SeqDef
<1>3. QED
  BY <1>1, <1>2, LenProperties

\* A sequence of line sequences is a function on its file numbers.
LEMMA SeqFiles ==
  ASSUME NEW s \in Seq(Lines), NEW n \in Nat, Len(s) = n
  PROVE  s \in [1..n -> Seq(1..MaxFields)]
BY LenProperties DEF Lines

\* A constructed Measurement.
LEMMA TypeInvInit == Init => TypeInv
<1> SUFFICES ASSUME Init PROVE TypeInv
  OBVIOUS
<1> USE MeasurementAssumption
<1>1. m_entries \in Seq(1..MaxFields) /\ Len(m_entries) = 0
  BY EmptySeq DEF Init
<1>2. /\ files \in [1..m_fileCount -> Seq(1..MaxFields)]
      /\ parts \in [1..m_fileCount -> Seq(1..MaxFields)]
  <2>1. /\ files \in Seq(Lines) /\ Len(files) = 0 /\ m_fileCount = 0
        /\ parts \in Seq(Lines) /\ Len(parts) = 0
    BY EmptySeq DEF Init
  <2>2. QED
    BY <2>1, SeqFiles
<1>3. Idle \in Calls
  BY DEF Idle, Calls
<1>4. call \in [Callers -> Calls]
  BY <1>3 DEF Init
<1>5. m_fileCount \in Nat /\ m_ofstream \in 0..m_fileCount /\ fields \in 0..MaxFields
  BY DEF Init
<1>6. failed \in BOOLEAN /\ overlapped \in BOOLEAN /\ m_saveThreshold \in Thresholds
  BY DEF Init
<1>7. QED
  BY <1>1, <1>2, <1>4, <1>5, <1>6 DEF TypeInv, TypeOK, Init

\* A step of the program counter of one caller.
LEMMA GoToTyped ==
  ASSUME TypeOK, NEW c \in Callers,
         NEW pc \in {"idle", "open", "write", "clear", "exited"}, GoTo(c, pc)
  PROVE  /\ call' \in [Callers -> Calls]
         /\ call'[c].pc = pc /\ call'[c].next = call[c].next
         /\ \A d \in Callers \ {c} : call'[d] = call[d]
<1>1. call \in [Callers -> Calls] /\ call[c] \in Calls
  BY DEF TypeOK
<1>2. [call[c] EXCEPT !.pc = pc] \in Calls
  BY <1>1 DEF Calls
<1>3. call' = [call EXCEPT ![c] = [call[c] EXCEPT !.pc = pc]]
  BY DEF GoTo
<1>4. QED
  BY <1>1, <1>2, <1>3 DEF Calls

\* The steps of the two callers outside recordToFile.
LEMMA TypeInvCallers ==
  ASSUME TypeInv, setField \/ signalCallbackHandler \/ Crash
  PROVE  TypeInv'
<1> USE MeasurementAssumption
<1>1. TypeOK /\ Len(m_entries) <= fields /\ m_entries \in Seq(1..MaxFields)
  BY DEF TypeInv, TypeOK
<1>2. CASE setField
  <2>1. "thread" \in Callers
    BY DEF Callers
  <2>2. PICK pc \in {"open", "idle"} : GoTo("thread", pc)
    BY <1>2, Zenon DEF setField
  <2>3. call' \in [Callers -> Calls]
    BY <1>1, <2>1, <2>2, GoToTyped
  <2>4. fields' \in 0..MaxFields /\ fields' = fields + 1 /\ fields + 1 \in 1..MaxFields
    BY <1>1, <1>2 DEF setField, TypeOK
  <2>5. /\ m_entries' \in Seq(1..MaxFields) /\ Len(m_entries') = Len(m_entries) + 1
    BY <1>1, <1>2, <2>4, AppendProperties DEF setField
  <2>6. overlapped' \in BOOLEAN
    BY <1>1, <1>2, Zenon DEF setField, TypeOK
  <2>7. Len(m_entries') <= fields'
    <3>1. Len(m_entries) \in Nat /\ fields \in Nat
      BY <1>1, LenProperties DEF TypeOK
    <3>2. QED
      BY <1>1, <2>4, <2>5, <3>1
  <2>8. UNCHANGED <<m_saveThreshold, m_fileCount, m_ofstream, failed, files, parts, opened>>
    BY <1>2 DEF setField, stream
  <2>9. QED
    BY <1>1, <2>3, <2>4, <2>5, <2>6, <2>7, <2>8 DEF TypeInv, TypeOK
<1>3. CASE signalCallbackHandler \/ Crash
  <2>1. "handler" \in Callers
    BY DEF Callers
  <2>2. PICK pc \in {"open", "exited"} : GoTo("handler", pc)
    BY <1>3, Zenon DEF signalCallbackHandler, Crash
  <2>3. call' \in [Callers -> Calls]
    BY <1>1, <2>1, <2>2, GoToTyped
  <2>4. overlapped' \in BOOLEAN
    BY <1>1, <1>3, Zenon DEF signalCallbackHandler, Crash, TypeOK
  <2>5. UNCHANGED <<m_saveThreshold, m_entries, m_fileCount, m_ofstream, failed,
                    files, parts, opened, fields>>
    BY <1>3 DEF signalCallbackHandler, Crash, stream
  <2>6. QED
    BY <1>1, <2>3, <2>4, <2>5 DEF TypeInv, TypeOK
<1>4. QED
  BY <1>2, <1>3

\* The steps of recordToFile.
LEMMA TypeInvRecord ==
  ASSUME TypeInv, NEW c \in Callers, recordToFile(c)
  PROVE  TypeInv'
<1> USE MeasurementAssumption
<1>1. /\ TypeOK /\ Len(m_entries) <= fields /\ m_entries \in Seq(1..MaxFields)
      /\ Len(m_entries) \in Nat /\ fields \in 0..MaxFields
      /\ call[c] \in Calls /\ call[c].next \in 1..(MaxFields + 1)
      /\ call \in [Callers -> Calls]
      /\ files \in Seq(Lines) /\ Len(files) = m_fileCount
      /\ parts \in Seq(Lines) /\ Len(parts) = m_fileCount
      /\ opened \subseteq 1..m_fileCount
      /\ m_fileCount \in Nat /\ m_ofstream \in 0..m_fileCount
  BY LenProperties, FilesSeq DEF TypeInv, TypeOK, Calls
<1>2. CASE openFile(c)
  <2>1. call' \in [Callers -> Calls]
    <3>1. GoTo(c, "write")
      BY <1>2 DEF openFile
    <3>2. QED
      BY <1>1, <3>1, GoToTyped
  <2>2. m_fileCount' = m_fileCount + 1
    BY <1>2 DEF openFile, NextFile
  <2>3. /\ files' \in [1..m_fileCount' -> Seq(1..MaxFields)]
        /\ parts' \in [1..m_fileCount' -> Seq(1..MaxFields)]
    <3>1. <<>> \in Lines
      BY EmptySeq DEF Lines
    <3>2. /\ files' \in Seq(Lines) /\ Len(files') = m_fileCount + 1
          /\ parts' \in Seq(Lines) /\ Len(parts') = m_fileCount + 1
      BY <1>1, <1>2, <3>1, AppendProperties DEF openFile
    <3>3. QED
      BY <1>1, <2>2, <3>2, SeqFiles
  <2>4. PICK succeeds \in BOOLEAN :
          /\ failed' = ~succeeds
          /\ m_ofstream' = IF succeeds THEN m_fileCount + 1 ELSE m_ofstream
          /\ opened' = IF succeeds THEN opened \union {m_fileCount + 1} ELSE opened
    BY <1>2, Zenon DEF openFile
  <2>5. m_ofstream' \in 0..m_fileCount' /\ opened' \subseteq 1..m_fileCount'
    BY <1>1, <2>2, <2>4
  <2>6. failed' \in BOOLEAN
    BY <2>4, Zenon
  <2>7. UNCHANGED <<m_saveThreshold, m_entries, fields, overlapped>>
    BY <1>2 DEF openFile
  <2>8. QED
    BY <1>1, <2>1, <2>2, <2>3, <2>5, <2>6, <2>7 DEF TypeInv, TypeOK
<1>3. CASE writeEntry(c)
  <2>1. call[c].next \in 1..Len(m_entries)
    BY <1>1, <1>3 DEF writeEntry
  <2>2. m_entries[call[c].next] \in 1..MaxFields
    BY <1>1, <2>1, ElementOfSeq
  <2>3. call' \in [Callers -> Calls]
    <3>1. call[c].next + 1 \in 1..(MaxFields + 1)
      BY <1>1, <2>1
    <3>2. [call[c] EXCEPT !.next = @ + 1] \in Calls
      BY <1>1, <3>1 DEF Calls
    <3>3. call' = [call EXCEPT ![c] = [call[c] EXCEPT !.next = @ + 1]]
      BY <1>3 DEF writeEntry
    <3>4. QED
      BY <1>1, <3>2, <3>3
  <2>4. failed' \in BOOLEAN
    BY <1>1, <1>3, Zenon DEF writeEntry, TypeOK
  <2>5. files' \in [1..m_fileCount -> Seq(1..MaxFields)]
    <3>1. CASE failed'
      BY <1>1, <1>3, <3>1, SeqFiles DEF writeEntry
    <3>2. CASE ~failed'
      <4>1. m_ofstream \in 1..m_fileCount
        <5>1. m_ofstream # 0
          BY <1>3, <3>2, Zenon DEF writeEntry
        <5>2. QED
          BY <1>1, <5>1
      <4>2. files[m_ofstream] \in Seq(1..MaxFields)
        BY <1>1, <4>1, ElementOfSeq DEF Lines
      <4>3. Append(files[m_ofstream], m_entries[call[c].next]) \in Seq(1..MaxFields)
        BY <2>2, <4>2, AppendProperties
      <4>4. files' = [files EXCEPT ![m_ofstream] = Append(files[m_ofstream], m_entries[call[c].next])]
        BY <1>3, <3>2 DEF writeEntry
      <4>5. files \in [1..m_fileCount -> Seq(1..MaxFields)]
        BY <1>1 DEF TypeOK
      <4>6. QED
        BY <4>1, <4>3, <4>4, <4>5
    <3>3. QED
      BY <3>1, <3>2
  <2>6. parts' \in [1..m_fileCount -> Seq(1..MaxFields)]
    <3>1. /\ parts \in [1..m_fileCount -> Seq(1..MaxFields)]
          /\ parts' = [parts EXCEPT ![m_fileCount] = Append(@, m_entries[call[c].next])]
      BY <1>1, <1>3 DEF TypeOK, writeEntry
    <3>2. ASSUME m_fileCount \in 1..m_fileCount
          PROVE  Append(parts[m_fileCount], m_entries[call[c].next]) \in Seq(1..MaxFields)
      BY <2>2, <3>1, <3>2, AppendProperties
    <3>3. QED
      BY <3>1, <3>2
  <2>7. UNCHANGED <<m_saveThreshold, m_entries, m_fileCount, m_ofstream, opened, fields,
                    overlapped>>
    BY <1>3 DEF writeEntry
  <2>8. QED
    BY <1>1, <2>3, <2>4, <2>5, <2>6, <2>7 DEF TypeInv, TypeOK
<1>4. CASE closeFile(c)
  <2>1. call' \in [Callers -> Calls]
    <3>1. GoTo(c, "clear")
      BY <1>4 DEF closeFile
    <3>2. QED
      BY <1>1, <3>1, GoToTyped
  <2>2. m_ofstream' \in 0..m_fileCount
    BY <1>1, <1>4 DEF closeFile
  <2>3. failed' \in BOOLEAN
    BY <1>1, <1>4, Zenon DEF closeFile, TypeOK
  <2>4. UNCHANGED <<m_saveThreshold, m_entries, m_fileCount, files, parts, opened, fields,
                    overlapped>>
    BY <1>4 DEF closeFile
  <2>5. QED
    BY <1>1, <2>1, <2>2, <2>3, <2>4 DEF TypeInv, TypeOK
<1>5. CASE clearEntries(c)
  <2>1. Idle \in Calls /\ [Idle EXCEPT !.pc = "exited"] \in Calls
    BY DEF Idle, Calls
  <2>2. call' \in [Callers -> Calls]
    <3>1. PICK d \in Calls : call' = [call EXCEPT ![c] = d]
      BY <1>5, <2>1, Zenon DEF clearEntries
    <3>2. QED
      BY <1>1, <3>1
  <2>3. m_entries' \in Seq(1..MaxFields) /\ Len(m_entries') = 0
    BY <1>5, EmptySeq DEF clearEntries, Cleared
  <2>4. UNCHANGED <<m_saveThreshold, m_fileCount, m_ofstream, failed, files, parts, opened,
                    fields, overlapped>>
    BY <1>5 DEF clearEntries, stream
  <2>5. QED
    BY <1>1, <2>2, <2>3, <2>4 DEF TypeInv, TypeOK
<1>6. QED
  BY <1>2, <1>3, <1>4, <1>5 DEF recordToFile

\* A step keeps the types.
LEMMA TypeInvNext == TypeInv /\ [Next]_vars => TypeInv'
<1> SUFFICES ASSUME TypeInv, [Next]_vars PROVE TypeInv'
  OBVIOUS
<1>1. CASE UNCHANGED vars
  BY <1>1 DEF vars, stream, TypeInv, TypeOK
<1>2. CASE Next
  BY <1>2, TypeInvCallers, TypeInvRecord DEF Next
<1>3. QED
  BY <1>1, <1>2

\* Every variable keeps its type: whatever the interleaving of setField's and
\* the SIGINT handler's recordToFile (measurements.cpp), the loop's index stays
\* within the vector, and the stream has one of the files open or none.
THEOREM TypeCorrect == Spec => []TypeOK
<1>1. TypeInv => TypeOK
  BY DEF TypeInv
<1>2. QED
  BY <1>1, TypeInvInit, TypeInvNext, PTL DEF Spec

----------------------------------------------------------------------------
(* The size of the vector. *)

\* Whoever records, clears: outside its own call of recordToFile the thread
\* leaves fewer entries than the threshold.
Small == Len(m_entries) < m_saveThreshold \/ m_entries = <<>>
BoundInv == TypeInv /\ (call["thread"].pc = "idle" => Small)

\* Memory holds fewer entries than the threshold whenever setField returns,
\* for every m_saveThreshold (measurements.cpp): also for 0, and also when the
\* handler of SIGINT records at the same time.
THEOREM BufferStaysBounded == Spec => []BufferIsBounded
<1>1. Init => BoundInv
  BY TypeInvInit DEF Init, BoundInv, Small
<1>2. BoundInv /\ [Next]_vars => BoundInv'
  <2> SUFFICES ASSUME BoundInv, [Next]_vars PROVE BoundInv'
    OBVIOUS
  <2>1. TypeInv'
    BY TypeInvNext DEF BoundInv
  <2>2. /\ TypeOK /\ call \in [Callers -> Calls]
        /\ "thread" \in Callers /\ "handler" \in Callers /\ "thread" # "handler"
        /\ call["thread"].pc = "idle" => Small
    BY DEF BoundInv, TypeInv, TypeOK, Callers
  <2>3. ASSUME call'["thread"].pc = "idle" PROVE Small'
    <3>1. CASE setField
      <4>1. ~AtThreshold(m_entries')
        <5>1. SUFFICES ASSUME AtThreshold(m_entries') PROVE FALSE
          OBVIOUS
        <5>2. GoTo("thread", "open")
          BY <3>1, <5>1, Zenon DEF setField
        <5>3. QED
          BY <2>2, <2>3, <5>2, GoToTyped
      <4>2. /\ Len(m_entries') \in Nat
            /\ m_saveThreshold \in Nat /\ m_saveThreshold' = m_saveThreshold
        BY <2>1, <2>2, <3>1, MeasurementAssumption, LenProperties
           DEF TypeInv, TypeOK, setField
      <4>3. QED
        BY <4>1, <4>2 DEF AtThreshold, Small
    <3>2. CASE m_entries' = <<>>
      BY <3>2 DEF Small
    <3>3. CASE /\ UNCHANGED <<m_entries, m_saveThreshold>>
               /\ call["thread"].pc = "idle"
      BY <2>2, <3>3 DEF Small
    <3>4. CASE signalCallbackHandler \/ Crash
      <4>1. call'["thread"] = call["thread"]
        <5>1. PICK pc \in {"open", "exited"} : GoTo("handler", pc)
          BY <3>4, Zenon DEF signalCallbackHandler, Crash
        <5>2. QED
          BY <2>2, <5>1, GoToTyped
      <4>2. QED
        BY <2>3, <3>3, <3>4, <4>1 DEF signalCallbackHandler, Crash
    <3>5. ASSUME NEW c \in Callers, openFile(c) \/ closeFile(c) \/ writeEntry(c)
          PROVE  Small'
      <4>1. UNCHANGED <<m_entries, m_saveThreshold>>
        BY <3>5 DEF openFile, closeFile, writeEntry
      <4>2. call["thread"].pc = "idle"
        <5>1. CASE openFile(c) \/ closeFile(c)
          <6>1. PICK pc \in {"write", "clear"} : GoTo(c, pc)
            BY <5>1 DEF openFile, closeFile
          <6>2. QED
            BY <2>2, <2>3, <6>1, GoToTyped
        <5>2. CASE writeEntry(c)
          BY <2>2, <2>3, <5>2 DEF writeEntry, Calls
        <5>3. QED
          BY <3>5, <5>1, <5>2
      <4>3. QED
        BY <3>3, <4>1, <4>2
    <3>6. ASSUME NEW c \in Callers, clearEntries(c)
          PROVE  Small'
      BY <3>2, <3>6 DEF clearEntries, Cleared
    <3>7. CASE UNCHANGED vars
      BY <2>3, <3>3, <3>7 DEF vars
    <3>8. QED
      BY <3>1, <3>4, <3>5, <3>6, <3>7 DEF Next, recordToFile
  <2>4. QED
    BY <2>1, <2>3 DEF BoundInv
<1>3. BoundInv => BufferIsBounded
  BY DEF BoundInv, Small, BufferIsBounded, Quiescent, Idle, Callers
<1>4. QED
  BY <1>1, <1>2, <1>3, PTL DEF Spec

----------------------------------------------------------------------------
(* Every field once and in order. *)

\* The caller that is at work, or was last, as long as the two do not overlap.
Active(c) == c = "thread" <=> call["handler"].pc = "idle"

\* What c still has to write.
Rest(c) == SubSeq(m_entries, call[c].next, Len(m_entries))

\* With one caller at a time: what has been handed to the files and what is
\* left to write make up all fields; the newest file is open exactly in the
\* loop, unless it could not be opened.
InOrder(c) ==
  /\ Handed \o Rest(c) = AllFields
  /\ WholeParts
  /\ call[c].pc = "write" =>
       /\ m_fileCount # 0
       /\ failed => m_fileCount \notin opened
       /\ ~failed => m_fileCount \in opened /\ m_ofstream = m_fileCount
  /\ call[c].pc # "write" => m_ofstream = 0
  /\ call[c].pc \in {"idle", "open"} => call[c].next = 1
  /\ call[c].pc \in {"clear", "exited"} => call[c].next > Len(m_entries)

\* The handler never becomes idle again, so nothing has overlapped before it
\* starts; and while nothing has overlapped one of the two is idle.
Apart ==
  /\ call["handler"].pc = "idle" => call["handler"] = Idle /\ ~overlapped
  /\ call["thread"].pc = "idle" => call["thread"] = Idle
  /\ call["thread"].pc # "exited"
  /\ ~overlapped => call["handler"] = Idle \/ call["thread"] = Idle

RecordInv ==
  /\ TypeInv
  /\ Apart
  /\ ~overlapped => \A c \in Callers : Active(c) => InOrder(c)

\* Moving the next entry from the rest to the end.
LEMMA MoveOne ==
  ASSUME NEW X, NEW r \in Seq(X), NEW m \in Seq(X), NEW k \in 1..Len(m)
  PROVE  Append(r, m[k]) \o SubSeq(m, k + 1, Len(m)) = r \o SubSeq(m, k, Len(m))
<1>1. Len(m) \in k..Len(m) /\ Len(m) \in Nat /\ m[k] \in X
  BY LenProperties, ElementOfSeq
<1>2. SubSeq(m, k, Len(m)) = <<m[k]>> \o SubSeq(m, k + 1, Len(m))
  BY <1>1, SubSeqRecursiveFirst
<1>3. Append(r, m[k]) = r \o <<m[k]>>
  BY <1>1, AppendIsConcat
<1>4. <<m[k]>> \in Seq(X)
  BY <1>1
<1>5. SubSeq(m, k + 1, Len(m)) \in Seq(X)
  <2>1. \A i \in (k + 1)..Len(m) : m[i] \in X
    BY <1>1, ElementOfSeq
  <2>2. QED
    BY <1>1, <2>1, SubSeqProperties
<1>6. \A u, v \in Seq(X) : (r \o u) \o v = r \o (u \o v)
  OBVIOUS
<1>7. (r \o <<m[k]>>) \o SubSeq(m, k + 1, Len(m))
        = r \o (<<m[k]>> \o SubSeq(m, k + 1, Len(m)))
  BY <1>4, <1>5, <1>6, Zenon
<1>8. QED
  BY <1>2, <1>3, <1>7, Zenon

\* The facts about sequences that the steps below start from.
LEMMA RecordFacts ==
  ASSUME TypeInv
  PROVE  /\ files \in Seq(Lines) /\ Len(files) = m_fileCount
         /\ parts \in Seq(Lines) /\ Len(parts) = m_fileCount
         /\ Handed \in Lines /\ AllFields \in Lines
         /\ m_entries \in Lines /\ Len(m_entries) \in Nat
         /\ \A c \in Callers :
              /\ call[c] \in Calls /\ call[c].next \in Nat
              /\ call[c].next = 1 => Rest(c) = m_entries
              /\ call[c].next > Len(m_entries) => Rest(c) = <<>>
<1> USE MeasurementAssumption
<1>1. /\ files \in Seq(Lines) /\ Len(files) = m_fileCount
      /\ parts \in Seq(Lines) /\ Len(parts) = m_fileCount
  BY FilesSeq DEF TypeInv
<1>2. Handed \in Lines
  BY <1>1, FlattenType DEF Handed, Lines
<1>3. fields \in 0..MaxFields /\ m_entries \in Lines /\ Len(m_entries) \in Nat
  BY LenProperties DEF TypeInv, TypeOK, Lines
<1>4. AllFields \in Lines
  BY <1>3, SeqDef DEF AllFields, Lines
<1>5. ASSUME NEW c \in Callers
      PROVE  /\ call[c] \in Calls /\ call[c].next \in Nat
             /\ call[c].next = 1 => Rest(c) = m_entries
             /\ call[c].next > Len(m_entries) => Rest(c) = <<>>
  <2>1. call[c] \in Calls /\ call[c].next \in Nat
    BY DEF TypeInv, TypeOK, Calls
  <2>2. call[c].next = 1 => Rest(c) = m_entries
    BY <1>3, SubSeqFull DEF Rest, Lines
  <2>3. call[c].next > Len(m_entries) => Rest(c) = <<>>
    BY <1>3, <2>1, SubSeqEmpty DEF Rest
  <2>4. QED
    BY <2>1, <2>2, <2>3
<1>6. QED
  BY <1>1, <1>2, <1>3, <1>4, <1>5

\* Outside recordToFile.
LEMMA ApartCallers ==
  ASSUME TypeInv, Apart, setField \/ signalCallbackHandler \/ Crash
  PROVE  Apart'
<1>1. /\ TypeOK /\ call \in [Callers -> Calls] /\ overlapped \in BOOLEAN
      /\ "thread" \in Callers /\ "handler" \in Callers /\ "thread" # "handler"
      /\ call["thread"] \in Calls /\ call["handler"] \in Calls
  BY DEF TypeInv, TypeOK, Callers
<1>2. CASE setField
  <2>1. PICK pc \in {"open", "idle"} : GoTo("thread", pc)
    BY <1>2, Zenon DEF setField
  <2>2. /\ call'["thread"].pc = pc /\ call'["thread"].next = call["thread"].next
        /\ call'["handler"] = call["handler"]
    BY <1>1, <2>1, GoToTyped
  <2>3. call["thread"].pc = "idle" /\ ~Exited
    BY <1>2 DEF setField, At
  <2>4. call["thread"] = Idle
    BY <2>3 DEF Apart
  <2>5. pc = "idle" => call'["thread"] = Idle
    BY <1>1, <2>1, <2>4 DEF GoTo, Idle, Calls
  <2>6. ~overlapped' => call["handler"].pc = "idle"
    BY <1>2, Zenon DEF setField, At
  <2>7. call["handler"].pc = "idle" => ~overlapped'
    BY <1>2, <2>3 DEF setField, At, Apart
  <2>8. QED
    BY <2>2, <2>5, <2>6, <2>7 DEF Apart
<1>3. CASE signalCallbackHandler
  <2>1. /\ call'["handler"].pc = "open" /\ call'["thread"] = call["thread"]
    BY <1>1, <1>3, GoToTyped DEF signalCallbackHandler
  <2>2. ~overlapped' => call["thread"].pc = "idle"
    BY <1>3, Zenon DEF signalCallbackHandler, At
  <2>3. QED
    BY <2>1, <2>2 DEF Apart
<1>4. CASE Crash
  <2>1. /\ call'["handler"].pc = "exited" /\ call'["thread"] = call["thread"]
    BY <1>1, <1>4, GoToTyped DEF Crash
  <2>2. overlapped'
    BY <1>4 DEF Crash
  <2>3. QED
    BY <2>1, <2>2 DEF Apart
<1>5. QED
  BY <1>2, <1>3, <1>4

\* A step of recordToFile is one of its active caller's, which stays the active
\* one.
LEMMA ApartRecord ==
  ASSUME TypeInv, Apart, NEW c \in Callers, recordToFile(c)
  PROVE  /\ Apart'
         /\ overlapped' = overlapped
         /\ ~overlapped => Active(c) /\ \A d \in Callers : Active(d)' => d = c
<1>1. /\ TypeOK /\ call \in [Callers -> Calls]
      /\ "thread" \in Callers /\ "handler" \in Callers /\ "thread" # "handler"
      /\ c = "thread" \/ c = "handler"
      /\ call["thread"] \in Calls /\ call["handler"] \in Calls
  BY DEF TypeInv, TypeOK, Callers
<1>2. /\ call[c].pc \in {"open", "write", "clear"}
      /\ overlapped' = overlapped
  BY DEF recordToFile, openFile, writeEntry, closeFile, clearEntries, At
<1>3. /\ \A d \in Callers \ {c} : call'[d] = call[d]
      /\ \/ call'[c].pc \in {"write", "clear"}
         \/ call'[c].pc = "exited" /\ c = "handler"
         \/ call'[c] = Idle /\ c = "thread"
  <2>1. CASE openFile(c) \/ closeFile(c)
    <3>1. PICK pc \in {"write", "clear"} : GoTo(c, pc)
      BY <2>1 DEF openFile, closeFile
    <3>2. QED
      BY <1>1, <3>1, GoToTyped
  <2>2. CASE writeEntry(c)
    BY <1>1, <2>2 DEF writeEntry, At, Calls
  <2>3. CASE clearEntries(c)
    <3>1. c = "thread" => call' = [call EXCEPT ![c] = Idle]
      BY <1>1, <2>3 DEF clearEntries
    <3>2. c = "handler" => call' = [call EXCEPT ![c] = [Idle EXCEPT !.pc = "exited"]]
      BY <1>1, <2>3 DEF clearEntries
    <3>3. QED
      BY <1>1, <3>1, <3>2 DEF Idle
  <2>4. QED
    BY <2>1, <2>2, <2>3 DEF recordToFile
<1>4. CASE c = "thread"
  <2>1. call'["handler"] = call["handler"]
    BY <1>1, <1>3, <1>4
  <2>2. ~overlapped => call["handler"] = Idle
    BY <1>2, <1>4 DEF Apart, Idle
  <2>3. Apart'
    BY <1>2, <1>3, <1>4, <2>1, <2>2 DEF Apart, Idle
  <2>4. QED
    <3>1. ASSUME ~overlapped PROVE call["handler"].pc = "idle"
      BY <2>2, <3>1 DEF Idle
    <3>2. ~overlapped => Active(c)
      BY <1>4, <3>1 DEF Active
    <3>3. ~overlapped => \A d \in Callers : Active(d)' => d = c
      BY <1>4, <2>1, <3>1 DEF Active, Callers
    <3>4. QED
      BY <1>2, <2>3, <3>2, <3>3
<1>5. CASE c = "handler"
  <2>1. call'["thread"] = call["thread"] /\ call'["handler"].pc # "idle"
    BY <1>1, <1>3, <1>5
  <2>2. ~overlapped => call["thread"] = Idle
    BY <1>2, <1>5 DEF Apart, Idle
  <2>3. Apart'
    BY <1>2, <2>1, <2>2 DEF Apart
  <2>4. QED
    <3>1. call["handler"].pc # "idle"
      BY <1>2, <1>5
    <3>2. Active(c)
      BY <1>1, <1>5, <3>1 DEF Active
    <3>3. \A d \in Callers : Active(d)' => d = c
      BY <1>5, <2>1 DEF Active, Callers
    <3>4. QED
      BY <1>2, <2>3, <3>2, <3>3
<1>6. QED
  BY <1>1, <1>4, <1>5

\* setField, when the handler has not started.
LEMMA InOrderSetField ==
  ASSUME RecordInv, setField, ~overlapped', NEW c \in Callers, Active(c)'
  PROVE  InOrder(c)'
<1>1. /\ TypeInv /\ TypeOK /\ Apart /\ call \in [Callers -> Calls]
      /\ "thread" \in Callers /\ "handler" \in Callers /\ "thread" # "handler"
  BY DEF RecordInv, TypeInv, TypeOK, Callers
<1>2. call["handler"].pc = "idle" /\ ~overlapped
  BY Zenon DEF setField, At
<1>3. PICK pc \in {"open", "idle"} : GoTo("thread", pc)
  BY Zenon DEF setField
<1>4. /\ call'["handler"] = call["handler"]
      /\ call'["thread"].pc = pc /\ call'["thread"].next = call["thread"].next
  BY <1>1, <1>3, GoToTyped
<1>5. c = "thread" /\ InOrder(c)
  <2>1. c = "thread"
    BY <1>2, <1>4 DEF Active
  <2>2. Active(c)
    BY <1>2, <2>1 DEF Active
  <2>3. QED
    BY <1>2, <2>1, <2>2 DEF RecordInv
<1>6. call[c].pc = "idle" /\ call[c].next = 1 /\ m_ofstream = 0
  BY <1>5 DEF setField, At, InOrder
<1>7. TypeInv'
  BY <1>1, TypeInvCallers
<1>8. Rest(c) = m_entries
  BY <1>1, <1>6, RecordFacts
<1>9. Rest(c)' = m_entries'
  <2>1. /\ m_entries' \in Lines /\ call'[c].next = 1
    BY <1>4, <1>5, <1>6, <1>7 DEF TypeInv, TypeOK, Lines
  <2>2. QED
    BY <2>1, SubSeqFull DEF Rest, Lines
<1>10. Handed' = Handed /\ m_ofstream' = m_ofstream /\ WholeParts'
  <2>1. UNCHANGED <<m_fileCount, m_ofstream, files, parts, opened>>
    BY DEF setField, stream
  <2>2. QED
    BY <1>5, <2>1 DEF Handed, WholeParts, InOrder
<1>11. fields \in 0..MaxFields /\ fields + 1 \in 1..MaxFields
  BY <1>1, MeasurementAssumption DEF setField, TypeOK
<1>12. AllFields' = Append(AllFields, fields + 1)
  <2>1. AllFields \in Lines /\ AllFields' = [k \in 1..(fields + 1) |-> k]
    BY <1>1, RecordFacts DEF AllFields, setField
  <2>2. Len(AllFields) = fields
    <3>1. DOMAIN AllFields = 1..fields
      BY DEF AllFields
    <3>2. QED
      BY <1>11, <2>1, <3>1, LenProperties DEF Lines
  <2>3. /\ Append(AllFields, fields + 1) \in Lines
        /\ Len(Append(AllFields, fields + 1)) = fields + 1
        /\ \A i \in 1..fields : Append(AllFields, fields + 1)[i] = AllFields[i]
        /\ Append(AllFields, fields + 1)[fields + 1] = fields + 1
    BY <1>11, <2>1, <2>2, AppendProperties DEF Lines
  <2>4. Append(AllFields, fields + 1) = [k \in 1..(fields + 1) |-> k]
    <3>1. \A i \in 1..fields : AllFields[i] = i
      BY DEF AllFields
    <3>2. DOMAIN Append(AllFields, fields + 1) = 1..(fields + 1)
      BY <2>3, LenProperties DEF Lines
    <3>3. \A i \in 1..(fields + 1) : Append(AllFields, fields + 1)[i] = i
      BY <1>11, <2>3, <3>1
    <3>4. Append(AllFields, fields + 1) =
            [i \in 1..(fields + 1) |-> Append(AllFields, fields + 1)[i]]
      BY <2>3, <3>2 DEF Lines
    <3>5. QED
      BY <3>3, <3>4
  <2>5. QED
    BY <2>1, <2>4
<1>13. Handed \o Append(m_entries, fields + 1) = Append(Handed \o m_entries, fields + 1)
  <2>1. Handed \in Lines /\ m_entries \in Lines
    BY <1>1, RecordFacts
  <2>2. \A u, v \in Lines : \A e \in 1..MaxFields : u \o Append(v, e) = Append(u \o v, e)
    BY DEF Lines
  <2>3. QED
    BY <1>11, <2>1, <2>2, Zenon
<1>14. (Handed \o Rest(c) = AllFields)'
  BY <1>5, <1>8, <1>9, <1>10, <1>12, <1>13 DEF InOrder, setField
<1>15. QED
  BY <1>4, <1>5, <1>6, <1>10, <1>14 DEF InOrder

\* SIGINT, when the thread is outside Measurement.
LEMMA InOrderSignal ==
  ASSUME RecordInv, signalCallbackHandler, ~overlapped', NEW c \in Callers, Active(c)'
  PROVE  InOrder(c)'
<1>1. /\ TypeInv /\ TypeOK /\ Apart /\ call \in [Callers -> Calls]
      /\ "thread" \in Callers /\ "handler" \in Callers /\ "thread" # "handler"
  BY DEF RecordInv, TypeInv, TypeOK, Callers
<1>2. call["thread"].pc = "idle" /\ ~overlapped /\ call["handler"].pc = "idle"
  BY Zenon DEF signalCallbackHandler, At
<1>3. /\ call'["thread"] = call["thread"]
      /\ call'["handler"].pc = "open" /\ call'["handler"].next = call["handler"].next
  BY <1>1, GoToTyped DEF signalCallbackHandler
<1>4. c = "handler"
  BY <1>3 DEF Active, Callers
<1>5. InOrder("thread") /\ call["thread"].next = 1 /\ call["handler"].next = 1
  <2>1. Active("thread")
    BY <1>2 DEF Active
  <2>2. QED
    BY <1>1, <1>2, <2>1 DEF RecordInv, Apart, Idle
<1>6. UNCHANGED <<m_entries, m_fileCount, m_ofstream, failed, files, parts, opened, fields>>
  BY DEF signalCallbackHandler, stream
<1>7. Rest(c)' = Rest("thread")
  BY <1>3, <1>4, <1>5, <1>6 DEF Rest
<1>8. Handed' = Handed /\ AllFields' = AllFields /\ WholeParts'
  BY <1>5, <1>6 DEF Handed, AllFields, WholeParts, InOrder
<1>9. QED
  BY <1>2, <1>3, <1>4, <1>5, <1>6, <1>7, <1>8 DEF InOrder

\* A step of recordToFile by a caller that is alone.
LEMMA InOrderRecord ==
  ASSUME TypeInv, NEW c \in Callers, InOrder(c), recordToFile(c)
  PROVE  InOrder(c)'
<1>1. /\ TypeOK /\ call \in [Callers -> Calls] /\ call[c] \in Calls
      /\ call[c].next \in Nat /\ Len(m_entries) \in Nat
      /\ files \in Seq(Lines) /\ Len(files) = m_fileCount
      /\ parts \in Seq(Lines) /\ Len(parts) = m_fileCount
      /\ Handed \in Lines /\ m_entries \in Lines
      /\ m_fileCount \in Nat /\ failed \in BOOLEAN /\ opened \subseteq 1..m_fileCount
  BY RecordFacts DEF TypeInv, TypeOK
<1>2. AllFields' = AllFields
  BY DEF recordToFile, openFile, writeEntry, closeFile, clearEntries, AllFields
<1>3. CASE openFile(c)
  <2>1. call'[c].pc = "write" /\ call'[c].next = call[c].next
    BY <1>1, <1>3, GoToTyped DEF openFile
  <2>2. m_ofstream = 0 /\ WholeParts
    BY <1>3 DEF openFile, At, InOrder
  <2>3. PICK succeeds \in BOOLEAN :
          /\ failed' = ~succeeds
          /\ m_ofstream' = IF succeeds THEN m_fileCount + 1 ELSE m_ofstream
          /\ opened' = IF succeeds THEN opened \union {m_fileCount + 1} ELSE opened
    BY <1>3, Zenon DEF openFile
  <2>4. /\ m_fileCount' = m_fileCount + 1
        /\ files' = Append(files, <<>>) /\ parts' = Append(parts, <<>>)
        /\ <<>> \in Lines
    BY <1>3, EmptySeq DEF openFile, NextFile, Lines
  <2>5. Handed' = Handed
    <3>1. FlattenSeq(parts') = FlattenSeq(parts) \o <<>>
      BY <1>1, <2>4, FlattenAppend DEF Lines
    <3>2. QED
      BY <1>1, <3>1, ConcatEmptySeq DEF Handed, Lines
  <2>6. WholeParts'
    <3>1. /\ \A k \in 1..m_fileCount : files'[k] = files[k] /\ parts'[k] = parts[k]
          /\ files'[m_fileCount + 1] = <<>> /\ parts'[m_fileCount + 1] = <<>>
      BY <1>1, <2>4, AppendProperties
    <3>2. ASSUME NEW k \in 1..m_fileCount'
          PROVE  files'[k] = IF k \in opened' THEN parts'[k] ELSE <<>>
      <4>1. CASE k = m_fileCount + 1
        BY <3>1, <4>1
      <4>2. CASE k # m_fileCount + 1
        <5>1. k \in 1..m_fileCount
          BY <1>1, <2>4, <4>2
        <5>2. k \in opened' <=> k \in opened
          BY <2>3, <4>2
        <5>3. files[k] = IF k \in opened THEN parts[k] ELSE <<>>
          BY <2>2, <5>1 DEF WholeParts
        <5>4. QED
          BY <3>1, <5>1, <5>2, <5>3
      <4>3. QED
        BY <4>1, <4>2
    <3>3. QED
      BY <3>2 DEF WholeParts
  <2>7. /\ m_fileCount' # 0
        /\ failed' => m_fileCount' \notin opened'
        /\ ~failed' => m_fileCount' \in opened' /\ m_ofstream' = m_fileCount'
    <3>1. m_fileCount + 1 \notin opened /\ m_fileCount + 1 # 0
      BY <1>1
    <3>2. CASE succeeds
      <4>1. ~failed'
        BY <2>3, <3>2, Zenon
      <4>2. QED
        BY <2>3, <2>4, <3>1, <3>2, <4>1
    <3>3. CASE ~succeeds
      <4>1. failed'
        BY <2>3, <3>3, Zenon
      <4>2. QED
        BY <2>3, <2>4, <3>1, <3>3, <4>1
    <3>4. QED
      BY <3>2, <3>3
  <2>8. Rest(c)' = Rest(c)
    BY <1>3, <2>1 DEF openFile, Rest
  <2>9. QED
    BY <1>1, <1>2, <2>1, <2>5, <2>6, <2>7, <2>8 DEF InOrder
<1>4. CASE writeEntry(c)
  <2>1. call'[c].pc = "write" /\ call'[c].next = call[c].next + 1
    BY <1>1, <1>4 DEF writeEntry, At, Calls
  <2>2. call[c].pc = "write"
    BY <1>4 DEF writeEntry, At
  <2>3. /\ m_fileCount # 0 /\ WholeParts
        /\ failed => m_fileCount \notin opened
        /\ ~failed => m_fileCount \in opened /\ m_ofstream = m_fileCount
    BY <2>2 DEF InOrder
  <2>4. call[c].next \in 1..Len(m_entries)
    <3>1. call[c].next \in 1..(MaxFields + 1)
      BY <1>1 DEF Calls
    <3>2. QED
      BY <1>1, <1>4, <3>1 DEF writeEntry
  <2> DEFINE e == m_entries[call[c].next]
  <2>5. e \in 1..MaxFields
    BY <1>1, <2>4, ElementOfSeq DEF Lines
  <2>6. /\ parts' = [parts EXCEPT ![m_fileCount] = Append(@, e)]
        /\ UNCHANGED <<m_ofstream, m_fileCount, opened>>
    BY <1>4 DEF writeEntry
  <2>7. /\ failed => failed' /\ files' = files
        /\ ~failed => ~failed' /\ files' = [files EXCEPT ![m_fileCount] = Append(@, e)]
    <3>1. failed => failed' /\ files' = files
      BY <1>4, Zenon DEF writeEntry
    <3>2. ASSUME ~failed PROVE ~failed'
      BY <1>4, <2>3, <3>2, Zenon DEF writeEntry
    <3>3. ASSUME ~failed PROVE files' = [files EXCEPT ![m_fileCount] = Append(@, e)]
      BY <1>4, <2>3, <3>2, <3>3 DEF writeEntry
    <3>4. QED
      BY <3>1, <3>2, <3>3
  <2> HIDE DEF e
  <2>8. Handed' = Append(Handed, e)
    <3>1. parts # <<>>
      BY <1>1, <2>3, EmptySeq
    <3>2. QED
      BY <1>1, <2>5, <2>6, <3>1, FlattenLast DEF Handed, Lines
  <2>9. WholeParts'
    <3>1. ASSUME NEW k \in 1..m_fileCount
          PROVE  files'[k] = IF k \in opened THEN parts'[k] ELSE <<>>
      <4>1. files[k] = IF k \in opened THEN parts[k] ELSE <<>>
        BY <2>3 DEF WholeParts
      <4>2. DOMAIN files = 1..m_fileCount /\ DOMAIN parts = 1..m_fileCount
        BY <1>1, LenProperties
      <4>3. k # m_fileCount => parts'[k] = parts[k] /\ files'[k] = files[k]
        BY <2>6, <2>7, <4>2
      <4>4. CASE k = m_fileCount /\ failed
        BY <2>3, <2>7, <4>1, <4>4
      <4>5. CASE k = m_fileCount /\ ~failed
        BY <2>3, <2>6, <2>7, <4>1, <4>2, <4>5
      <4>6. QED
        BY <4>1, <4>3, <4>4, <4>5
    <3>2. QED
      BY <2>6, <3>1 DEF WholeParts
  <2>10. Rest(c)' = SubSeq(m_entries, call[c].next + 1, Len(m_entries))
    BY <1>4, <2>1 DEF writeEntry, Rest
  <2>11. Append(Handed, e)
          \o SubSeq(m_entries, call[c].next + 1, Len(m_entries)) = Handed \o Rest(c)
    BY <1>1, <2>4, MoveOne DEF Lines, Rest, e
  <2>12. (Handed \o Rest(c) = AllFields)'
    BY <1>2, <2>8, <2>10, <2>11 DEF InOrder
  <2>13. QED
    BY <2>1, <2>3, <2>6, <2>7, <2>9, <2>12 DEF InOrder
<1>5. CASE closeFile(c)
  <2>1. call'[c].pc = "clear" /\ call'[c].next = call[c].next
    BY <1>1, <1>5, GoToTyped DEF closeFile
  <2>2. /\ m_ofstream' = 0 /\ call[c].next > Len(m_entries)
        /\ UNCHANGED <<m_entries, m_fileCount, files, parts, opened>>
    BY <1>5 DEF closeFile
  <2>3. Rest(c)' = Rest(c) /\ Handed' = Handed /\ WholeParts'
    BY <2>1, <2>2 DEF Rest, Handed, WholeParts, InOrder
  <2>4. QED
    BY <1>2, <2>1, <2>2, <2>3 DEF InOrder
<1>6. CASE clearEntries(c)
  <2>1. call'[c].next = 1 /\ call'[c].pc \in {"idle", "exited"}
    BY <1>1, <1>6 DEF clearEntries, Idle
  <2>2. /\ m_ofstream = 0 /\ Rest(c) = <<>>
    BY <1>1, <1>6, RecordFacts DEF clearEntries, At, InOrder
  <2>3. /\ m_entries' = <<>>
        /\ UNCHANGED <<m_ofstream, m_fileCount, files, parts, opened>>
    BY <1>6 DEF clearEntries, Cleared, stream
  <2>4. Len(m_entries') = 0
    BY <2>3, EmptySeq
  <2>5. Rest(c)' = <<>>
    BY <2>1, <2>4, SubSeqEmpty DEF Rest
  <2>6. Handed' = Handed /\ WholeParts'
    BY <2>3 DEF Handed, WholeParts, InOrder
  <2>7. (Handed \o Rest(c) = AllFields)'
    BY <1>2, <2>2, <2>5, <2>6 DEF InOrder
  <2>8. QED
    BY <2>1, <2>2, <2>3, <2>4, <2>6, <2>7 DEF InOrder
<1>7. QED
  BY <1>3, <1>4, <1>5, <1>6 DEF recordToFile

\* The inductive step.
LEMMA RecordInvNext == RecordInv /\ [Next]_vars => RecordInv'
<1> SUFFICES ASSUME RecordInv, [Next]_vars PROVE RecordInv'
  OBVIOUS
<1>1. TypeInv /\ Apart /\ TypeInv'
  BY TypeInvNext DEF RecordInv
<1>2. CASE setField \/ signalCallbackHandler \/ Crash
  <2>1. Apart'
    BY <1>1, <1>2, ApartCallers
  <2>2. Crash => overlapped'
    BY DEF Crash
  <2>3. ~overlapped' => \A c \in Callers : Active(c)' => InOrder(c)'
    BY <1>2, <2>2, InOrderSetField, InOrderSignal
  <2>4. QED
    BY <1>1, <2>1, <2>3 DEF RecordInv
<1>3. ASSUME NEW c \in Callers, recordToFile(c) PROVE RecordInv'
  <2>1. /\ Apart' /\ overlapped' = overlapped
        /\ ~overlapped => Active(c) /\ \A d \in Callers : Active(d)' => d = c
    BY <1>1, <1>3, ApartRecord
  <2>2. ~overlapped => InOrder(c)'
    BY <1>1, <1>3, <2>1, InOrderRecord DEF RecordInv
  <2>3. QED
    BY <1>1, <2>1, <2>2 DEF RecordInv
<1>4. CASE UNCHANGED vars
  <2>1. UNCHANGED <<Handed, AllFields>> /\ (WholeParts => WholeParts')
    BY <1>4 DEF vars, stream, Handed, AllFields, WholeParts
  <2>2. \A c \in Callers : Active(c)' = Active(c) /\ UNCHANGED Rest(c)
    BY <1>4 DEF vars, Active, Rest
  <2>3. Apart'
    BY <1>1, <1>4 DEF vars, Apart
  <2>4. \A c \in Callers : InOrder(c) => InOrder(c)'
    BY <1>4, <2>1, <2>2 DEF vars, stream, InOrder
  <2>5. QED
    BY <1>1, <1>4, <2>2, <2>3, <2>4 DEF vars, RecordInv
<1>5. QED
  BY <1>2, <1>3, <1>4 DEF Next

\* Every field that was set is in exactly one part, in order, or still waits in
\* memory; a SIGINT that is served while the thread is outside Measurement
\* leaves none there; and each part is whole in its file unless that file could
\* not be opened (measurements.cpp, setField and recordToFile): for every
\* threshold, any number of fields and files and every outcome of open().
THEOREM EveryFieldRecordedOnce == Spec => []RecordedOnce
<1>1. Init => RecordInv
  <2> SUFFICES ASSUME Init PROVE RecordInv
    OBVIOUS
  <2>1. TypeInv
    BY TypeInvInit
  <2>2. call["thread"] = Idle /\ call["handler"] = Idle /\ ~overlapped
    BY DEF Init, Callers
  <2>3. Apart
    BY <2>2 DEF Apart, Idle
  <2>4. Handed = <<>> /\ m_entries = <<>> /\ AllFields = <<>> /\ WholeParts
    <3>1. AllFields = [k \in 1..0 |-> k] /\ WholeParts
      BY DEF Init, AllFields, WholeParts
    <3>2. QED
      BY <3>1, FlattenEmpty DEF Init, Handed
  <2>5. ASSUME NEW c \in Callers PROVE InOrder(c)
    <3>1. call[c].next = 1 /\ call[c].pc = "idle" /\ m_ofstream = 0
      BY DEF Init, Idle
    <3>2. Rest(c) = <<>>
      BY <2>1, <2>4, <3>1, RecordFacts
    <3>3. QED
      BY <2>4, <3>1, <3>2 DEF InOrder
  <2>6. QED
    BY <2>1, <2>3, <2>5 DEF RecordInv
<1>2. RecordInv => RecordedOnce
  <2> SUFFICES ASSUME RecordInv PROVE RecordedOnce
    OBVIOUS
  <2>1. TypeInv /\ Apart /\ "thread" \in Callers /\ "handler" \in Callers
    BY DEF RecordInv, Callers
  <2>2. ASSUME Quiescent PROVE Handed \o m_entries = AllFields /\ WholeParts
    <3>1. call["handler"] = Idle /\ call["thread"] = Idle
      BY <2>1, <2>2 DEF Quiescent
    <3>2. ~overlapped /\ Active("thread") /\ call["thread"].next = 1
      BY <2>1, <3>1 DEF Apart, Active, Idle
    <3>3. InOrder("thread") /\ Rest("thread") = m_entries
      BY <2>1, <3>2, RecordFacts DEF RecordInv
    <3>4. QED
      BY <3>3 DEF InOrder
  <2>3. ASSUME Exited, ~overlapped PROVE Handed = AllFields /\ WholeParts
    <3>1. Active("handler") /\ call["handler"].pc = "exited"
      BY <2>3 DEF Exited, Active
    <3>2. InOrder("handler")
      BY <2>1, <2>3, <3>1 DEF RecordInv
    <3>3. Rest("handler") = <<>> /\ Handed \in Lines
      BY <2>1, <3>1, <3>2, RecordFacts DEF InOrder
    <3>4. Handed \o <<>> = Handed
      BY <3>3, ConcatEmptySeq DEF Lines
    <3>5. QED
      BY <3>2, <3>3, <3>4 DEF InOrder
  <2>4. QED
    BY <2>2, <2>3 DEF RecordedOnce
<1>3. QED
  BY <1>1, <1>2, RecordInvNext, PTL DEF Spec

============================================================================

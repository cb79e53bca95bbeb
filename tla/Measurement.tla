---------------------------- MODULE Measurement ----------------------------
(***************************************************************************)
(* Measurement (src/measurements.cpp): setField collects entries and, once *)
(* m_saveThreshold of them are there, recordToFile writes them to the next *)
(* file.  The examples' SIGINT handler calls recordToFile as well and then *)
(* exits.  It runs on top of the thread that calls setField or, as the     *)
(* main thread only waits in join(), beside it; so the steps of the two    *)
(* calls interleave in any order, nesting among them.  (push_back is one   *)
(* step.)  Nothing synchronises them: when they overlap, the process may   *)
(* also crash.  Nobody looks at the state of the stream: the lines of a    *)
(* file that cannot be opened are dropped, as the examples' all are, whose *)
(* node name puts the file in a directory that is never created.           *)
(***************************************************************************)
EXTENDS Naturals, Sequences, SequencesExt

CONSTANTS Thresholds,  \* values of m_saveThreshold to look at
          MaxFields,   \* bound: calls of setField
          OpenResults  \* whether a file can be created under its name

ASSUME MeasurementAssumption ==
  Thresholds \subseteq Nat /\ MaxFields \in Nat /\ OpenResults \subseteq BOOLEAN

VARIABLES m_saveThreshold,
          m_entries,   \* the entries in memory, numbered by the calls of setField
          m_fileCount,
          m_ofstream,  \* the number of the open file, 0 if none is open
          failed,      \* the stream's failbit
          files,       \* what has been written to each file
          parts,       \* history: the lines that were to go into each file
          opened,      \* history: the numbers of the files that were opened
          fields,      \* how often setField has been called
          call,        \* [c]: the call of recordToFile that c is in
          overlapped   \* both callers have been in Measurement at once

stream == <<m_ofstream, failed, files, parts, opened>>
vars == <<m_saveThreshold, m_entries, m_fileCount, stream, fields, call, overlapped>>

Callers == {"thread", "handler"}

\* pc: the next thing to do; next: the next entry of the loop.
Calls == [pc : {"idle", "open", "write", "clear", "exited"},
          next : 1..(MaxFields + 1)]

Idle == [pc |-> "idle", next |-> 1]

\* The process has exited.
Exited == call["handler"].pc = "exited"

TypeOK ==
  /\ m_saveThreshold \in Thresholds
  /\ m_entries \in Seq(1..MaxFields)
  /\ m_fileCount \in Nat
  /\ m_ofstream \in 0..m_fileCount
  /\ failed \in BOOLEAN
  /\ files \in [1..m_fileCount -> Seq(1..MaxFields)]
  /\ parts \in [1..m_fileCount -> Seq(1..MaxFields)]
  /\ opened \subseteq 1..m_fileCount
  /\ fields \in 0..MaxFields
  /\ call \in [Callers -> Calls]
  /\ overlapped \in BOOLEAN

Init ==
  /\ m_saveThreshold \in Thresholds
  /\ m_entries = <<>>
  /\ m_fileCount = 0
  /\ m_ofstream = 0
  /\ failed = FALSE
  /\ files = <<>>
  /\ parts = <<>>
  /\ opened = {}
  /\ fields = 0
  /\ call = [c \in Callers |-> Idle]
  /\ overlapped = FALSE

At(c, pc) == ~Exited /\ call[c].pc = pc
GoTo(c, pc) == call' = [call EXCEPT ![c].pc = pc]

----------------------------------------------------------------------------
(* The two callers. *)

\* Mutant: the size is compared before the entry is added.
AtThreshold_late(entries) == Len(entries) - 1 >= m_saveThreshold
AtThreshold(entries) == Len(entries) >= m_saveThreshold

\* push_back, and the call of recordToFile at the threshold.
setField ==
  /\ At("thread", "idle")
  /\ fields < MaxFields
  /\ fields' = fields + 1
  /\ m_entries' = Append(m_entries, fields + 1)
  /\ GoTo("thread", IF AtThreshold(m_entries') THEN "open" ELSE "idle")
  /\ overlapped' = (overlapped \/ ~At("handler", "idle"))
  /\ UNCHANGED <<m_saveThreshold, m_fileCount, stream>>

signalCallbackHandler ==
  /\ At("handler", "idle")
  /\ GoTo("handler", "open")
  /\ overlapped' = (overlapped \/ ~At("thread", "idle"))
  /\ UNCHANGED <<m_saveThreshold, m_entries, m_fileCount, stream, fields>>

\* What unsynchronised accesses to the vector and the stream may end in.
Crash ==
  /\ overlapped /\ ~Exited
  /\ GoTo("handler", "exited")
  /\ UNCHANGED <<m_saveThreshold, m_entries, m_fileCount, stream, fields, overlapped>>

----------------------------------------------------------------------------
(* recordToFile, called by c. *)

\* Mutant: the file counter is not advanced.
NextFile_same == m_fileCount
NextFile == m_fileCount + 1

\* A new name, and the header.  open() fails on a stream that is open, and
\* where the file cannot be created; then the failbit is set and no file is
\* made (its entry of files stays empty).
openFile(c) ==
  /\ At(c, "open")
  /\ m_fileCount' = NextFile
  /\ files' = Append(files, <<>>)
  /\ parts' = Append(parts, <<>>)
  /\ \E created \in OpenResults :
       LET succeeds == created /\ m_ofstream = 0
       IN  /\ failed' = ~succeeds
           /\ m_ofstream' = IF succeeds THEN m_fileCount + 1 ELSE m_ofstream
           /\ opened' = IF succeeds THEN opened \union {m_fileCount + 1} ELSE opened
  /\ GoTo(c, "write")
  /\ UNCHANGED <<m_saveThreshold, m_entries, fields, overlapped>>

\* One line; a stream that has failed or has been closed takes none.
writeEntry(c) ==
  /\ At(c, "write")
  /\ call[c].next <= Len(m_entries)
  /\ failed' = (failed \/ m_ofstream = 0)
  /\ files' = IF failed' THEN files
              ELSE [files EXCEPT ![m_ofstream] = Append(@, m_entries[call[c].next])]
  /\ parts' = [parts EXCEPT ![m_fileCount] = Append(@, m_entries[call[c].next])]
  /\ call' = [call EXCEPT ![c].next = @ + 1]
  /\ UNCHANGED <<m_saveThreshold, m_entries, m_fileCount, m_ofstream, opened, fields,
                 overlapped>>

\* Closing a stream that is not open sets its failbit.
closeFile(c) ==
  /\ At(c, "write")
  /\ call[c].next > Len(m_entries)
  /\ m_ofstream' = 0
  /\ failed' = (failed \/ m_ofstream = 0)
  /\ GoTo(c, "clear")
  /\ UNCHANGED <<m_saveThreshold, m_entries, m_fileCount, files, parts, opened, fields,
                 overlapped>>

\* Mutant: the vector keeps its entries.
Cleared_keeps == m_entries
Cleared == <<>>

\* The vector is cleared, whatever the stream says, and the call returns;
\* after the handler's the process exits.
clearEntries(c) ==
  /\ At(c, "clear")
  /\ m_entries' = Cleared
  /\ call' = [call EXCEPT ![c] = IF c = "handler" THEN [Idle EXCEPT !.pc = "exited"]
                                                  ELSE Idle]
  /\ UNCHANGED <<m_saveThreshold, m_fileCount, stream, fields, overlapped>>

recordToFile(c) == openFile(c) \/ writeEntry(c) \/ closeFile(c) \/ clearEntries(c)

Next == setField \/ signalCallbackHandler \/ Crash \/ \E c \in Callers : recordToFile(c)

Spec == Init /\ [][Next]_vars

----------------------------------------------------------------------------
(* Properties. *)

Recorded == FlattenSeq(files)
Handed == FlattenSeq(parts)
AllFields == [k \in 1..fields |-> k]
Quiescent == \A c \in Callers : call[c] = Idle

\* A file that was opened holds all of its part, the others nothing.
WholeParts ==
  \A k \in 1..m_fileCount : files[k] = IF k \in opened THEN parts[k] ELSE <<>>

\* Every field that was set belongs to exactly one part, in order, or still
\* waits in memory; a SIGINT that is served while the thread is outside
\* Measurement leaves none in memory; and each part is in its file, once and
\* in order, unless that file could not be opened: those parts are lost whole
\* (recordToFile does not look at the stream before it clears the vector), and
\* they are the only ones.
RecordedOnce ==
  /\ Quiescent => Handed \o m_entries = AllFields /\ WholeParts
  /\ Exited /\ ~overlapped => Handed = AllFields /\ WholeParts

\* What the handler is there for: when the process exits after SIGINT, every
\* field is in the files, once ("Saved to file and cleared the vector").
ExitSavesEverything == Exited => Recorded = AllFields

\* Memory holds fewer entries than the threshold whenever setField returns, so
\* an exit without SIGINT loses fewer than that many.
BufferIsBounded ==
  Quiescent => Len(m_entries) < m_saveThreshold \/ m_entries = <<>>

============================================================================

------------------------------ MODULE LogReader ------------------------------
(***************************************************************************)
(* The log file receiver (LogReader_receiver.cc): twice a second a thread  *)
(* opens a file that other programs append to, looks for a line with the   *)
(* mark from where it was before, and turns what follows into one message. *)
(* The text that follows ends at the next mark or at the end of the file:  *)
(* where a line of text has the mark itself, the reader takes it for the   *)
(* end of the message.                                                     *)
(***************************************************************************)
EXTENDS LogFile, ReceiverThreads

CONSTANTS
  FileOf,       \* FileOf[r]: filename_ of receiver r
  HeadFits      \* whether the first lines of messages match metadata_1

VARIABLES
  pos,          \* pos[r]: pos_, as the number of lines before it
  counter,      \* counter[r]: counter_
  emitted       \* emitted[r]: what r has emitted so far

readerVars == <<pos, counter, emitted>>
vars == <<logVars, threadVars, readerVars>>

Severities == {"SDEBUG", "SINFO", "SWARNING", "SERROR"}

\* Each receiver has a file that messages are written to, or were.
ASSUME LogReaderAssumption ==
  /\ FileOf \in [Configured -> FileNames]
  /\ \A m \in Msgs : m.sev \in Severities

TypeOK ==
  /\ ThreadsTypeOK
  /\ outputs \subseteq DOMAIN file /\ DOMAIN file \subseteq FileNames
  /\ \A r \in Configured :
       /\ pos[r] \in 0 .. (IF FileOf[r] \in DOMAIN file THEN Len(file[FileOf[r]]) ELSE 0)
       /\ counter[r] = Len(emitted[r])
       /\ \A i \in DOMAIN emitted[r] : emitted[r][i].sev \in Severities

Init ==
  /\ LogInit /\ ThreadsInit
  /\ pos = [r \in Configured |-> 0]
  /\ counter = [r \in Configured |-> 0]
  /\ emitted = [r \in Configured |-> <<>>]

-----------------------------------------------------------------------------
(* run() and read_next().                                                  *)

\* The first line after the first n that has the mark; 0 if there is none.
NextMark(lines, n) ==
  LET marked == {i \in DOMAIN lines : i > n /\ lines[i].mark}
  IN  IF marked = {} THEN 0 ELSE CHOOSE i \in marked : \A j \in marked : i <= j

\* The line that ends the text, which is read with it: the next mark's, or the
\* last of the file.
EndOf(lines, head) ==
  IF NextMark(lines, head) = 0 THEN Len(lines) ELSE NextMark(lines, head)

\* Mutation: everything after the first line is the text.
TextToEnd(lines, head) == SubSeq(lines, head + 1, Len(lines))

TextOf(lines, head) ==
  SubSeq(lines, head + 1, IF NextMark(lines, head) = 0 THEN Len(lines)
                                                       ELSE NextMark(lines, head) - 1)

\* read_next(), with the header in line head.  The body is these lines, one after the
\* other without the line breaks.
ReadNext(lines, head) ==
  [msg  |-> lines[head].msg,
   kind |-> lines[head].kind,
   sev  |-> IF lines[head].kind = "head" /\ HeadFits THEN lines[head].msg.sev
                                                    ELSE "SERROR",
   text |-> TextOf(lines, head)]

\* Mutation: back to the end of the file.
PassToEnd(r) ==
  LET lines == file[FileOf[r]]
      head == NextMark(lines, pos[r])
  IN  /\ r \in running /\ ~stopRequested[r]
      /\ FileOf[r] \in DOMAIN file
      /\ head # 0
      /\ Emit(ReadNext(lines, head))
      /\ emitted' = [emitted EXCEPT ![r] = Append(@, ReadNext(lines, head))]
      /\ counter' = [counter EXCEPT ![r] = @ + 1]
      /\ pos' = [pos EXCEPT ![r] = Len(lines)]
      /\ UNCHANGED <<logVars, receivers, stopRequested, running, manager, shown>>

\* A pass that finds a message.
PassFound(r) ==
  LET lines == file[FileOf[r]]
      head == NextMark(lines, pos[r])
  IN  /\ r \in running /\ ~stopRequested[r]
      /\ FileOf[r] \in DOMAIN file
      /\ head # 0
      /\ Emit(ReadNext(lines, head))
      /\ emitted' = [emitted EXCEPT ![r] = Append(@, ReadNext(lines, head))]
      /\ counter' = [counter EXCEPT ![r] = @ + 1]
      /\ pos' = [pos EXCEPT ![r] = EndOf(lines, head)]
      /\ UNCHANGED <<logVars, receivers, stopRequested, running, manager, shown>>

\* A pass without a mark: everything up to the end has been read.
PassNothing(r) ==
  LET lines == file[FileOf[r]]
  IN  /\ r \in running /\ ~stopRequested[r]
      /\ FileOf[r] \in DOMAIN file
      /\ NextMark(lines, pos[r]) = 0
      /\ pos' = [pos EXCEPT ![r] = IF @ > Len(lines) THEN @ ELSE Len(lines)]
      /\ UNCHANGED <<logVars, threadVars, counter, emitted>>

\* The file cannot be opened: the pass does nothing.
PassMissing(r) ==
  /\ r \in running /\ ~stopRequested[r]
  /\ FileOf[r] \notin DOMAIN file
  /\ UNCHANGED vars

Leave(r) ==
  /\ r \in running /\ stopRequested[r]
  /\ Return(r)
  /\ UNCHANGED <<logVars, receivers, stopRequested, manager, posted, shown, readerVars>>

Loop(r) == PassFound(r) \/ PassNothing(r) \/ PassMissing(r) \/ Leave(r)

Next ==
  \/ \E m \in Msgs : Route(m) /\ UNCHANGED <<threadVars, readerVars>>
  \/ WriteLine /\ UNCHANGED <<threadVars, readerVars>>
  \/ ManagerNext /\ UNCHANGED <<logVars, readerVars>>
  \/ \E r \in Configured : Loop(r)

\* The receivers' threads run, and the GUI thread goes on while it stops them.
Spec ==
  /\ Init /\ [][Next]_vars
  /\ \A r \in Loadable : WF_vars(Loop(r))
  /\ WF_vars(Stopped /\ UNCHANGED <<logVars, readerVars>>)

-----------------------------------------------------------------------------
MessagesOf(r) == [i \in DOMAIN emitted[r] |-> emitted[r][i].msg]

\* The receivers of files that can be told apart into messages: no line of text has
\* the mark, and no message is written line by line.
InStep ==
  {r \in Configured :
     \A m \in Msgs :
       \/ FileName(m) = FileOf[r]
       \/ FileOf[r] \in DOMAIN Old /\ m \in Range(Old[FileOf[r]])
       => m.marks = {} /\ m \notin ByLine}

Log == INSTANCE LogTail WITH
         Readers <- InStep,
         written <- [r \in InStep |-> written[FileOf[r]]],
         read <- [r \in InStep |-> MessagesOf(r)]

\* Each receiver of a file without a mark in the text of its messages reads them once
\* each and in order, also those that were there before, and takes nothing else for a
\* message; that the thread closes the file between two messages, and opens it wherever
\* the program that writes has got to, makes no difference.
ReadsEachOnce == Log!Spec

\* From such a file a message comes out with its severity if its first line has the
\* format the reader knows, and with every line of its text and nothing of another's.
ReadsWhole ==
  \A r \in InStep : \A i \in DOMAIN emitted[r] :
    LET e == emitted[r][i]
    IN  /\ e.kind = "head"
        /\ HeadFits => e.sev = e.msg.sev
        /\ Range(e.text) \subseteq Range(Layout[e.msg])
        /\ Cardinality({j \in DOMAIN e.text : e.text[j].kind = "text"})
             = IF "TEXT" \in Wants THEN e.msg.lines ELSE 0

\* Whatever is written to such a file is read, unless the receiver is stopped first: a
\* reader that gets one message per pass still catches up.
CatchesUp ==
  \A r \in Loadable \cap InStep :
    r \in running ~> (MessagesOf(r) = written[FileOf[r]] \/ manager # "started")

\* The state is sound, also of receivers that are out of step, and a message that is
\* read from a file without marks in texts is whole
\* (LogReader_receiver.cc:26-151).
ReaderInv == TypeOK /\ ReadsWhole
=============================================================================

------------------------------- MODULE LogFile -------------------------------
(***************************************************************************)
(* Log files as the destinations write them.  MultiFile_mfPlugin.cc        *)
(* appends each message to a file chosen by the message's origin;          *)
(* Friendly_mfPlugin.cc shows the layout of a message.  A file is a        *)
(* sequence of lines, and a line says which message it is from and whether *)
(* it has the mark "%MSG" in it.                                           *)
(***************************************************************************)
EXTENDS Integers, Sequences, SequencesExt, FiniteSets

CONSTANTS
  Msgs,         \* the messages; each has a severity, a number of lines of text, of
                \* which those in marks have "%MSG" in them, and an origin: its
                \* module, category, application and host
  Uses,         \* which parts of the origin the names of files are made of
  Appends,      \* append_
  Wants,        \* what the configured format includes
  Old,          \* Old[f]: the messages in file f when the program starts
  ByLine        \* the messages whose lines reach the file one by one, as with a
                \* program that flushes after each line

Parts == {"module", "category", "application", "host"}
FormatOptions == {"EPILOGUE_SEPARATE", "MODULE", "SUBROUTINE", "TIMESTAMP",
                  "TIME_SEPARATE", "TEXT", "NO_LINE_BREAKS"}

ASSUME LogFileAssumption ==
  /\ Uses \subseteq Parts /\ Wants \subseteq FormatOptions
  /\ Appends \in BOOLEAN /\ ByLine \subseteq Msgs
  /\ \A f \in DOMAIN Old : Old[f] \in Seq(Msgs)
  /\ \A m \in Msgs : m.lines \in Nat /\ m.marks \subseteq 1 .. m.lines

VARIABLES
  file,         \* the lines of each file there is
  outputs,      \* outputs_: the files that are open
  unflushed,    \* lines on their way to a file: [file, lines]
  written       \* the messages written to each file so far

logVars == <<file, outputs, unflushed, written>>

\* The name of a message's file; the process's number, which ends it, is the same
\* for all.
FileName(m) == [p \in Uses |-> m.origin[p]]

FileNames == {FileName(m) : m \in Msgs} \cup DOMAIN Old

-----------------------------------------------------------------------------
(* The layout of a message.                                                *)

Line(m, kind) == [msg |-> m, kind |-> kind, mark |-> kind \in {"head", "trailer"}]

\* The i-th line of a message's text, in which the mark may be found too.
TextLine(m, i) == [msg |-> m, kind |-> "text", mark |-> i \in m.marks]

LineKinds == {"head", "epilogue", "stamp", "text", "trailer"}
Lines == [msg : Msgs, kind : LineKinds, mark : BOOLEAN]

\* fillPrefix(): the first line has the mark, severity and category; the module
\* and the time stamp may be on lines of their own.
Prefix(m) ==
  <<Line(m, "head")>>
  \o (IF /\ "EPILOGUE_SEPARATE" \in Wants
         /\ \/ m.origin["module"] # ""
            \/ "TIMESTAMP" \in Wants /\ "TIME_SEPARATE" \notin Wants
      THEN <<Line(m, "epilogue")>> ELSE <<>>)
  \o (IF {"TIMESTAMP", "TIME_SEPARATE"} \subseteq Wants
      THEN <<Line(m, "stamp")>> ELSE <<>>)

\* fillUsrMsg(): the text follows on lines of its own, or on the line before.
UsrMsg(m) ==
  LET joined == IF "NO_LINE_BREAKS" \in Wants THEN 1 ELSE 0
  IN  IF "TEXT" \notin Wants THEN <<>>
      ELSE [i \in 1 .. m.lines - joined |-> TextLine(m, i + joined)]

\* fillSuffix(): a line with nothing but the mark.
Suffix(m) == IF "NO_LINE_BREAKS" \in Wants THEN <<>> ELSE <<Line(m, "trailer")>>

Layout == [m \in Msgs |-> Prefix(m) \o UsrMsg(m) \o Suffix(m)]

LinesOf(ms) ==
  LET lines[i \in 0 .. Len(ms)] ==
        IF i = 0 THEN <<>> ELSE lines[i - 1] \o Layout[ms[i]]
  IN  lines[Len(ms)]

-----------------------------------------------------------------------------
LogInit ==
  /\ file = [f \in DOMAIN Old |-> LinesOf(Old[f])]
  /\ outputs = {}
  /\ unflushed = <<>>
  /\ written = [f \in FileNames |-> IF f \in DOMAIN Old THEN Old[f] ELSE <<>>]

\* What is in the file once it is open for output.
Opened(f) ==
  IF f \in DOMAIN file /\ (f \in outputs \/ Appends) THEN file[f] ELSE <<>>

With(f, lines) == [g \in DOMAIN file \cup {f} |-> IF g = f THEN lines ELSE file[g]]

\* routePayload(): the file is opened at its first message, the message written
\* and the files flushed.
Route(m) ==
  LET f == FileName(m)
  IN  /\ unflushed = <<>>
      /\ m \notin UNION {Range(written[g]) : g \in FileNames}
      /\ outputs' = outputs \cup {f}
      /\ written' = [written EXCEPT ![f] =
                       Append(IF f \in outputs \/ Appends THEN @ ELSE <<>>, m)]
      /\ \/ /\ m \notin ByLine
            /\ file' = With(f, Opened(f) \o Layout[m])
            /\ UNCHANGED unflushed
         \/ /\ m \in ByLine
            /\ file' = With(f, Opened(f) \o <<Head(Layout[m])>>)
            /\ unflushed' = Tail(Layout[m])

\* The next line of the message reaches its file.
WriteLine ==
  /\ unflushed # <<>>
  /\ LET f == FileName(Head(unflushed).msg)
     IN  file' = With(f, file[f] \o <<Head(unflushed)>>)
  /\ unflushed' = Tail(unflushed)
  /\ UNCHANGED <<outputs, written>>
=============================================================================

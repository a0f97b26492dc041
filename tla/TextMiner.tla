----------------------------- MODULE TextMiner -----------------------------
(***************************************************************************)
(* The document pipeline: TSimpleTextMiner::Run in several threads         *)
(* (simpletextminerlib/simpleprocessor.cpp), with CProcessor as their      *)
(* common input and output (textminerlib/processor.cpp), documents read    *)
(* from a folder (common/docreaders), and the writers of the results       *)
(* (afdocparser/rusie, common/simplexmlwriter.cpp).                        *)
(*                                                                         *)
(* A miner is one TSimpleTextMiner; that each runs exactly once, and that  *)
(* Run returns when all have returned, is the subject of module MtpTask.   *)
(* A document is its number in the folder.  What a writer's output holds   *)
(* is a sequence of documents, one cell each; 0 stands for what was in the *)
(* file before the program started.  What a stream has taken counts as     *)
(* written, its own buffer included.  The tags around the documents of an  *)
(* XML file are left out.                                                  *)
(***************************************************************************)
EXTENDS Naturals, Sequences, FiniteSets, SequencesExt

CONSTANTS
    Miners,         \* names for the miners
    DocCount,       \* number of the documents in the folder
    DocKinds,       \* what can be wrong with a document, see kind below
    Setups,         \* the parameters the program may be started with
    MaxFailures,    \* bound on the writes that fail
    MaxWarnings,    \* bound on the messages about documents that succeed
    None            \* nobody, nothing

Docs == 1..DocCount

ASSUME MinerAssumption ==
    /\ IsFiniteSet(Miners) /\ None \notin Miners
    /\ DocCount \in Nat /\ MaxFailures \in Nat /\ MaxWarnings \in Nat
    /\ DocKinds \subseteq {"good", "empty", "skipped", "failing", "throws"}
    /\ \A s \in Setups :
          /\ s.miners \subseteq Miners /\ s.miners # {}
          /\ s.format \in {"xml", "proto", "json", "text"}
          /\ s.mode \in {"unset", "append", "overwrite"}
          /\ s.old \in Seq({0})
          /\ {s.articles, s.dump, s.pretty} \subseteq BOOLEAN

VARIABLES
    setup,            \* the parameters
    kind,             \* of each document: "good", without facts, not readable,
                      \* its analysis fails, or GetNextDocInfo throws
    writers,          \* the writers, in the order of OutputFacts
    m_iCurPath,       \* the next document of the folder
    DocBody, InputLock, OutputLock, Resolved,
    mpc,              \* where each miner is in Run
    docAttr, text,    \* the miner's document: its attributes and its text
    writer,           \* the miner's place in OutputFacts
    ErrorStream,      \* the messages in the miner's stream
    Errors,           \* what OutputError has been given
    done,             \* documents whose OutputFacts has returned true
    saved,            \* what SaveToFile has saved of the pretty output
    failures, warnings

inputVars == <<m_iCurPath, DocBody, InputLock, docAttr, text>>
outputVars == <<OutputLock, writers, writer, done>>
errorVars == <<ErrorStream, Errors>>
params == <<setup, kind>>
bounds == <<failures, warnings>>
vars == <<params, inputVars, outputVars, errorVars, Resolved, mpc, saved, bounds>>

Goto(m, pc) == mpc' = [mpc EXCEPT ![m] = pc]

-----------------------------------------------------------------------------
(* The writers.  Each has the cells of its output, the place of the next   *)
(* one, and the documents it has prepared and not yet written: the         *)
(* children of the XML root, or Documents of the protobuf writer, which    *)
(* also writes JSON.  Nobody but the observer knows what is lost.          *)

\* The mode counts only when it is given.
IsAppendFdo(s) == s.mode = "append"

Writer(k, append, cells, at) ==
    [kind |-> k, append |-> append, cells |-> cells, at |-> at, prepared |-> <<>>,
     lost |-> {}]

\* The XML writer opens a file to append to and stays at its start; the
\* protobuf writer opens it for appending; both truncate it otherwise.  The
\* text writer opens the file for every document.
MainWriter(s) ==
    CASE s.format = "xml" ->
            Writer("xml", IsAppendFdo(s), IF IsAppendFdo(s) THEN s.old ELSE <<>>, 0)
      [] s.format \in {"proto", "json"} ->
            LET kept == IF IsAppendFdo(s) THEN s.old ELSE <<>>
            IN  Writer(s.format, IsAppendFdo(s), kept, Len(kept))
      [] s.format = "text" ->
            Writer("text", IsAppendFdo(s), s.old, Len(s.old))

\* The text that the parser options ask for goes to a file of its own.
InitOutput(s) ==
    <<MainWriter(s)>>
        \o (IF s.dump /\ s.format # "text" THEN <<Writer("text", FALSE, <<>>, 0)>> ELSE <<>>)
        \o (IF s.pretty THEN <<Writer("pretty", TRUE, <<>>, 0)>> ELSE <<>>)

\* The cells of w once the documents ds are written at its place.
Put(w, ds) ==
    [i \in 1 .. IF w.at + Len(ds) > Len(w.cells) THEN w.at + Len(ds) ELSE Len(w.cells) |->
        IF i \in (w.at + 1) .. (w.at + Len(ds)) THEN ds[i - w.at] ELSE w.cells[i]]

Wrote(w, ds) == [w EXCEPT !.cells = Put(w, ds), !.at = w.at + Len(ds)]

\* Faulty variant: what was prepared is not forgotten.
FlushedAgain(w, d) ==
    LET ds == Append(w.prepared, d)
    IN  [Wrote(w, ds) EXCEPT !.prepared = ds]

\* What was prepared is written with d, one after the other, and then forgotten.
Flushed(w, d) == [Wrote(w, Append(w.prepared, d)) EXCEPT !.prepared = <<>>]

\* The stream throws after k of them: nothing is forgotten.
Broken(w, d, k) ==
    LET ds == Append(w.prepared, d)
    IN  [Wrote(w, SubSeq(ds, 1, k)) EXCEPT !.prepared = ds]

\* The stream throws after k of them and the adaptor between protobuf and the
\* stream keeps the exception: the others are not written, and all are forgotten.
Dropped(w, d, k) ==
    LET ds == Append(w.prepared, d)
    IN  [Wrote(w, SubSeq(ds, 1, k)) EXCEPT
            !.prepared = <<>>, !.lost = @ \cup {ds[i] : i \in (k + 1) .. Len(ds)}]

\* The text file is opened for each document, and truncated unless the
\* document is to be appended; the place is then the end of the file.
Opened(w) ==
    LET cells == IF w.append THEN w.cells ELSE <<>>
    IN  [w EXCEPT !.cells = cells, !.at = Len(cells)]

\* To append to a text file it must be there.
CannotOpen(w) == w.kind = "text" /\ w.append /\ w.cells = <<>>

\* AddFacts returns at once when there are no facts; the text and the pretty
\* output have every document.
Ignores(w, d) == w.kind \in {"xml", "proto", "json"} /\ kind[d] = "empty"

\* AddFacts or AddDocument of w returns.
Written(w, d) ==
    CASE Ignores(w, d) -> w
      [] w.kind = "text" -> Flushed(Opened(w), d)
      [] w.kind # "text" /\ ~Ignores(w, d) -> Flushed(w, d)

\* It throws.  The protobuf writer has entered the document into Documents
\* before it is filled; the XML writer adds it to the root when it is complete.
\* Both forget the documents only when the stream has taken them all.  Of the
\* other outputs part of the document may be there.
Failed(w, d) ==
    LET broken == {Broken(w, d, k) : k \in 0 .. (Len(w.prepared) + 1)}
    IN  CASE Ignores(w, d) -> {}
          [] w.kind = "proto" /\ ~Ignores(w, d) -> {Broken(w, d, 0)}
          [] w.kind = "json" /\ ~Ignores(w, d) -> broken
          [] w.kind = "xml" /\ ~Ignores(w, d) -> {w} \cup broken
          [] w.kind = "text" /\ CannotOpen(w) -> {w}
          [] w.kind = "text" /\ ~CannotOpen(w) -> {Opened(w), Written(w, d)}
          [] w.kind = "pretty" -> {w, Written(w, d)}

\* The stream fails, and AddFacts of the protobuf writer returns all the same.
Unnoticed(w, d) ==
    {Dropped(w, d, k) : k \in {i \in 0 .. Len(w.prepared) : w.kind = "proto" /\ ~Ignores(w, d)}}

-----------------------------------------------------------------------------
Init ==
    /\ setup \in Setups
    /\ kind \in [Docs -> DocKinds]
    /\ writers = InitOutput(setup)
    /\ m_iCurPath = 1 /\ DocBody = None
    /\ InputLock = None /\ OutputLock = None /\ Resolved = FALSE
    /\ mpc = [m \in Miners |-> IF m \in setup.miners THEN "input" ELSE "stopped"]
    /\ docAttr = [m \in Miners |-> None]
    /\ text = [m \in Miners |-> None]
    /\ writer = [m \in Miners |-> 0]
    /\ ErrorStream = [m \in Miners |-> <<>>]
    /\ Errors = <<>>
    /\ done = {}
    /\ saved = None
    /\ failures = 0 /\ warnings = 0

Message(m, what) ==
    ErrorStream' = [ErrorStream EXCEPT ![m] = Append(@, <<what, docAttr[m]>>)]

-----------------------------------------------------------------------------
(* DoInput of miner m: NextDocument.                                       *)

\* Faulty variant: the guard is missing.
LockNothing(m) == UNCHANGED InputLock

LockInput(m) == InputLock = None /\ InputLock' = m

NextDocument(m) ==
    /\ mpc[m] = "input"
    /\ LockInput(m)
    /\ Goto(m, "info")
    /\ UNCHANGED <<params, m_iCurPath, DocBody, docAttr, text, outputVars, errorVars,
                   Resolved, saved, bounds>>

\* The end of the folder: false.
NoNextDoc(m) ==
    /\ mpc[m] = "info"
    /\ m_iCurPath > DocCount
    /\ InputLock' = None
    /\ Goto(m, "stopped")
    /\ UNCHANGED <<params, m_iCurPath, DocBody, docAttr, text, outputVars, errorVars,
                   Resolved, saved, bounds>>

\* GetNextDocInfo throws before it has gone on to the next document: the
\* message goes to the miner's stream and the miner stops.
InputThrows(m) ==
    /\ mpc[m] = "info"
    /\ m_iCurPath \in Docs
    /\ kind[m_iCurPath] = "throws"
    /\ InputLock' = None
    /\ Message(m, "input")
    /\ Goto(m, "stopped")
    /\ UNCHANGED <<params, m_iCurPath, DocBody, docAttr, text, outputVars, Errors,
                   Resolved, saved, bounds>>

GetNextDocInfo(m) ==
    /\ mpc[m] = "info"
    /\ m_iCurPath \in Docs
    /\ kind[m_iCurPath] # "throws"
    /\ docAttr' = [docAttr EXCEPT ![m] = m_iCurPath]
    /\ m_iCurPath' = m_iCurPath + 1
    /\ DocBody' = None
    /\ Goto(m, "body")
    /\ UNCHANGED <<params, InputLock, text, outputVars, errorVars, Resolved, saved, bounds>>

\* A document that cannot be read or has no known charset is passed over.
GetDocBodyByAdress(m) ==
    /\ mpc[m] = "body"
    /\ IF kind[docAttr[m]] = "skipped"
       THEN UNCHANGED DocBody /\ Goto(m, "info")
       ELSE DocBody' = docAttr[m] /\ Goto(m, "copy")
    /\ UNCHANGED <<params, m_iCurPath, InputLock, docAttr, text, outputVars, errorVars,
                   Resolved, saved, bounds>>

CopyBody(m) ==
    /\ mpc[m] = "copy"
    /\ text' = [text EXCEPT ![m] = DocBody]
    /\ InputLock' = None
    /\ Goto(m, "resolve")
    /\ UNCHANGED <<params, m_iCurPath, DocBody, docAttr, outputVars, errorVars,
                   Resolved, saved, bounds>>

-----------------------------------------------------------------------------
(* DoProcess: ProcessString.  The options are shared by the miners.        *)

ResolveOptionArticles(m) ==
    /\ mpc[m] = "resolve"
    /\ Goto(m, IF Resolved THEN "proceed" ELSE "insert")
    /\ UNCHANGED <<params, inputVars, outputVars, errorVars, Resolved, saved, bounds>>

\* The articles, if there are any, have been inserted into the sets.
ResolveEnds(m) ==
    /\ mpc[m] = "insert"
    /\ Resolved' = TRUE
    /\ Goto(m, "proceed")
    /\ UNCHANGED <<params, inputVars, outputVars, errorVars, saved, bounds>>

\* Proceed returns, perhaps after messages about some of the sentences.
Proceed(m) ==
    /\ mpc[m] = "proceed"
    /\ kind[text[m]] \in {"good", "empty"}
    /\ Goto(m, "output")
    /\ \/ UNCHANGED <<ErrorStream, warnings>>
       \/ /\ warnings < MaxWarnings
          /\ warnings' = warnings + 1
          /\ Message(m, "warning")
    /\ UNCHANGED <<params, inputVars, outputVars, Errors, Resolved, saved, failures>>

ProceedThrows(m) ==
    /\ mpc[m] = "proceed"
    /\ kind[text[m]] = "failing"
    /\ Message(m, "failed")
    /\ Goto(m, "report")
    /\ UNCHANGED <<params, inputVars, outputVars, Errors, Resolved, saved, bounds>>

-----------------------------------------------------------------------------
(* DoOutput: OutputFacts.                                                  *)

OutputFacts(m) ==
    /\ mpc[m] = "output"
    /\ OutputLock = None
    /\ OutputLock' = m
    /\ writer' = [writer EXCEPT ![m] = 1]
    /\ Goto(m, "write")
    /\ UNCHANGED <<params, inputVars, writers, done, errorVars, Resolved, saved, bounds>>

\* The next writer takes the document.
Write(m) ==
    /\ mpc[m] = "write"
    /\ writer[m] <= Len(writers)
    /\ ~CannotOpen(writers[writer[m]])
    /\ writers' = [writers EXCEPT ![writer[m]] = Written(@, text[m])]
    /\ writer' = [writer EXCEPT ![m] = @ + 1]
    /\ UNCHANGED <<params, inputVars, OutputLock, done, errorVars, Resolved, mpc, saved, bounds>>

\* It takes it, but its stream does not.
WriteUnnoticed(m) ==
    /\ mpc[m] = "write"
    /\ writer[m] <= Len(writers)
    /\ failures < MaxFailures
    /\ failures' = failures + 1
    /\ \E w \in Unnoticed(writers[writer[m]], text[m]) :
          writers' = [writers EXCEPT ![writer[m]] = w]
    /\ writer' = [writer EXCEPT ![m] = @ + 1]
    /\ UNCHANGED <<params, inputVars, OutputLock, done, errorVars, Resolved, mpc, saved,
                   warnings>>

\* Faulty variant: the lock is not given back.
WriteThrowsLocked(m) ==
    /\ mpc[m] = "write"
    /\ writer[m] <= Len(writers)
    /\ \/ CannotOpen(writers[writer[m]]) /\ UNCHANGED failures
       \/ failures < MaxFailures /\ failures' = failures + 1
    /\ Message(m, "failed")
    /\ Goto(m, "report")
    /\ UNCHANGED <<params, inputVars, outputVars, Errors, Resolved, saved, warnings>>

\* It throws: the later ones do not get the document.
WriteThrows(m) ==
    /\ mpc[m] = "write"
    /\ writer[m] <= Len(writers)
    /\ \/ CannotOpen(writers[writer[m]]) /\ UNCHANGED failures
       \/ failures < MaxFailures /\ failures' = failures + 1
    /\ \E w \in Failed(writers[writer[m]], text[m]) :
          writers' = [writers EXCEPT ![writer[m]] = w]
    /\ OutputLock' = None
    /\ Message(m, "failed")
    /\ Goto(m, "report")
    /\ UNCHANGED <<params, inputVars, writer, done, Errors, Resolved, saved, warnings>>

OutputEnds(m) ==
    /\ mpc[m] = "write"
    /\ writer[m] > Len(writers)
    /\ OutputLock' = None
    /\ done' = done \cup {text[m]}
    /\ Goto(m, "input")
    /\ UNCHANGED <<params, inputVars, writers, writer, errorVars, Resolved, saved, bounds>>

\* What is in the miner's stream is reported, and the stream is cleared.
OutputError(m) ==
    /\ mpc[m] = "report"
    /\ Errors' = Errors \o ErrorStream[m]
    /\ ErrorStream' = [ErrorStream EXCEPT ![m] = <<>>]
    /\ Goto(m, "input")
    /\ UNCHANGED <<params, inputVars, outputVars, Resolved, saved, bounds>>

\* CProcessor::Run after all miners have returned.
SaveToFile ==
    /\ \A m \in Miners : mpc[m] = "stopped"
    /\ saved = None
    /\ saved' = IF setup.pretty THEN Last(writers).cells ELSE <<>>
    /\ UNCHANGED <<params, inputVars, outputVars, errorVars, Resolved, mpc, bounds>>

-----------------------------------------------------------------------------
MinerStep(m) ==
    \/ NextDocument(m) \/ NoNextDoc(m) \/ InputThrows(m) \/ GetNextDocInfo(m)
    \/ GetDocBodyByAdress(m) \/ CopyBody(m)
    \/ ResolveOptionArticles(m) \/ ResolveEnds(m) \/ Proceed(m) \/ ProceedThrows(m)
    \/ OutputFacts(m) \/ Write(m) \/ WriteUnnoticed(m) \/ WriteThrows(m)
    \/ OutputEnds(m) \/ OutputError(m)

Next == (\E m \in Miners : MinerStep(m)) \/ SaveToFile

Spec == Init /\ [][Next]_vars

\* A thread that can go on does, analysis and writing included.  No fairness of
\* the mutexes is assumed: others may take a lock first, as long as there are
\* documents.
Fairness ==
    /\ \A m \in Miners : WF_vars(MinerStep(m))
    /\ WF_vars(SaveToFile)

FairSpec == Spec /\ Fairness

-----------------------------------------------------------------------------
(* Properties.                                                             *)

Times(s, x) == Cardinality({i \in DOMAIN s : s[i] = x})

\* The documents that a miner gets: those before the first for which
\* GetNextDocInfo throws, which it does for every miner that comes to it.
Obtained ==
    {d \in Docs : kind[d] # "skipped" /\ \A e \in 1..d : kind[e] # "throws"}

\* Each document is analysed with its own text by one miner, and in the end it
\* has been put out or its failure has been reported, once, and not both,
\* although a miner's stream also holds what was said of earlier documents
\* (Run in simpleprocessor.cpp, NextDocument in processor.cpp).
HandledOnce ==
    /\ \A m \in Miners :
          mpc[m] \in {"resolve", "insert", "proceed", "output", "write"} =>
              text[m] = docAttr[m] /\ text[m] \notin done
    /\ \A d \in Docs : Times(Errors, <<"failed", d>>) + Cardinality({d} \cap done) <= 1
    /\ saved # None =>
          \A d \in Docs : (d \in Obtained) <=>
              (d \in done \/ Times(Errors, <<"failed", d>>) = 1)

\* A text file that is not to be appended to holds the last document only.
Keeps(w) == w.kind = "text" => w.append

\* Document c is before document d in the output s.
Precedes(s, c, d) == \E a, b \in DOMAIN s : a < b /\ s[a] = c /\ s[b] = d

\* The failure of d has been said, or the miner is about to report it.
SaidFailed(d) ==
    \/ Times(Errors, <<"failed", d>>) = 1
    \/ \E m \in Miners : Times(ErrorStream[m], <<"failed", d>>) = 1

\* The documents that OutputFacts has written and that both v and w have.
Common(v, w) == {d \in done : kind[d] # "empty" /\ d \notin v.lost \cup w.lost}

\* What was put out stays: every document that OutputFacts has written is in the
\* output of every writer but such a text file exactly once, unless the writer
\* leaves out documents without facts or protobuf's adaptor has kept an error of
\* its stream; any two of these writers have the documents in the same order,
\* and the pretty output is saved with all of them.  A document that could not
\* be written waits for the next, and each flush that fails half-way may write
\* it once more; none but such a document is there twice (OutputFacts in
\* processor.cpp; the writers).
OutputIsKept ==
    /\ \A i \in DOMAIN writers : Keeps(writers[i]) =>
          /\ \A d \in done :
                Times(writers[i].cells, d) =
                    IF Ignores(writers[i], d) \/ d \in writers[i].lost THEN 0 ELSE 1
          /\ \A d \in Docs : Times(writers[i].cells, d) > 1 => SaidFailed(d)
          /\ \A k \in DOMAIN writers : Keeps(writers[k]) =>
                \A c, d \in Common(writers[i], writers[k]) :
                    Precedes(writers[i].cells, c, d) <=> Precedes(writers[k].cells, c, d)
    /\ saved # None /\ setup.pretty => \A d \in done : Times(saved, d) = 1

\* The program ends, whatever fails.
RunReturns == <>(saved # None)

\* The options are not changed while another miner changes or reads them.
OptionsAreStable ==
    setup.articles =>
        \A m, n \in Miners :
            m # n /\ mpc[m] = "insert" => mpc[n] \notin {"insert", "proceed"}

\* Unless the file is to be overwritten the output is appended to it: what it
\* held before a document is written is there afterwards.
OutputIsAppended ==
    [][setup.mode # "overwrite" => IsPrefix(writers[1].cells, writers'[1].cells)]_vars
=============================================================================

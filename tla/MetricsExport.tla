---------------------------- MODULE MetricsExport ----------------------------
(***************************************************************************)
(* scripts/export_metrics_csv.mjs: fetch the metrics of a chain, make rows *)
(* of them, write a file, print a report.                                  *)
(*                                                                         *)
(* A text is a sequence of characters, which are numbers.  The latency of  *)
(* a row and its tail (P99 over P50) are numbers; the other columns of     *)
(* figures behave as total_calls does.  Providers are told apart by name.  *)
(***************************************************************************)
EXTENDS Integers, Sequences, FiniteSets, SequencesExt

CONSTANTS
  Answers,     \* what a server may answer: rpc_performance_by_method, as a
               \* sequence of [name, suffix, providers]
  Formats      \* subset of {"csv", "json"}

Texts   == Seq(Nat)
Figures == [name : Texts, calls : Nat \ {0}, latency : Nat, tail : Nat]
Entries == [name : Texts, suffix : Seq({"http", "ws"}), providers : Seq(Figures)]

\* The server lists a provider from its first call on.
ASSUME ExportAssumption == Answers \subseteq Seq(Entries) /\ Formats \subseteq {"csv", "json"}

VARIABLES
  answer, format,
  phase,       \* of run(): connecting, reading, read, saved, exited
  timer,       \* is the abort of the fetch pending?
  exit,        \* the status, or Running
  table,       \* rows of run(), once the answer is read
  file,        \* the content written, or NoFile
  report       \* what the analysis says, or NoReport

exportVars == <<answer, format, phase, timer, exit, table, file, report>>

Running == -1
NoFile == <<>>
NoReport == [fastest |-> <<>>, best |-> {}, numbers |-> <<>>]

Newline == 1
Quote == 2
Comma == 3
Digits == 100          \* the text of a number n is one character, Digits + n
TransportCode == [http |-> <<7>>, ws |-> <<8>>, unknown |-> <<9>>]

-----------------------------------------------------------------------------
(* Rows                                                                    *)

\* parseMethodName: "name@transport", or a name without one.
Transport(entry) == IF Len(entry.suffix) = 1 THEN entry.suffix[1] ELSE "unknown"

RowsOf(entry) ==
  [i \in DOMAIN entry.providers |->
     [method |-> entry.name, transport |-> Transport(entry),
      name |-> entry.providers[i].name, calls |-> entry.providers[i].calls,
      latency |-> entry.providers[i].latency, tail |-> entry.providers[i].tail]]

Before(s, t) ==          \* localeCompare
  \/ Len(s) < Len(t) /\ s = SubSeq(t, 1, Len(s))
  \/ \E i \in 1..Len(s) :
       i <= Len(t) /\ SubSeq(s, 1, i - 1) = SubSeq(t, 1, i - 1) /\ s[i] < t[i]

\* transportOrder[t] || 999: the 0 of http counts as absent.
TransportOrder == [http |-> 999, ws |-> 1, unknown |-> 2]

\* The comparison of transformToRows.
RowBefore(a, b) ==
  IF a.method # b.method THEN Before(a.method, b.method)
  ELSE IF a.transport # b.transport
  THEN TransportOrder[a.transport] < TransportOrder[b.transport]
  ELSE Before(a.name, b.name)

\* The array that sort() makes, which is stable: an item has its place behind those
\* before it and the earlier ones that are not after it.
Sorted(seq, Less(_, _)) ==
  LET Place(i) == Cardinality({j \in DOMAIN seq : \/ Less(seq[j], seq[i])
                                                  \/ j <= i /\ ~Less(seq[i], seq[j])})
  IN [k \in DOMAIN seq |-> seq[CHOOSE i \in DOMAIN seq : Place(i) = k]]

Extracted(data) == FlattenSeq([e \in DOMAIN data |-> RowsOf(data[e])])
TransformToRows(data) == Sorted(Extracted(data), RowBefore)

-----------------------------------------------------------------------------
(* CSV                                                                     *)
Fields(row) == <<row.method, row.name, TransportCode[row.transport], <<Digits + row.calls>>>>
Headers == <<<<10>>, <<11>>, <<12>>, <<13>>>>

\* Variant: quotes inside a field are not doubled.
EscapeInQuotes(field) ==
  IF Contains(field, Comma) \/ Contains(field, Newline) \/ Contains(field, Quote)
  THEN <<Quote>> \o field \o <<Quote>> ELSE field

EscapeCSVField(field) ==
  IF Contains(field, Comma) \/ Contains(field, Newline) \/ Contains(field, Quote)
  THEN <<Quote>> \o FlattenSeq([i \in DOMAIN field |->
                                  IF field[i] = Quote THEN <<Quote, Quote>> ELSE <<field[i]>>])
         \o <<Quote>>
  ELSE field

Line(fields) ==
  FlattenSeq([i \in DOMAIN fields |->
                (IF i > 1 THEN <<Comma>> ELSE <<>>) \o EscapeCSVField(fields[i])])

RowsToCSV(rows) ==
  FlattenSeq([i \in 1..(Len(rows) + 1) |->
                Line(IF i = 1 THEN Headers ELSE Fields(rows[i - 1])) \o <<Newline>>])

-----------------------------------------------------------------------------
(* The report                                                              *)
Sum(figures) ==
  LET upTo[i \in 0..Len(figures)] == IF i = 0 THEN 0 ELSE upTo[i - 1] + figures[i]
  IN upTo[Len(figures)]

\* The first among places S with the least item, as a stable sort puts it.
First(seq, S, Less(_, _)) ==
  seq[CHOOSE i \in S : \A j \in S : ~Less(seq[j], seq[i]) /\ (j < i => Less(seq[i], seq[j]))]

\* Sets of rows, by their places, and their figures.
Of(rows, name) == {i \in DOMAIN rows : rows[i].name = name}
OfMethod(rows, method) == {i \in DOMAIN rows : rows[i].method = method}
Busy(rows) == {i \in DOMAIN rows : rows[i].calls >= 10}       \* of varianceSummary

Calls(rows, S)   == Sum([i \in DOMAIN rows |-> IF i \in S THEN rows[i].calls ELSE 0])
Latency(rows, S) ==
  Sum([i \in DOMAIN rows |-> IF i \in S THEN rows[i].latency * rows[i].calls ELSE 0])
Ratio(rows, S)    == Sum([i \in DOMAIN rows |-> IF i \in S THEN rows[i].tail ELSE 0])

\* Variant: the average does not weigh rows by their calls.
FasterByRows(rows, a, b) ==
  LET Plain(S) == Sum([i \in DOMAIN rows |-> IF i \in S THEN rows[i].latency ELSE 0])
  IN Plain(Of(rows, a)) * Cardinality(Of(rows, b)) < Plain(Of(rows, b)) * Cardinality(Of(rows, a))

\* The order of providerRankings: latency per call.
Faster(rows, a, b) ==
  Latency(rows, Of(rows, a)) * Calls(rows, Of(rows, b))
    < Latency(rows, Of(rows, b)) * Calls(rows, Of(rows, a))

Fastest(rows) == First(rows, DOMAIN rows, LAMBDA r, q : Faster(rows, r.name, q.name)).name

Steadier(rows, a, b) ==
  LET of == Of(rows, a) \cap Busy(rows)
      than == Of(rows, b) \cap Busy(rows)
  IN Ratio(rows, of) * Cardinality(than) < Ratio(rows, than) * Cardinality(of)
Steadiest(rows) == First(rows, Busy(rows), LAMBDA r, q : Steadier(rows, r.name, q.name)).name

\* varianceSummary[0]?.name !== fastest.name
Apart(rows) == Busy(rows) = {} \/ Steadiest(rows) # Fastest(rows)

\* methodRecommendations: methods whose best row is not the fastest provider's.
Methods(rows) == {rows[i].method : i \in DOMAIN rows}
BestOf(rows, method) ==
  First(rows, OfMethod(rows, method), LAMBDA r, q : r.latency < q.latency)
Best(rows) == {r \in {BestOf(rows, m) : m \in Methods(rows)} : r.name # Fastest(rows)}

\* topMethodPct, rounded, above 50.
Dominated(rows) ==
  \E m \in Methods(rows) :
    200 * Calls(rows, OfMethod(rows, m)) >= 101 * Calls(rows, DOMAIN rows)

\* The numbers printed before the recommendations.
Numbers(rows) ==
  LET apart == IF Apart(rows) THEN 1 ELSE 0
      best  == IF Best(rows) # {} THEN 1 ELSE 0
  IN <<1>>
       \o (IF Apart(rows) /\ Busy(rows) # {} THEN <<2>> ELSE <<>>)
       \o (IF Best(rows) # {} THEN <<2 + apart>> ELSE <<>>)
       \o (IF Dominated(rows) THEN <<2 + apart + best>> ELSE <<>>)

Analysis(rows) ==
  [fastest |-> Fastest(rows), best |-> Best(rows), numbers |-> Numbers(rows)]

-----------------------------------------------------------------------------
(* run()                                                                   *)
Exits(status) == phase' = "exited" /\ exit' = status

\* The head of an answer that is ok.
Connected ==
  /\ phase = "connecting" /\ phase' = "reading"
  /\ UNCHANGED <<answer, format, timer, exit, table, file, report>>

\* A refused connection, a status that is not ok, a body that breaks off or is
\* not JSON.
FetchFails ==
  /\ phase \in {"connecting", "reading"}
  /\ timer' = FALSE /\ Exits(1)
  /\ UNCHANGED <<answer, format, table, file, report>>

\* controller.abort(), before the body is there.
TimesOut == timer /\ FetchFails

BodyRead ==
  /\ phase = "reading" /\ phase' = "read"
  /\ timer' = FALSE /\ table' = TransformToRows(answer)
  /\ UNCHANGED <<answer, format, exit, file, report>>

NothingToExport ==
  /\ phase = "read" /\ table = <<>>
  /\ Exits(1)
  /\ UNCHANGED <<answer, format, timer, table, file, report>>

Save ==
  /\ phase = "read" /\ table # <<>>
  /\ \/ /\ phase' = "saved"
        /\ file' = IF format = "csv" THEN RowsToCSV(table) ELSE table
        /\ UNCHANGED exit
     \/ Exits(1) /\ UNCHANGED file
  /\ UNCHANGED <<answer, format, timer, table, report>>

Analyse ==
  /\ phase = "saved"
  /\ report' = Analysis(table)
  /\ Exits(0)
  /\ UNCHANGED <<answer, format, timer, table, file>>

ExportInit ==
  /\ answer \in Answers /\ format \in Formats
  /\ phase = "connecting" /\ timer = TRUE /\ exit = Running
  /\ table = <<>> /\ file = NoFile /\ report = NoReport

ExportNext ==
  \/ Connected \/ FetchFails \/ TimesOut \/ BodyRead
  \/ NothingToExport \/ Save \/ Analyse

ExportSpec == ExportInit /\ [][ExportNext]_exportVars

-----------------------------------------------------------------------------
(* Properties                                                              *)

\* A reader of comma-separated values, with quotes around what needs them:
\* the records read, the fields and the field being read, inside quotes or not.
ReadChar(r, c) ==
  IF c = Quote
  THEN [r EXCEPT !.inside = ~@, !.closed = r.inside,
                 !.field = IF ~r.inside /\ r.closed THEN Append(@, Quote) ELSE @]
  ELSE IF r.inside THEN [r EXCEPT !.field = Append(@, c)]
  ELSE IF c = Comma
  THEN [r EXCEPT !.fields = Append(@, r.field), !.field = <<>>, !.closed = FALSE]
  ELSE IF c = Newline
  THEN [r EXCEPT !.records = Append(@, Append(r.fields, r.field)), !.fields = <<>>,
                 !.field = <<>>, !.closed = FALSE]
  ELSE [r EXCEPT !.field = Append(@, c), !.closed = FALSE]

Blank == [records |-> <<>>, fields |-> <<>>, field |-> <<>>, inside |-> FALSE, closed |-> FALSE]
Read(text) ==
  LET after[n \in 0..Len(text)] ==
        IF n = 0 THEN Blank ELSE ReadChar(after[n - 1], text[n])
  IN after[Len(text)].records

\* Rows that belong together are together, in ascending order of provider.
Grouped(rows) ==
  /\ \A i, j, k \in DOMAIN rows :
       i < j /\ j < k /\ rows[i].method = rows[k].method =>
         /\ rows[j].method = rows[i].method
         /\ rows[i].transport = rows[k].transport => rows[j].transport = rows[i].transport
  /\ \A i, j \in DOMAIN rows :
       i < j /\ rows[i].method = rows[j].method /\ rows[i].transport = rows[j].transport =>
         ~Before(rows[j].name, rows[i].name)

\* Every figure of the answer has its row, and no row is another's.
Exported(rows) ==
  LET sources == UNION {{e} \X DOMAIN answer[e].providers : e \in DOMAIN answer}
      Row(s)  == RowsOf(answer[s[1]])[s[2]]
  IN \A r \in ToSet(rows) \cup {Row(s) : s \in sources} :
       Cardinality({i \in DOMAIN rows : rows[i] = r}) = Cardinality({s \in sources : Row(s) = r})

\* A file holds every figure of the answer once, method by method, transport by
\* transport: what a reader of comma-separated values gets back is the rows,
\* whatever commas, quotes or line ends the names hold.  Success is not
\* reported without a file, nor failure with one.
FileReadsBack ==
  /\ exit = 0 => file # NoFile
  /\ exit = 1 => file = NoFile
  /\ file # NoFile =>
       /\ Grouped(table) /\ Exported(table)
       /\ format = "csv" => Read(file) = <<Headers>> \o [i \in DOMAIN table |-> Fields(table[i])]
       /\ format = "json" => file = table

\* The report advises the provider with the least latency per call, and for a
\* method another one only if it is the best there; and its advice is numbered
\* without a gap, when there are figures to compare consistency by.
ReportIsSound ==
  exit = 0 =>
    /\ \A i \in DOMAIN table :
         LET advised == Of(table, report.fastest)
             other   == Of(table, table[i].name)
         IN Latency(table, advised) * Calls(table, other)
              <= Latency(table, other) * Calls(table, advised)
    /\ \A b \in report.best :
         /\ b.name # report.fastest
         /\ \A i \in OfMethod(table, b.method) : b.latency <= table[i].latency
    /\ Busy(table) # {} => report.numbers = [i \in DOMAIN report.numbers |-> i]
=============================================================================
